--------------------------- MODULE PartitionProofs ---------------------------
(* Theorems about Partition, for every number of blocks and of positions.  *)
(*                                                                         *)
(* The passes are loops over the blocks in program order, so the inductive *)
(* invariant says, for each pass, what holds of the blocks before its      *)
(* cursor; edges lead to later blocks (Forward), so a block's parents are  *)
(* always behind the cursor and its children ahead of it.                  *)
EXTENDS Partition, FiniteSetTheorems, TLAPS

After == {"bpf", "lift", "done"}

(* TypeOK without the flags, and the flags.                                *)
TypeData ==
  /\ term \in [Blocks -> Terminator]
  /\ need \in [Blocks -> 0..MaxPos]
  /\ pc \in {"color", "only", "bpf", "lift", "done"}
  /\ cur \in 1..(NBlocks + 1)
  /\ ptrace_blocks \in [Blocks -> 0..MaxPos]
  /\ candidates \in Seq(Blocks)
  /\ Len(candidates) <= NBlocks
  /\ ptrace_only_blocks \subseteq Blocks
  /\ ptrace_targets \subseteq Blocks
  /\ BPF_IR \in [Blocks -> {"none", "code", "trace"}]
  /\ ret_data_to_label \in Seq(Blocks)
  /\ lifted \subseteq Blocks

TypeFlags == changed \in BOOLEAN /\ unsupported \in BOOLEAN

TypeInv == TypeData /\ TypeFlags

GraphInv == Forward /\ Entered

(* ColorCode: what it has marked behind its cursor.                        *)
ColorInv ==
  /\ \A b \in Blocks :
       pc = "color" /\ b >= cur => ptrace_blocks[b] = 0
  /\ \A b \in Blocks :
       pc # "color" \/ b < cur =>
         (IsPtrace(b) <=> (need[b] # 0 \/ \E p \in Parents(b) : IsPtrace(p)))

(* ColorCode marks everything if the root itself needs ptrace.             *)
RootInv ==
  need[1] # 0 => \A b \in Blocks : pc # "color" \/ b < cur => IsPtrace(b)

(* GetPtraceOnlyBB: it only adds dominated blocks and none that a          *)
(* dominance set could do without; a round that changed nothing has found  *)
(* every candidate behind its cursor in the set or not dominated.          *)
OnlyInv ==
  /\ pc = "color" => ptrace_only_blocks = {}
  /\ ptrace_only_blocks \subseteq PtraceBlocks
  /\ \A b \in ptrace_only_blocks : Dominated(b)
  /\ \A S \in SUBSET Blocks : IsDominanceSet(S) => ptrace_only_blocks \subseteq S
  /\ pc = "only" =>
       /\ \A i \in DOMAIN candidates : candidates[i] \in PtraceBlocks
       /\ \A b \in PtraceBlocks : \E i \in DOMAIN candidates : candidates[i] = b
  /\ pc = "only" /\ ~changed =>
       \A i \in DOMAIN candidates :
         i < cur => candidates[i] \in ptrace_only_blocks \/ ~Dominated(candidates[i])
  /\ pc \in After => IsDominanceSet(ptrace_only_blocks)

(* GenBPFIR is done with block b.                                          *)
Generated(b) == pc \in {"lift", "done"} \/ (pc = "bpf" /\ b < cur)

(* GenBPFIR: what it has emitted behind its cursor, and for which blocks   *)
(* return data have been handed out.                                       *)
BpfInv ==
  /\ \A b \in Blocks : ~Generated(b) => BPF_IR[b] = "none"
  /\ \A b \in Blocks : BPF_IR[b] = "code" => b \notin ptrace_only_blocks
  /\ \A b \in Blocks : BPF_IR[b] = "trace" => b \in ptrace_only_blocks
  /\ 1 \notin ptrace_only_blocks =>
       \A b \in Blocks : Generated(b) =>
         /\ b \notin ptrace_only_blocks => BPF_IR[b] = "code"
         /\ b \in ptrace_only_blocks /\ ptrace_blocks[b] # 1 => unsupported
         /\ b \in ptrace_targets /\ ptrace_blocks[b] = 1 => BPF_IR[b] = "trace"
  /\ 1 \in ptrace_only_blocks => \A b \in Blocks : BPF_IR[b] # "code"
  /\ ptrace_targets \subseteq ptrace_only_blocks
  /\ \A e \in Edges :
       BPF_IR[e[1]] = "code" /\ e[3] \in ptrace_only_blocks => e[3] \in ptrace_targets

DataInv ==
  /\ \A i \in DOMAIN ret_data_to_label : BPF_IR[ret_data_to_label[i]] = "trace"
  /\ \A b \in Blocks : BPF_IR[b] = "trace" => \E i \in DOMAIN ret_data_to_label : ret_data_to_label[i] = b
  /\ \A i, j \in DOMAIN ret_data_to_label : ret_data_to_label[i] = ret_data_to_label[j] => i = j

(* GenPtraceCode is done with block b.                                     *)
Visited(b) == pc = "done" \/ (pc = "lift" /\ b < cur)

(* GenPtraceCode: what it has lifted or reported behind its cursor.  The   *)
(* last conjunct carries the corner case along the blocks.                 *)
LiftInv ==
  /\ \A b \in lifted : ptrace_blocks[b] = 1
  /\ pc # "lift" /\ pc # "done" => lifted = {}
  /\ \A b \in Blocks : Visited(b) =>
       /\ ptrace_blocks[b] = 1 => b \in lifted
       /\ ptrace_blocks[b] > 1 => unsupported
       /\ 1 \in ptrace_only_blocks => b \in ptrace_only_blocks

-----------------------------------------------------------------------------
(* The graph *)

(* Edges lead from a block to a later block.                               *)
LEMMA EdgeOrder ==
  ASSUME TypeData, Forward
  PROVE  \A e \in Edges : e[1] \in Blocks /\ e[3] \in Blocks /\ e[1] < e[3]
<1>1. SUFFICES ASSUME NEW e \in Edges
               PROVE  e[1] \in Blocks /\ e[3] \in Blocks /\ e[1] < e[3]
  OBVIOUS
<1>2. CASE e \in {<<b, "fall", b + 1>> : b \in {x \in Blocks : term[x].kind = "fall" /\ x < NBlocks}}
  BY <1>2, NBlocksAssumption DEF Blocks
<1>3. \A b \in Blocks : term[b].kind = "branch" => term[b].t \in Blocks /\ term[b].f \in Blocks
  BY DEF TypeData, Terminator, Blocks
<1>4. CASE e \in {<<b, "true", term[b].t>> : b \in {x \in Blocks : term[x].kind = "branch"}}
  BY <1>3, <1>4 DEF Forward, Blocks
<1>5. CASE e \in {<<b, "false", term[b].f>> : b \in {x \in Blocks : term[x].kind = "branch"}}
  BY <1>3, <1>5 DEF Forward, Blocks
<1> QED BY <1>1, <1>2, <1>4, <1>5 DEF Edges

(* A block's parents are earlier blocks.                                   *)
LEMMA ParentsEarlier ==
  ASSUME TypeData, Forward, NEW b \in Blocks
  PROVE  \A p \in Parents(b) : p \in Blocks /\ p < b
BY EdgeOrder DEF Parents, InEdges

(* The graph is an input of the passes: it does not change.                *)
LEMMA Static ==
  ASSUME UNCHANGED cfgVars
  PROVE  /\ Edges' = Edges
         /\ \A b : InEdges(b)' = InEdges(b)
         /\ \A b : Parents(b)' = Parents(b)
         /\ \A b : AtMostOneParent(b)' <=> AtMostOneParent(b)
         /\ Forward' <=> Forward
         /\ Entered' <=> Entered
<1>1. term' = term /\ need' = need
  BY DEF cfgVars
<1>2. Edges' = Edges
  BY <1>1 DEF Edges, Blocks
<1>3. \A b : InEdges(b)' = InEdges(b)
  BY <1>2 DEF InEdges
<1>4. \A b : Parents(b)' = Parents(b)
  BY <1>3 DEF Parents
<1>5. \A b : AtMostOneParent(b)' <=> AtMostOneParent(b)
  BY <1>3 DEF AtMostOneParent
<1>6. Forward' <=> Forward
  BY <1>1 DEF Forward, Blocks
<1>7. Entered' <=> Entered
  BY <1>3 DEF Entered, Blocks
<1> QED BY <1>2, <1>3, <1>4, <1>5, <1>6, <1>7

(* Every step leaves the graph alone.                                      *)
LEMMA StepStatic ==
  ASSUME [Next]_vars
  PROVE  UNCHANGED cfgVars
BY DEF Next, vars, cfgVars, ColorBlock, CollectCandidates, VisitCandidate, EndRound,
       TraceWholeCheck, GenBlock, EndBPF, LiftBlock, EndLift

-----------------------------------------------------------------------------
(* Types and the graph *)

LEMMA InitType == Init => TypeInv /\ GraphInv
<1> SUFFICES ASSUME Init PROVE TypeInv /\ GraphInv
  OBVIOUS
<1>1. TypeData
  BY NBlocksAssumption, MaxPosAssumption DEF Init, TypeData, Blocks
<1>2. TypeFlags
  BY Zenon DEF Init, TypeFlags
<1>3. GraphInv
  BY DEF Init, GraphInv
<1> QED BY <1>1, <1>2, <1>3 DEF TypeInv

(* No step changes the graph.                                              *)
LEMMA GraphStep ==
  ASSUME GraphInv, [Next]_vars
  PROVE  GraphInv'
BY StepStatic, Static DEF GraphInv

(* There are no more candidates than blocks.                               *)
LEMMA OrdersType ==
  ASSUME TypeData, NEW q \in Orders(PtraceBlocks)
  PROVE  /\ q \in Seq(Blocks)
         /\ Len(q) <= NBlocks
         /\ \A i \in DOMAIN q : q[i] \in PtraceBlocks
         /\ \A b \in PtraceBlocks : \E i \in DOMAIN q : q[i] = b
<1>1. IsFiniteSet(Blocks) /\ Cardinality(Blocks) = NBlocks
  BY FS_Interval, NBlocksAssumption DEF Blocks
<1>2. PtraceBlocks \in SUBSET Blocks
  BY DEF PtraceBlocks
<1>3. IsFiniteSet(PtraceBlocks) /\ Cardinality(PtraceBlocks) <= NBlocks
  BY <1>1, <1>2, FS_Subset
<1>4. Cardinality(PtraceBlocks) \in Nat
  BY <1>3, FS_CardinalityType
<1>5. q \in [1..Cardinality(PtraceBlocks) -> PtraceBlocks]
  BY DEF Orders
<1>6. q \in Seq(Blocks) /\ Len(q) = Cardinality(PtraceBlocks)
  BY <1>2, <1>4, <1>5
<1> QED BY <1>3, <1>5, <1>6 DEF Orders

(* The flags and the order of the candidates keep their types.             *)
LEMMA FlagsStep ==
  ASSUME TypeFlags, [Next]_vars
  PROVE  TypeFlags'
<1> USE DEF TypeFlags
<1>1. CASE ColorBlock
  BY <1>1 DEF ColorBlock
<1>2. CASE CollectCandidates
  BY <1>2 DEF CollectCandidates
<1>3. CASE VisitCandidate
  BY <1>3, Zenon DEF VisitCandidate
<1>4. CASE EndRound
  BY <1>4, Zenon DEF EndRound
<1>5. CASE TraceWholeCheck
  BY <1>5 DEF TraceWholeCheck
<1>6. CASE GenBlock
  BY <1>6, Zenon DEF GenBlock, EmitCode, SkipSpecialCase, EmitHandover, SkipInner
<1>7. CASE EndBPF
  BY <1>7 DEF EndBPF
<1>8. CASE LiftBlock
  BY <1>8, Zenon DEF LiftBlock
<1>9. CASE EndLift
  BY <1>9 DEF EndLift
<1>10. CASE UNCHANGED vars
  BY <1>10 DEF vars
<1> QED BY <1>1, <1>2, <1>3, <1>4, <1>5, <1>6, <1>7, <1>8, <1>9, <1>10 DEF Next

(* The data of the passes keep their types.                                *)
LEMMA DataStep ==
  ASSUME TypeData, [Next]_vars
  PROVE  TypeData'
<1> USE NBlocksAssumption, MaxPosAssumption
<1>1. term' = term /\ need' = need
  BY StepStatic DEF cfgVars
<1>2. ASSUME NEW b \in Blocks, EmitTrace(b)
      PROVE  /\ BPF_IR' \in [Blocks -> {"none", "code", "trace"}]
             /\ ret_data_to_label' \in Seq(Blocks)
  BY <1>2 DEF EmitTrace, TypeData
<1>3. CASE ColorBlock
  <2>1. cur \in Blocks /\ need[cur] \in 0..MaxPos
    BY <1>3 DEF ColorBlock, TypeData, Blocks
  <2>2. ptrace_blocks' \in [Blocks -> 0..MaxPos]
    BY <1>3, <2>1 DEF ColorBlock, TypeData
  <2>3. cur' \in 1..(NBlocks + 1)
    BY <1>3, <2>1 DEF ColorBlock, Blocks
  <2>4. UNCHANGED <<pc, candidates, ptrace_only_blocks, ptrace_targets, BPF_IR,
                    ret_data_to_label, lifted>>
    BY <1>3 DEF ColorBlock
  <2> QED BY <1>1, <2>2, <2>3, <2>4 DEF TypeData
<1>4. CASE CollectCandidates
  <2>1. candidates' \in Seq(Blocks) /\ Len(candidates') <= NBlocks
    BY <1>4, OrdersType DEF CollectCandidates
  <2> QED BY <1>1, <1>4, <2>1 DEF CollectCandidates, TypeData
<1>5. CASE VisitCandidate
  <2>1. candidates[cur] \in Blocks /\ cur + 1 \in 1..(NBlocks + 1)
    BY <1>5 DEF VisitCandidate, TypeData
  <2>2. ptrace_only_blocks' \subseteq Blocks
    BY <1>5, <2>1 DEF VisitCandidate, TypeData
  <2> QED BY <1>1, <1>5, <2>1, <2>2 DEF VisitCandidate, TypeData
<1>6. CASE EndRound
  BY <1>1, <1>6 DEF EndRound, TypeData
<1>7. CASE TraceWholeCheck
  <2>1. 1 \in Blocks
    BY DEF Blocks
  <2> QED BY <1>1, <1>2, <1>7, <2>1 DEF TraceWholeCheck, TypeData
<1>8. CASE GenBlock
  <2>1. cur \in Blocks
    BY <1>8 DEF GenBlock, TypeData, Blocks
  <2>0. /\ UNCHANGED <<pc, ptrace_blocks, candidates, ptrace_only_blocks, lifted>>
        /\ cur' = cur + 1 /\ cur' \in 1..(NBlocks + 1)
    BY <1>8, <2>1 DEF GenBlock, Blocks
  <2>2. CASE EmitCode(cur)
    <3>1. Children(cur) \cap ptrace_only_blocks \subseteq Blocks
      BY DEF TypeData
    <3>2. /\ ptrace_targets' \subseteq Blocks
          /\ BPF_IR' \in [Blocks -> {"none", "code", "trace"}]
          /\ UNCHANGED ret_data_to_label
      BY <2>1, <2>2, <3>1 DEF EmitCode, TypeData
    <3> QED BY <1>1, <2>0, <3>2 DEF TypeData
  <2>3. CASE SkipSpecialCase(cur)
    <3>1. UNCHANGED <<BPF_IR, ptrace_targets, ret_data_to_label>>
      BY <2>3 DEF SkipSpecialCase
    <3> QED BY <1>1, <2>0, <3>1 DEF TypeData
  <2>4. CASE EmitHandover(cur)
    <3>1. EmitTrace(cur) /\ UNCHANGED ptrace_targets
      BY <2>4 DEF EmitHandover
    <3>2. /\ BPF_IR' \in [Blocks -> {"none", "code", "trace"}]
          /\ ret_data_to_label' \in Seq(Blocks)
      BY <1>2, <2>1, <3>1
    <3> QED BY <1>1, <2>0, <3>1, <3>2 DEF TypeData
  <2>5. CASE SkipInner(cur)
    <3>1. UNCHANGED <<BPF_IR, ptrace_targets, ret_data_to_label>>
      BY <2>5 DEF SkipInner
    <3> QED BY <1>1, <2>0, <3>1 DEF TypeData
  <2>6. EmitCode(cur) \/ SkipSpecialCase(cur) \/ EmitHandover(cur) \/ SkipInner(cur)
    BY <1>8 DEF GenBlock
  <2> QED BY <2>2, <2>3, <2>4, <2>5, <2>6
<1>9. CASE EndBPF
  BY <1>1, <1>9 DEF EndBPF, TypeData
<1>10. CASE LiftBlock
  <2>1. cur \in Blocks
    BY <1>10 DEF LiftBlock, TypeData, Blocks
  <2>2. lifted' \subseteq Blocks /\ cur' \in 1..(NBlocks + 1)
    BY <1>10, <2>1 DEF LiftBlock, TypeData, Blocks
  <2>3. UNCHANGED <<pc, ptrace_blocks, candidates, ptrace_only_blocks, ptrace_targets,
                    BPF_IR, ret_data_to_label>>
    BY <1>10 DEF LiftBlock
  <2> QED BY <1>1, <2>2, <2>3 DEF TypeData
<1>11. CASE EndLift
  BY <1>1, <1>11 DEF EndLift, TypeData
<1>12. CASE UNCHANGED vars
  BY <1>12 DEF vars, cfgVars, TypeData
<1> QED BY <1>3, <1>4, <1>5, <1>6, <1>7, <1>8, <1>9, <1>10, <1>11, <1>12 DEF Next

(* The passes keep their data within their types: cursors stay in their    *)
(* loops and every set and list holds blocks of the graph only.            *)
THEOREM TypeCorrect == Spec => []TypeOK
<1>1. Init => TypeInv
  BY InitType
<1>2. TypeInv /\ [Next]_vars => TypeInv'
  BY FlagsStep, DataStep DEF TypeInv
<1>3. TypeInv => TypeOK
  BY DEF TypeInv, TypeData, TypeFlags, TypeOK
<1> QED BY <1>1, <1>2, <1>3, PTL DEF Spec

-----------------------------------------------------------------------------
(* ColorCode *)

(* Marks are made in this pass only.                                       *)
LEMMA MarksKept ==
  ASSUME [Next]_vars, ~ColorBlock
  PROVE  ptrace_blocks' = ptrace_blocks
BY DEF Next, vars, CollectCandidates, VisitCandidate, EndRound, TraceWholeCheck,
       GenBlock, EndBPF, LiftBlock, EndLift

(* A step other than an iteration of the loop leaves no block unvisited.   *)
LEMMA ColorOver ==
  ASSUME TypeData, [Next]_vars, ~ColorBlock, ~UNCHANGED vars
  PROVE  /\ pc' # "color"
         /\ pc # "color" \/ \A b \in Blocks : b < cur
<1>1. CASE CollectCandidates
  BY <1>1, NBlocksAssumption DEF CollectCandidates, TypeData, Blocks
<1>2. CASE ~CollectCandidates
  BY <1>2 DEF Next, VisitCandidate, EndRound, TraceWholeCheck, GenBlock, EndBPF, LiftBlock, EndLift
<1> QED BY <1>1, <1>2

(* Each iteration of ColorCode keeps what is known of the blocks before it.*)
LEMMA ColorStep ==
  ASSUME TypeInv, GraphInv, ColorInv, RootInv, [Next]_vars
  PROVE  ColorInv' /\ RootInv'
<1> USE NBlocksAssumption
<1>0. /\ \A b : Parents(b)' = Parents(b)
      /\ need' = need
  BY StepStatic, Static DEF cfgVars
<1>1. CASE ColorBlock
  <2>1. cur \in Blocks /\ pc = "color" /\ pc' = "color" /\ cur' = cur + 1
    BY <1>1 DEF ColorBlock, TypeInv, TypeData, Blocks
  <2>2. \A b \in Blocks : b # cur => ptrace_blocks'[b] = ptrace_blocks[b]
    BY <1>1, <2>1 DEF ColorBlock, TypeInv, TypeData
  <2>3. ptrace_blocks'[cur] = IF \E p \in Parents(cur) : IsPtrace(p) THEN 1 ELSE need[cur]
    BY <1>1, <2>1 DEF ColorBlock, TypeInv, TypeData
  <2>4. \A b \in Blocks : b # cur => (IsPtrace(b)' <=> IsPtrace(b))
    BY <2>2 DEF IsPtrace
  <2>5. ptrace_blocks'[cur] # 0 <=> (need[cur] # 0 \/ \E p \in Parents(cur) : IsPtrace(p))
    BY <2>3 DEF IsPtrace
  <2>6. \A b \in Blocks : \A p \in Parents(b) : p \in Blocks /\ p < b
    BY ParentsEarlier DEF TypeInv, GraphInv
  <2>7. \A b \in Blocks : b <= cur =>
          \A p \in Parents(b) : p # cur /\ (IsPtrace(p)' <=> IsPtrace(p))
    BY <2>1, <2>4, <2>6 DEF Blocks
  <2>8. \A b \in Blocks : b >= cur + 1 => ptrace_blocks'[b] = 0
    BY <2>1, <2>2 DEF ColorInv, Blocks
  <2>9. ASSUME NEW b \in Blocks, b < cur + 1
        PROVE  IsPtrace(b)' <=> (need[b] # 0 \/ \E p \in Parents(b) : IsPtrace(p)')
    <3>1. \A p \in Parents(b) : IsPtrace(p)' <=> IsPtrace(p)
      BY <2>1, <2>7, <2>9 DEF Blocks
    <3>2. CASE b = cur
      BY <2>5, <3>1, <3>2 DEF IsPtrace
    <3>3. CASE b # cur
      <4>1. b < cur
        BY <2>1, <2>9, <3>3 DEF Blocks
      <4>2. IsPtrace(b) <=> (need[b] # 0 \/ \E p \in Parents(b) : IsPtrace(p))
        BY <4>1 DEF ColorInv
      <4> QED BY <2>4, <3>1, <3>3, <4>2
    <3> QED BY <3>2, <3>3
  <2>10. ColorInv'
    BY <1>0, <2>1, <2>8, <2>9 DEF ColorInv
  <2>11. ASSUME need[1] # 0, NEW b \in Blocks, b < cur + 1
         PROVE  IsPtrace(b)'
    <3>1. CASE b # cur
      BY <2>1, <2>4, <2>11, <3>1 DEF RootInv, Blocks
    <3>2. CASE b = cur /\ cur = 1
      BY <2>5, <2>11, <3>2 DEF IsPtrace
    <3>3. CASE b = cur /\ cur # 1
      <4>1. PICK p \in Parents(cur) : p \in Blocks /\ p < cur
        BY <2>1, <2>6, <3>3 DEF GraphInv, Entered, Parents
      <4>2. IsPtrace(p)
        BY <2>11, <4>1 DEF RootInv
      <4> QED BY <2>5, <3>3, <4>1, <4>2 DEF IsPtrace
    <3> QED BY <3>1, <3>2, <3>3
  <2>12. RootInv'
    BY <1>0, <2>1, <2>11 DEF RootInv
  <2> QED BY <2>10, <2>12
<1>2. CASE ~ColorBlock /\ ~UNCHANGED vars
  <2>1. ptrace_blocks' = ptrace_blocks
    BY <1>2, MarksKept
  <2>2. \A b : IsPtrace(b)' <=> IsPtrace(b)
    BY <2>1 DEF IsPtrace
  <2>3. pc' # "color" /\ (pc # "color" \/ \A b \in Blocks : b < cur)
    BY <1>2, ColorOver DEF TypeInv
  <2> QED BY <1>0, <2>2, <2>3 DEF ColorInv, RootInv
<1>3. CASE UNCHANGED vars
  <2>1. /\ \A b : IsPtrace(b)' <=> IsPtrace(b)
        /\ ptrace_blocks' = ptrace_blocks
        /\ pc' = pc
        /\ cur' = cur
    BY <1>3 DEF vars, IsPtrace
  <2> QED BY <1>0, <2>1 DEF ColorInv, RootInv
<1> QED BY <1>1, <1>2, <1>3

(* Before the first block nothing is marked.                               *)
LEMMA ColorInit == Init => ColorInv /\ RootInv
BY DEF Init, ColorInv, RootInv, IsPtrace, Blocks

(* The tracer never has to go back to the filter: for every graph, the     *)
(* marks of ColorCode are closed under the edges.                          *)
THEOREM TracerClosedCorrect == Spec => []TracerClosed
<1> DEFINE Inv == TypeInv /\ GraphInv /\ ColorInv /\ RootInv
<1>1. Init => Inv
  BY InitType, ColorInit
<1>2. Inv /\ [Next]_vars => Inv'
  BY FlagsStep, DataStep, GraphStep, ColorStep DEF TypeInv
<1>3. Inv => TracerClosed
  BY DEF ColorInv, TracerClosed
<1> QED BY <1>1, <1>2, <1>3, PTL DEF Spec

-----------------------------------------------------------------------------
(* GetPtraceOnlyBB *)

(* What a set has to be to be a dominance set does not change once the     *)
(* marks are made.                                                         *)
LEMMA DominanceStatic ==
  ASSUME [Next]_vars, ptrace_blocks' = ptrace_blocks
  PROVE  /\ PtraceBlocks' = PtraceBlocks
         /\ \A S : IsDominanceSet(S)' <=> IsDominanceSet(S)
         /\ ptrace_only_blocks' = ptrace_only_blocks =>
              (IsDominanceSet(ptrace_only_blocks)' <=> IsDominanceSet(ptrace_only_blocks))
<1>1. /\ \A b : Parents(b)' = Parents(b)
      /\ \A b : AtMostOneParent(b)' <=> AtMostOneParent(b)
  BY StepStatic, Static
<1>2. \A b : IsPtrace(b)' <=> IsPtrace(b)
  BY DEF IsPtrace
<1>3. PtraceBlocks' = PtraceBlocks
  BY <1>2 DEF PtraceBlocks, Blocks
<1> QED BY <1>1, <1>2, <1>3 DEF IsDominanceSet, Blocks

(* At first no block is tracer-only.                                       *)
LEMMA OnlyInit == Init => OnlyInv
BY DEF Init, OnlyInv, After

(* One candidate: it is added only if every dominance set holds it.        *)
LEMMA OnlyVisit ==
  ASSUME TypeData, OnlyInv, VisitCandidate
  PROVE  OnlyInv'
<1> DEFINE c == candidates[cur]
<1>1. /\ pc = "only" /\ pc' = "only"
      /\ cur \in DOMAIN candidates /\ cur' = cur + 1
      /\ candidates' = candidates /\ ptrace_blocks' = ptrace_blocks
      /\ UNCHANGED cfgVars
  BY DEF VisitCandidate, cfgVars
<1>2. [Next]_vars
  BY DEF Next
<1>3. /\ PtraceBlocks' = PtraceBlocks
      /\ \A S : IsDominanceSet(S)' <=> IsDominanceSet(S)
  BY <1>1, <1>2, DominanceStatic
<1>4. c \in PtraceBlocks /\ c \in Blocks
  BY <1>1 DEF OnlyInv, TypeData, PtraceBlocks
<1>5. \A b : Dominated(b)' <=> (Parents(b) \subseteq ptrace_only_blocks' \/ AtMostOneParent(b))
  BY <1>1, Static DEF Dominated
<1>6. CASE c \notin ptrace_only_blocks /\ Dominated(c)
  <2>1. ptrace_only_blocks' = ptrace_only_blocks \cup {c} /\ changed' = TRUE
    BY <1>6, Zenon DEF VisitCandidate
  <2>2. \A b : Dominated(b) => Dominated(b)'
    BY <1>5, <2>1 DEF Dominated
  <2>3. \A b \in ptrace_only_blocks' : Dominated(b)'
    BY <1>6, <2>1, <2>2 DEF OnlyInv
  <2>4. ASSUME NEW S \in SUBSET Blocks, IsDominanceSet(S)
        PROVE  ptrace_only_blocks' \subseteq S
    <3>1. ptrace_only_blocks \subseteq S
      BY <2>4 DEF OnlyInv
    <3>2. c \in S
      BY <1>4, <1>6, <2>4, <3>1 DEF IsDominanceSet, Dominated, PtraceBlocks
    <3> QED BY <2>1, <3>1, <3>2
  <2>5. ptrace_only_blocks' \subseteq PtraceBlocks'
    BY <1>3, <1>4, <2>1 DEF OnlyInv
  <2>6. \A S \in SUBSET Blocks : IsDominanceSet(S)' => ptrace_only_blocks' \subseteq S
    BY <1>3, <2>4
  <2> QED BY <1>1, <1>3, <2>1, <2>3, <2>5, <2>6 DEF OnlyInv, After, Blocks
<1>7. CASE ~(c \notin ptrace_only_blocks /\ Dominated(c))
  <2>1. ptrace_only_blocks' = ptrace_only_blocks /\ (changed' <=> changed)
    BY <1>7, Zenon DEF VisitCandidate
  <2>2. \A b : Dominated(b)' <=> Dominated(b)
    BY <1>5, <2>1 DEF Dominated
  <2>3. ASSUME ~changed', NEW i \in DOMAIN candidates, i < cur + 1
        PROVE  candidates[i] \in ptrace_only_blocks \/ ~Dominated(candidates[i])
    <3>1. i = cur \/ i < cur
      BY <1>1, <2>3 DEF TypeData
    <3> QED BY <1>1, <1>7, <2>1, <2>3, <3>1 DEF OnlyInv
  <2>4. \A i \in DOMAIN candidates : Dominated(candidates[i])' <=> Dominated(candidates[i])
    BY <1>1, <2>1, Static DEF Dominated, AtMostOneParent, Parents, InEdges
  <2> QED BY <1>1, <1>3, <2>1, <2>2, <2>3, <2>4 DEF OnlyInv, After, Blocks
<1> QED BY <1>6, <1>7

(* The end of a round: one that changed nothing ends at a dominance set.   *)
LEMMA OnlyRound ==
  ASSUME TypeData, OnlyInv, EndRound
  PROVE  OnlyInv'
<1>1. /\ pc = "only" /\ cur \notin DOMAIN candidates /\ cur' = 1
      /\ candidates' = candidates /\ ptrace_blocks' = ptrace_blocks
      /\ ptrace_only_blocks' = ptrace_only_blocks
      /\ UNCHANGED cfgVars
  BY DEF EndRound, cfgVars
<1>2. [Next]_vars
  BY DEF Next
<1>3. /\ PtraceBlocks' = PtraceBlocks
      /\ \A S : IsDominanceSet(S)' <=> IsDominanceSet(S)
  BY <1>1, <1>2, DominanceStatic
<1>4. \A b : Dominated(b)' <=> Dominated(b)
  BY <1>1, Static DEF Dominated
<1>5. \A i \in DOMAIN candidates : i < cur /\ i >= 1
  BY <1>1 DEF TypeData
<1>6. CASE changed
  <2>1. pc' = "only"
    BY <1>6, Zenon DEF EndRound
  <2>2. \A i \in DOMAIN candidates : ~(i < 1)
    BY <1>5 DEF TypeData
  <2> QED BY <1>1, <1>3, <1>4, <2>1, <2>2 DEF OnlyInv, After, Blocks
<1>7. CASE ~changed
  <2>1. pc' = "bpf"
    BY <1>7, Zenon DEF EndRound
  <2>2. \A b \in PtraceBlocks : Dominated(b) => b \in ptrace_only_blocks
    BY <1>1, <1>5, <1>7 DEF OnlyInv
  <2>3. IsDominanceSet(ptrace_only_blocks)
    BY <2>2 DEF OnlyInv, IsDominanceSet, Dominated, PtraceBlocks
  <2> QED BY <1>1, <1>3, <1>4, <2>1, <2>3 DEF OnlyInv, After, Blocks
<1> QED BY <1>6, <1>7

(* Each candidate visited keeps the tracer-only blocks within the fixpoint.*)
LEMMA OnlyStep ==
  ASSUME TypeInv, OnlyInv, [Next]_vars
  PROVE  OnlyInv'
<1>1. CASE ColorBlock
  <2>1. pc' = "color" /\ ptrace_only_blocks' = {}
    BY <1>1 DEF ColorBlock, OnlyInv
  <2> QED BY <2>1 DEF OnlyInv, After
<1>2. CASE CollectCandidates
  <2>1. /\ pc' = "only" /\ cur' = 1 /\ ptrace_only_blocks' = {}
        /\ candidates' \in Orders(PtraceBlocks)
        /\ ptrace_blocks' = ptrace_blocks
    BY <1>2 DEF CollectCandidates, OnlyInv
  <2>2. PtraceBlocks' = PtraceBlocks
    BY <2>1, DominanceStatic
  <2>3. \A i \in DOMAIN candidates' : ~(i < 1)
    BY <2>1, OrdersType DEF TypeInv
  <2> QED BY <2>1, <2>2, <2>3, OrdersType DEF OnlyInv, After, TypeInv
<1>3. CASE VisitCandidate
  BY <1>3, OnlyVisit DEF TypeInv
<1>4. CASE EndRound
  BY <1>4, OnlyRound DEF TypeInv
<1>5. CASE TraceWholeCheck \/ GenBlock \/ EndBPF \/ LiftBlock \/ EndLift
  <2>1. /\ pc \in After /\ pc' \in After
        /\ ptrace_blocks' = ptrace_blocks /\ ptrace_only_blocks' = ptrace_only_blocks
    BY <1>5 DEF TraceWholeCheck, GenBlock, EndBPF, LiftBlock, EndLift, After
  <2>2. \A b : Dominated(b)' <=> Dominated(b)
    BY <2>1, StepStatic, Static DEF Dominated
  <2>3. \A S : IsDominanceSet(S)' <=> IsDominanceSet(S)
    BY <2>1, DominanceStatic
  <2>4. IsDominanceSet(ptrace_only_blocks)'
    BY <2>1, DominanceStatic DEF OnlyInv
  <2> QED BY <2>1, <2>2, <2>3, <2>4, DominanceStatic DEF OnlyInv, After, Blocks
<1>6. CASE UNCHANGED vars
  <2>1. UNCHANGED <<pc, cur, ptrace_blocks, ptrace_only_blocks, candidates, changed>>
    BY <1>6 DEF vars
  <2>2. \A b : Dominated(b)' <=> Dominated(b)
    BY <2>1, StepStatic, Static DEF Dominated
  <2>3. PtraceBlocks' = PtraceBlocks /\ \A S : IsDominanceSet(S)' <=> IsDominanceSet(S)
    BY <2>1, DominanceStatic
  <2>4. pc \in After => IsDominanceSet(ptrace_only_blocks)'
    BY <2>1, DominanceStatic DEF OnlyInv
  <2> QED BY <2>1, <2>2, <2>3, <2>4 DEF OnlyInv, After, Blocks
<1> QED BY <1>1, <1>2, <1>3, <1>4, <1>5, <1>6 DEF Next

(* The order in which the hash map lists its keys does not show: for every *)
(* graph and every order the split is the least dominance set.             *)
THEOREM OrderIndependentCorrect == Spec => []OrderIndependent
<1> DEFINE Inv == TypeInv /\ OnlyInv
<1>1. Init => Inv
  BY InitType, OnlyInit
<1>2. Inv /\ [Next]_vars => Inv'
  BY FlagsStep, DataStep, OnlyStep DEF TypeInv
<1>3. Inv => OrderIndependent
  BY DEF OnlyInv, OrderIndependent, After
<1> QED BY <1>1, <1>2, <1>3, PTL DEF Spec

-----------------------------------------------------------------------------
(* GenBPFIR *)

LEMMA BpfInit == Init => BpfInv /\ DataInv
<1> SUFFICES ASSUME Init PROVE BpfInv /\ DataInv
  OBVIOUS
<1>1. \A b \in Blocks : BPF_IR[b] = "none"
  BY DEF Init
<1>2. \A e \in Edges : e[1] \in Blocks
  BY InitType, EdgeOrder DEF TypeInv, GraphInv
<1>3. 1 \in Blocks
  BY NBlocksAssumption DEF Blocks
<1> QED BY <1>1, <1>2, <1>3 DEF Init, BpfInv, DataInv, Generated

(* Until GenBPFIR starts the filter is empty.                              *)
LEMMA BpfNotYet ==
  ASSUME TypeInv, GraphInv, BpfInv, [Next]_vars,
         ColorBlock \/ CollectCandidates \/ VisitCandidate \/ EndRound
  PROVE  BpfInv'
<1>1. /\ pc \in {"color", "only"}
      /\ pc' \in {"color", "only"} \/ (pc' = "bpf" /\ cur' = 1)
      /\ BPF_IR' = BPF_IR /\ ptrace_targets' = ptrace_targets
      /\ ptrace_only_blocks \subseteq ptrace_only_blocks'
  BY DEF ColorBlock, CollectCandidates, VisitCandidate, EndRound
<1>2. \A b \in Blocks : ~Generated(b) /\ ~Generated(b)'
  BY <1>1 DEF Generated, Blocks
<1>3. \A b \in Blocks : BPF_IR[b] = "none"
  BY <1>2 DEF BpfInv
<1>4. \A e \in Edges' : e[1] \in Blocks
  BY StepStatic, Static, EdgeOrder DEF TypeInv, GraphInv
<1> QED BY <1>1, <1>2, <1>3, <1>4 DEF BpfInv, Blocks

(* One block: its children lie ahead of the cursor, so a block behind it   *)
(* cannot become a target any more.                                        *)
LEMMA BpfBlock ==
  ASSUME TypeInv, GraphInv, BpfInv, GenBlock
  PROVE  BpfInv'
<1>1. /\ pc = "bpf" /\ pc' = "bpf" /\ cur \in Blocks /\ cur' = cur + 1
      /\ 1 \notin ptrace_only_blocks
      /\ UNCHANGED <<cfgVars, ptrace_blocks, ptrace_only_blocks>>
  BY DEF GenBlock, TypeInv, TypeData, Blocks
<1>2. \A b \in Blocks : Generated(b) <=> b < cur
  BY <1>1 DEF Generated
<1>3. \A b \in Blocks : Generated(b)' <=> (b < cur \/ b = cur)
  BY <1>1 DEF Generated, Blocks
<1>4. \A e \in Edges : e[1] \in Blocks /\ e[3] \in Blocks /\ e[1] < e[3]
  BY EdgeOrder DEF TypeInv, GraphInv
<1>5. Edges' = Edges
  BY <1>1, Static
<1>6. \A b \in Blocks : b # cur => BPF_IR'[b] = BPF_IR[b]
  BY DEF GenBlock, EmitCode, SkipSpecialCase, EmitHandover, SkipInner, EmitTrace, TypeInv, TypeData
<1>7. BPF_IR[cur] = "none"
  BY <1>1, <1>2 DEF BpfInv, Blocks
<1>8. EmitCode(cur) \/ SkipSpecialCase(cur) \/ EmitHandover(cur) \/ SkipInner(cur)
  BY DEF GenBlock
<1>9. unsupported => unsupported'
  BY <1>8 DEF EmitCode, SkipSpecialCase, EmitHandover, SkipInner
<1>10. /\ ptrace_targets \subseteq ptrace_targets'
       /\ ptrace_targets' \subseteq ptrace_only_blocks
       /\ \A b \in ptrace_targets' : b \in ptrace_targets \/ (cur \notin ptrace_only_blocks /\ b \in Children(cur))
  BY <1>8 DEF EmitCode, SkipSpecialCase, EmitHandover, SkipInner, BpfInv
<1>11. \A b \in Children(cur) : b \in Blocks /\ cur < b
  BY <1>4 DEF Children
<1>12. /\ cur \notin ptrace_only_blocks => BPF_IR'[cur] = "code"
       /\ cur \in ptrace_only_blocks => BPF_IR'[cur] # "code"
       /\ BPF_IR'[cur] = "trace" => cur \in ptrace_only_blocks
       /\ cur \in ptrace_only_blocks /\ ptrace_blocks[cur] # 1 => unsupported'
       /\ cur \in ptrace_targets /\ ptrace_blocks[cur] = 1 => BPF_IR'[cur] = "trace"
  <2>0. cur \in ptrace_targets => cur \in ptrace_only_blocks
    BY DEF BpfInv
  <2>1. CASE EmitCode(cur)
    BY <1>1, <2>0, <2>1 DEF EmitCode, TypeInv, TypeData
  <2>2. CASE SkipSpecialCase(cur)
    BY <1>1, <1>7, <2>2 DEF SkipSpecialCase
  <2>3. CASE EmitHandover(cur)
    BY <1>1, <2>3 DEF EmitHandover, EmitTrace, TypeInv, TypeData
  <2>4. CASE SkipInner(cur)
    BY <1>1, <1>7, <2>4 DEF SkipInner
  <2> QED BY <1>8, <2>1, <2>2, <2>3, <2>4
<1>13. cur \in ptrace_targets' => cur \in ptrace_targets
  BY <1>1, <1>10, <1>11 DEF Blocks
<1>14. ASSUME NEW b \in Blocks, Generated(b)'
       PROVE  /\ b \notin ptrace_only_blocks => BPF_IR'[b] = "code"
              /\ b \in ptrace_only_blocks /\ ptrace_blocks[b] # 1 => unsupported'
              /\ b \in ptrace_targets' /\ ptrace_blocks[b] = 1 => BPF_IR'[b] = "trace"
  <2>1. CASE b = cur
    BY <1>12, <1>13, <2>1
  <2>2. CASE b # cur
    <3>1. b < cur /\ Generated(b)
      BY <1>2, <1>3, <1>14, <2>2
    <3>2. b \in ptrace_targets' => b \in ptrace_targets
      BY <1>1, <1>10, <1>11, <3>1 DEF Blocks
    <3> QED BY <1>1, <1>6, <1>9, <2>2, <3>1, <3>2 DEF BpfInv
  <2> QED BY <2>1, <2>2
<1>15. ASSUME NEW b \in Blocks
       PROVE  /\ ~Generated(b)' => BPF_IR'[b] = "none"
              /\ BPF_IR'[b] = "code" => b \notin ptrace_only_blocks
              /\ BPF_IR'[b] = "trace" => b \in ptrace_only_blocks
  BY <1>2, <1>3, <1>6, <1>12 DEF BpfInv
<1>16. ASSUME NEW e \in Edges, BPF_IR'[e[1]] = "code", e[3] \in ptrace_only_blocks
       PROVE  e[3] \in ptrace_targets'
  <2>1. CASE e[1] = cur
    <3>1. EmitCode(cur)
      BY <1>8, <1>12, <1>16, <2>1 DEF SkipSpecialCase, EmitHandover, SkipInner
    <3>2. e[3] \in Children(cur)
      BY <2>1 DEF Children
    <3> QED BY <1>16, <3>1, <3>2 DEF EmitCode
  <2>2. CASE e[1] # cur
    BY <1>4, <1>6, <1>10, <1>16, <2>2 DEF BpfInv
  <2> QED BY <2>1, <2>2
<1> QED BY <1>1, <1>5, <1>10, <1>14, <1>15, <1>16 DEF BpfInv, Blocks

(* The corner case: nothing but a trace return for the root.               *)
LEMMA BpfRoot ==
  ASSUME TypeInv, GraphInv, BpfInv, TraceWholeCheck
  PROVE  BpfInv'
<1>1. /\ pc = "bpf" /\ pc' = "lift" /\ cur = 1 /\ 1 \in Blocks
      /\ 1 \in ptrace_only_blocks
      /\ UNCHANGED <<cfgVars, ptrace_blocks, ptrace_only_blocks, ptrace_targets>>
      /\ BPF_IR' = [BPF_IR EXCEPT ![1] = "trace"]
  BY NBlocksAssumption DEF TraceWholeCheck, EmitTrace, Blocks
<1>2. \A b \in Blocks : BPF_IR[b] = "none"
  BY <1>1 DEF BpfInv, Generated, Blocks
<1>3. \A b \in Blocks : BPF_IR'[b] = IF b = 1 THEN "trace" ELSE "none"
  BY <1>1, <1>2 DEF TypeInv, TypeData
<1>4. \A e \in Edges' : e[1] \in Blocks
  BY <1>1, Static, EdgeOrder DEF TypeInv, GraphInv
<1>5. \A b \in Blocks : Generated(b)'
  BY <1>1 DEF Generated
<1> QED BY <1>1, <1>3, <1>4, <1>5 DEF BpfInv, Blocks

(* Each block that GenBPFIR goes through keeps its children known.         *)
LEMMA BpfStep ==
  ASSUME TypeInv, GraphInv, BpfInv, [Next]_vars
  PROVE  BpfInv'
<1>1. CASE ColorBlock \/ CollectCandidates \/ VisitCandidate \/ EndRound
  BY <1>1, BpfNotYet
<1>2. CASE TraceWholeCheck
  BY <1>2, BpfRoot
<1>3. CASE GenBlock
  BY <1>3, BpfBlock
<1>4. CASE EndBPF \/ LiftBlock \/ EndLift \/ UNCHANGED vars
  <2>0. unsupported => unsupported'
    BY <1>4, Zenon DEF EndBPF, LiftBlock, EndLift, vars
  <2>1. UNCHANGED <<cfgVars, BPF_IR, ptrace_targets, ptrace_only_blocks, ptrace_blocks>>
    BY <1>4 DEF EndBPF, LiftBlock, EndLift, vars, cfgVars
  <2>2. \A b \in Blocks : Generated(b)' <=> Generated(b)
    BY <1>4, NBlocksAssumption
    DEF EndBPF, LiftBlock, EndLift, vars, Generated, Blocks
  <2>3. Edges' = Edges
    BY <2>1, Static
  <2> QED BY <2>0, <2>1, <2>2, <2>3 DEF BpfInv, Blocks
<1> QED BY <1>1, <1>2, <1>3, <1>4 DEF Next

(* A trace return gets a datum of its own.                                 *)
LEMMA DataEmit ==
  ASSUME TypeInv, DataInv, NEW b \in Blocks, BPF_IR[b] = "none", EmitTrace(b)
  PROVE  DataInv'
<1> DEFINE n == Len(ret_data_to_label)
<1>1. /\ ret_data_to_label \in Seq(Blocks) /\ BPF_IR \in [Blocks -> {"none", "code", "trace"}]
      /\ n \in Nat
  BY DEF TypeInv, TypeData
<1>2. /\ ret_data_to_label' = Append(ret_data_to_label, b)
      /\ BPF_IR' = [BPF_IR EXCEPT ![b] = "trace"]
  BY DEF EmitTrace
<1>3. /\ DOMAIN ret_data_to_label = 1..n
      /\ DOMAIN ret_data_to_label' = 1..(n + 1)
      /\ \A i \in 1..n : ret_data_to_label'[i] = ret_data_to_label[i] /\ ret_data_to_label[i] \in Blocks
      /\ ret_data_to_label'[n + 1] = b
  BY <1>1, <1>2
<1>4. \A i \in 1..n : ret_data_to_label[i] # b
  BY <1>3 DEF DataInv
<1>5. \A i \in 1..(n + 1) : i \in 1..n \/ i = n + 1
  BY <1>1
<1>6. \A c \in Blocks : BPF_IR'[c] = IF c = b THEN "trace" ELSE BPF_IR[c]
  BY <1>1, <1>2
<1>7. \A i \in DOMAIN ret_data_to_label' : BPF_IR'[ret_data_to_label'[i]] = "trace"
  BY <1>3, <1>5, <1>6 DEF DataInv
<1>8. \A c \in Blocks : BPF_IR'[c] = "trace" =>
        \E i \in DOMAIN ret_data_to_label' : ret_data_to_label'[i] = c
  <2>1. n + 1 \in 1..(n + 1) /\ \A i \in 1..n : i \in 1..(n + 1)
    BY <1>1
  <2> QED BY <1>3, <1>6, <2>1 DEF DataInv
<1>9. \A i, k \in DOMAIN ret_data_to_label' :
        ret_data_to_label'[i] = ret_data_to_label'[k] => i = k
  BY <1>3, <1>4, <1>5 DEF DataInv
<1> QED BY <1>7, <1>8, <1>9 DEF DataInv, Blocks

(* Each datum handed out is new and leads to the block it stands for.      *)
LEMMA DataStepInv ==
  ASSUME TypeInv, BpfInv, DataInv, [Next]_vars
  PROVE  DataInv'
<1>1. CASE TraceWholeCheck
  <2>1. 1 \in Blocks /\ EmitTrace(1) /\ ~Generated(1)
    BY <1>1, NBlocksAssumption DEF TraceWholeCheck, Blocks, Generated
  <2> QED BY <2>1, DataEmit DEF BpfInv
<1>2. CASE GenBlock /\ EmitHandover(cur)
  <2>1. cur \in Blocks /\ EmitTrace(cur) /\ ~Generated(cur)
    BY <1>2 DEF GenBlock, EmitHandover, Generated, TypeInv, TypeData, Blocks
  <2> QED BY <2>1, DataEmit DEF BpfInv
<1>3. CASE GenBlock /\ EmitCode(cur)
  <2>1. /\ cur \in Blocks /\ ~Generated(cur)
        /\ ret_data_to_label' = ret_data_to_label
        /\ BPF_IR' = [BPF_IR EXCEPT ![cur] = "code"]
    BY <1>3 DEF GenBlock, EmitCode, Generated, TypeInv, TypeData, Blocks
  <2>2. BPF_IR[cur] = "none"
    BY <2>1 DEF BpfInv
  <2>3. \A b \in Blocks : BPF_IR'[b] = "trace" <=> BPF_IR[b] = "trace"
    BY <2>1, <2>2 DEF TypeInv, TypeData
  <2>4. \A i \in DOMAIN ret_data_to_label : ret_data_to_label[i] \in Blocks
    BY DEF TypeInv, TypeData
  <2> QED BY <2>1, <2>3, <2>4 DEF DataInv, Blocks
<1>4. CASE \/ ColorBlock \/ CollectCandidates \/ VisitCandidate \/ EndRound
           \/ GenBlock /\ (SkipSpecialCase(cur) \/ SkipInner(cur))
           \/ EndBPF \/ LiftBlock \/ EndLift \/ UNCHANGED vars
  <2>1. BPF_IR' = BPF_IR /\ ret_data_to_label' = ret_data_to_label
    BY <1>4 DEF ColorBlock, CollectCandidates, VisitCandidate, EndRound, SkipSpecialCase,
                SkipInner, EndBPF, LiftBlock, EndLift, vars
  <2> QED BY <2>1 DEF DataInv, Blocks
<1>5. GenBlock => EmitCode(cur) \/ SkipSpecialCase(cur) \/ EmitHandover(cur) \/ SkipInner(cur)
  BY DEF GenBlock
<1> QED BY <1>1, <1>2, <1>3, <1>4, <1>5 DEF Next

-----------------------------------------------------------------------------
(* GenPtraceCode *)

LEMMA LiftInit == Init => LiftInv
BY DEF Init, LiftInv, Visited

(* One block: it is lifted or reported, and if the root belongs to the     *)
(* tracer so does this block, because all its parents do.                  *)
LEMMA LiftOne ==
  ASSUME TypeInv, GraphInv, ColorInv, RootInv, OnlyInv, LiftInv, LiftBlock
  PROVE  LiftInv'
<1>1. /\ pc = "lift" /\ pc' = "lift" /\ cur \in Blocks /\ cur' = cur + 1
      /\ UNCHANGED <<cfgVars, ptrace_blocks, ptrace_only_blocks>>
      /\ lifted' = IF ptrace_blocks[cur] = 1 THEN lifted \cup {cur} ELSE lifted
  BY DEF LiftBlock, TypeInv, TypeData, Blocks
<1>2. /\ unsupported => unsupported'
      /\ ptrace_blocks[cur] > 1 => unsupported'
  BY DEF LiftBlock
<1>3. \A b \in Blocks : Visited(b) <=> b < cur
  BY <1>1 DEF Visited
<1>4. \A b \in Blocks : Visited(b)' <=> (b < cur \/ b = cur)
  BY <1>1 DEF Visited, Blocks
<1>5. ASSUME 1 \in ptrace_only_blocks
      PROVE  cur \in ptrace_only_blocks
  <2>1. IsPtrace(1) /\ 1 \in Blocks
    BY <1>5, NBlocksAssumption DEF OnlyInv, PtraceBlocks, Blocks
  <2>2. \A p \in Parents(1) : FALSE
    BY <2>1, ParentsEarlier DEF TypeInv, GraphInv, Blocks
  <2>3. need[1] # 0
    BY <1>1, <2>1, <2>2 DEF ColorInv
  <2>4. IsPtrace(cur)
    BY <1>1, <2>3 DEF RootInv
  <2>5. Parents(cur) \subseteq ptrace_only_blocks
    BY <1>1, <1>3, <1>5, ParentsEarlier DEF LiftInv, TypeInv, GraphInv
  <2> QED BY <1>1, <2>4, <2>5 DEF OnlyInv, After, IsDominanceSet
<1>6. ASSUME NEW b \in Blocks, Visited(b)'
      PROVE  /\ ptrace_blocks[b] = 1 => b \in lifted'
             /\ ptrace_blocks[b] > 1 => unsupported'
             /\ 1 \in ptrace_only_blocks => b \in ptrace_only_blocks
  BY <1>1, <1>2, <1>3, <1>4, <1>5, <1>6 DEF LiftInv
<1>7. \A b \in lifted' : ptrace_blocks[b] = 1
  BY <1>1 DEF LiftInv
<1> QED BY <1>1, <1>6, <1>7 DEF LiftInv, Blocks

(* Each block lifted keeps the lifted code closed under control flow.      *)
LEMMA LiftStep ==
  ASSUME TypeInv, GraphInv, ColorInv, RootInv, OnlyInv, LiftInv, [Next]_vars
  PROVE  LiftInv'
<1>1. CASE ColorBlock \/ CollectCandidates \/ VisitCandidate \/ EndRound \/ TraceWholeCheck \/ GenBlock \/ EndBPF
  <2>1. /\ pc # "lift" /\ pc # "done" /\ lifted' = lifted
        /\ pc' # "done" /\ (pc' = "lift" => cur' = 1)
    BY <1>1 DEF ColorBlock, CollectCandidates, VisitCandidate, EndRound, TraceWholeCheck, GenBlock, EndBPF
  <2>2. \A b \in Blocks : ~Visited(b)'
    BY <2>1 DEF Visited, Blocks
  <2>3. lifted' = {}
    BY <2>1 DEF LiftInv
  <2> QED BY <2>2, <2>3 DEF LiftInv, Blocks
<1>2. CASE LiftBlock
  BY <1>2, LiftOne
<1>3. CASE EndLift
  <2>1. /\ pc = "lift" /\ cur = NBlocks + 1 /\ pc' = "done"
        /\ UNCHANGED <<ptrace_blocks, ptrace_only_blocks, lifted, unsupported>>
    BY <1>3 DEF EndLift
  <2>2. \A b \in Blocks : Visited(b)
    BY <2>1, NBlocksAssumption DEF Visited, Blocks
  <2> QED BY <2>1, <2>2 DEF LiftInv, Blocks
<1>4. CASE UNCHANGED vars
  BY <1>4 DEF vars, LiftInv, Visited, Blocks
<1> QED BY <1>1, <1>2, <1>3, <1>4 DEF Next

-----------------------------------------------------------------------------
IInv == TypeInv /\ GraphInv /\ ColorInv /\ RootInv /\ OnlyInv /\ BpfInv /\ DataInv /\ LiftInv

(* The conjunction is inductive: it holds initially and every iteration of *)
(* every pass preserves it.                                                *)
THEOREM InductiveInvariant == Spec => []IInv
<1>1. Init => IInv
  BY InitType, ColorInit, OnlyInit, BpfInit, LiftInit DEF IInv
<1>2. IInv /\ [Next]_vars => IInv'
  <2> SUFFICES ASSUME IInv, [Next]_vars PROVE IInv'
    OBVIOUS
  <2>1. TypeInv' /\ GraphInv'
    BY FlagsStep, DataStep, GraphStep DEF IInv, TypeInv
  <2>2. ColorInv' /\ RootInv' /\ OnlyInv'
    BY ColorStep, OnlyStep DEF IInv
  <2>3. BpfInv' /\ DataInv' /\ LiftInv'
    BY BpfStep, DataStepInv, LiftStep DEF IInv
  <2> QED BY <2>1, <2>2, <2>3 DEF IInv
<1> QED BY <1>1, <1>2, PTL DEF Spec

(* The early return of GenBPFIR drops nothing: for every graph, a root     *)
(* that belongs to the tracer takes all the blocks with it.                *)
LEMMA CornerCaseHolds == IInv => CornerCase
BY DEF IInv, LiftInv, Visited, CornerCase, TypeInv, TypeData

(* The same of every state the passes reach.                               *)
THEOREM CornerCaseCorrect == Spec => []CornerCase
BY CornerCaseHolds, InductiveInvariant, PTL

(* The filter never jumps or runs into a block that is not in it, for      *)
(* every graph on which no pass met a case it does not support.            *)
THEOREM NoDanglingJumpCorrect == Spec => []NoDanglingJump
<1>1. IInv => NoDanglingJump
  <2> SUFFICES ASSUME IInv, pc = "done", ~unsupported, NEW e \in Edges, BPF_IR[e[1]] = "code"
               PROVE  BPF_IR[e[3]] # "none"
    BY CornerCaseHolds DEF NoDanglingJump
  <2>1. e[1] \in Blocks /\ e[3] \in Blocks
    BY EdgeOrder DEF IInv, TypeInv, GraphInv
  <2>2. 1 \notin ptrace_only_blocks /\ Generated(e[3])
    BY <2>1 DEF IInv, BpfInv, Generated
  <2>3. CASE e[3] \notin ptrace_only_blocks
    BY <2>1, <2>2, <2>3 DEF IInv, BpfInv
  <2>4. CASE e[3] \in ptrace_only_blocks
    BY <2>1, <2>2, <2>4 DEF IInv, BpfInv
  <2> QED BY <2>3, <2>4
<1> QED BY <1>1, InductiveInvariant, PTL

(* Every trace return reaches tracer code through a datum of its own, and  *)
(* the tracer has the code of everything that can follow, for every graph  *)
(* on which no pass met a case it does not support.                        *)
THEOREM HandoversResolvedCorrect == Spec => []HandoversResolved
<1>1. IInv => HandoversResolved
  <2> SUFFICES ASSUME IInv, pc = "done", ~unsupported PROVE HandoversResolved
    BY DEF HandoversResolved
  <2>1. ASSUME NEW b \in Blocks, IsPtrace(b)
        PROVE  b \in lifted
    BY <2>1 DEF IInv, LiftInv, Visited, IsPtrace, TypeInv, TypeData
  <2>2. {ret_data_to_label[i] : i \in DOMAIN ret_data_to_label} = {b \in Blocks : BPF_IR[b] = "trace"}
    <3>1. \A i \in DOMAIN ret_data_to_label : ret_data_to_label[i] \in Blocks
      BY DEF IInv, TypeInv, TypeData
    <3> QED BY <3>1 DEF IInv, DataInv
  <2>3. \A i, j \in DOMAIN ret_data_to_label :
          ret_data_to_label[i] = ret_data_to_label[j] => i = j
    BY DEF IInv, DataInv
  <2>4. \A b \in Blocks : BPF_IR[b] = "trace" => b \in lifted
    BY <2>1 DEF IInv, BpfInv, OnlyInv, PtraceBlocks
  <2>5. ASSUME NEW e \in Edges, e[1] \in lifted
        PROVE  e[3] \in lifted
    <3>1. e[1] \in Blocks /\ e[3] \in Blocks /\ e[1] \in Parents(e[3])
      BY EdgeOrder DEF IInv, TypeInv, GraphInv, Parents, InEdges
    <3>2. IsPtrace(e[1])
      BY <2>5 DEF IInv, LiftInv, IsPtrace
    <3>3. IsPtrace(e[3])
      BY <3>1, <3>2 DEF IInv, ColorInv
    <3> QED BY <2>1, <3>1, <3>3
  <2> QED BY <2>2, <2>3, <2>4, <2>5 DEF HandoversResolved
<1> QED BY <1>1, InductiveInvariant, PTL

(* A block with one way in that calls a helper or stores to an argument is *)
(* never part of the filter, for every graph.                              *)
THEOREM SingleEntryEffectsTracedCorrect == Spec => []SingleEntryEffectsTraced
<1>1. IInv => SingleEntryEffectsTraced
  <2> SUFFICES ASSUME IInv, pc = "done", NEW b \in Blocks, need[b] # 0, AtMostOneParent(b)
               PROVE  BPF_IR[b] # "code"
    BY DEF SingleEntryEffectsTraced
  <2>1. IsPtrace(b)
    BY DEF IInv, ColorInv
  <2>2. b \in ptrace_only_blocks
    BY <2>1 DEF IInv, OnlyInv, After, IsDominanceSet
  <2> QED BY <2>2 DEF IInv, BpfInv
<1> QED BY <1>1, InductiveInvariant, PTL
=============================================================================

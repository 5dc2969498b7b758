------------------------------ MODULE Partition ------------------------------
(***************************************************************************)
(* How one system-call check is split between the seccomp filter and the   *)
(* ptrace tracer (code_gen.cpp, driven by SyscallCheck::CodeGen).          *)
(*                                                                         *)
(* The input is the control-flow graph IR_gen.cpp builds for the check:    *)
(* basic blocks in program order, numbered 1..NBlocks, of which the        *)
(* module needs only how each block ends and where in it the first         *)
(* instruction stands that the filter cannot run (a helper call or a store *)
(* to an argument).  Both are chosen in Init and never change.             *)
(*                                                                         *)
(* The passes run one after the other, one loop iteration per step:        *)
(*   color - ColorCode: which blocks the tracer must be able to run;       *)
(*   only  - GetPtraceOnlyBB: which of them the filter never runs;         *)
(*   bpf   - GenBPFIR: what the filter holds for every block;              *)
(*   lift  - GenPtraceCode: which blocks become tracer code.               *)
(***************************************************************************)
EXTENDS Naturals, FiniteSets, Sequences

CONSTANTS
  NBlocks,   \* number of basic blocks in the graph; block 1 is the root
  MaxPos     \* instructions told apart in a block: position 1 is FirstInst()

ASSUME NBlocksAssumption == NBlocks \in Nat \ {0}
ASSUME MaxPosAssumption == MaxPos \in Nat \ {0}

VARIABLES
  term,                \* how each basic block ends
  need,                \* position of the first instruction needing ptrace, 0 if none
  pc,                  \* the pass being run
  cur,                 \* position of the pass's loop over the graph
  ptrace_blocks,       \* map from block to its first ptrace position; 0 = no entry
  candidates,          \* the keys of ptrace_blocks in hash order
  changed,             \* flag of the do-while loop of GetPtraceOnlyBB
  ptrace_only_blocks,  \* blocks the filter never runs
  ptrace_targets,      \* ptrace-only blocks a filter block leads to
  BPF_IR,              \* what the filter holds for a block: nothing, code or a trace
  ret_data_to_label,   \* blocks in the order their return data were handed out
  lifted,              \* blocks translated to tracer code
  unsupported          \* a pass met a case it only reports

cfgVars == <<term, need>>
vars == <<term, need, pc, cur, ptrace_blocks, candidates, changed,
          ptrace_only_blocks, ptrace_targets, BPF_IR, ret_data_to_label,
          lifted, unsupported>>

Blocks == 1..NBlocks

-----------------------------------------------------------------------------
(* The graph *)

(* A block returns, runs into the next block, or ends in a conditional     *)
(* branch; unconditional jumps do not survive EliminateDeadCode.           *)
Terminator ==
  [kind : {"ret", "fall"}, t : {0}, f : {0}]
    \cup [kind : {"branch"}, t : Blocks, f : Blocks]

(* One edge per AddChild call; a branch whose two targets were merged into *)
(* one label makes two edges to the same block.                            *)
Edges ==
  {<<b, "fall", b + 1>> : b \in {x \in Blocks : term[x].kind = "fall" /\ x < NBlocks}}
    \cup {<<b, "true", term[b].t>> : b \in {x \in Blocks : term[x].kind = "branch"}}
    \cup {<<b, "false", term[b].f>> : b \in {x \in Blocks : term[x].kind = "branch"}}

InEdges(b) == {e \in Edges : e[3] = b}

Parents(b) == {e[1] : e \in InEdges(b)}

Children(b) == {e[3] : e \in {x \in Edges : x[1] = b}}

(* bb->GetParents().size() <= 1; the vector holds one entry per edge.      *)
AtMostOneParent(b) == \A d, e \in InEdges(b) : d = e

(* Branch targets are labels further down the code.                        *)
Forward == \A b \in Blocks : term[b].kind = "branch" => term[b].t > b /\ term[b].f > b

(* EliminateDeadCode leaves no block without a way in, except the root.    *)
Entered == \A b \in Blocks \ {1} : InEdges(b) # {}

-----------------------------------------------------------------------------
Init ==
  /\ term \in [Blocks -> Terminator]
  /\ Forward
  /\ Entered
  /\ need \in [Blocks -> 0..MaxPos]
  /\ pc = "color"
  /\ cur = 1
  /\ ptrace_blocks = [b \in Blocks |-> 0]
  /\ candidates = <<>>
  /\ changed = FALSE
  /\ ptrace_only_blocks = {}
  /\ ptrace_targets = {}
  /\ BPF_IR = [b \in Blocks |-> "none"]
  /\ ret_data_to_label = <<>>
  /\ lifted = {}
  /\ unsupported = FALSE

IsPtrace(b) == ptrace_blocks[b] # 0
PtraceBlocks == {b \in Blocks : IsPtrace(b)}

(* Mutant: only the block's own instructions are looked at.                *)
ColorBlockAlone ==
  /\ pc = "color"
  /\ cur <= NBlocks
  /\ ptrace_blocks' = [ptrace_blocks EXCEPT ![cur] = need[cur]]
  /\ cur' = cur + 1
  /\ UNCHANGED <<cfgVars, pc, candidates, changed, ptrace_only_blocks,
                 ptrace_targets, BPF_IR, ret_data_to_label, lifted, unsupported>>

(* One iteration of the loop of ColorCode: a block below a ptrace block is *)
(* one from its first instruction on, any other from the first instruction *)
(* that requires ptrace.                                                   *)
ColorBlock ==
  /\ pc = "color"
  /\ cur <= NBlocks
  /\ ptrace_blocks' =
       [ptrace_blocks EXCEPT ![cur] =
          IF \E p \in Parents(cur) : IsPtrace(p) THEN 1 ELSE need[cur]]
  /\ cur' = cur + 1
  /\ UNCHANGED <<cfgVars, pc, candidates, changed, ptrace_only_blocks,
                 ptrace_targets, BPF_IR, ret_data_to_label, lifted, unsupported>>

(* The orders in which a hash map may list its keys.                       *)
Orders(S) ==
  {q \in [1..Cardinality(S) -> S] : \A b \in S : \E i \in 1..Cardinality(S) : q[i] = b}

(* GetPtraceOnlyBB is called and copies the keys of ptrace_blocks, which   *)
(* come in the order of a hash of their addresses.                         *)
CollectCandidates ==
  /\ pc = "color"
  /\ cur = NBlocks + 1
  /\ candidates' \in Orders(PtraceBlocks)
  /\ pc' = "only"
  /\ cur' = 1
  /\ changed' = FALSE
  /\ UNCHANGED <<cfgVars, ptrace_blocks, ptrace_only_blocks, ptrace_targets,
                 BPF_IR, ret_data_to_label, lifted, unsupported>>

(* Mutant: without the second test, "is this BB dominated by itself?".    *)
DominatedByParents(b) == Parents(b) \subseteq ptrace_only_blocks

(* All parents already belong to the tracer, or there is a single parent.  *)
Dominated(b) == Parents(b) \subseteq ptrace_only_blocks \/ AtMostOneParent(b)

(* One iteration of the inner loop of GetPtraceOnlyBB.                     *)
VisitCandidate ==
  /\ pc = "only"
  /\ cur \in DOMAIN candidates
  /\ LET b == candidates[cur]
         add == b \notin ptrace_only_blocks /\ Dominated(b)
     IN  /\ ptrace_only_blocks' = IF add THEN ptrace_only_blocks \cup {b} ELSE ptrace_only_blocks
         /\ changed' = (changed \/ add)
  /\ cur' = cur + 1
  /\ UNCHANGED <<cfgVars, pc, ptrace_blocks, candidates, ptrace_targets,
                 BPF_IR, ret_data_to_label, lifted, unsupported>>

(* Mutants: a single round; a flag that is not cleared for the next round. *)
EndOnlyRound ==
  /\ pc = "only"
  /\ cur \notin DOMAIN candidates
  /\ pc' = "bpf"
  /\ cur' = 1
  /\ changed' = FALSE
  /\ UNCHANGED <<cfgVars, ptrace_blocks, candidates, ptrace_only_blocks,
                 ptrace_targets, BPF_IR, ret_data_to_label, lifted, unsupported>>

EndRoundStale ==
  /\ pc = "only"
  /\ cur \notin DOMAIN candidates
  /\ pc' = IF changed THEN "only" ELSE "bpf"
  /\ cur' = 1
  /\ UNCHANGED <<cfgVars, changed, ptrace_blocks, candidates, ptrace_only_blocks,
                 ptrace_targets, BPF_IR, ret_data_to_label, lifted, unsupported>>

(* The end of a round: another one if it added a block, else GenBPFIR.     *)
EndRound ==
  /\ pc = "only"
  /\ cur \notin DOMAIN candidates
  /\ pc' = IF changed THEN "only" ELSE "bpf"
  /\ cur' = 1
  /\ changed' = FALSE
  /\ UNCHANGED <<cfgVars, ptrace_blocks, candidates, ptrace_only_blocks,
                 ptrace_targets, BPF_IR, ret_data_to_label, lifted, unsupported>>

-----------------------------------------------------------------------------
(* GenBPFIR *)

(* Mutant: the return is emitted but its datum is not recorded.            *)
EmitUnrecordedTrace(b) ==
  /\ BPF_IR' = [BPF_IR EXCEPT ![b] = "trace"]
  /\ UNCHANGED ret_data_to_label

(* The label of b and a return that hands the call over to the tracer.     *)
EmitTrace(b) ==
  /\ BPF_IR' = [BPF_IR EXCEPT ![b] = "trace"]
  /\ ret_data_to_label' = Append(ret_data_to_label, b)

(* The root belongs to the tracer: the filter is a single trace return.    *)
TraceWholeCheck ==
  /\ pc = "bpf"
  /\ cur = 1
  /\ 1 \in ptrace_only_blocks
  /\ EmitTrace(1)
  /\ pc' = "lift"
  /\ UNCHANGED <<cfgVars, cur, ptrace_blocks, candidates, changed,
                 ptrace_only_blocks, ptrace_targets, lifted, unsupported>>

(* Mutant: the children are not looked at.                                 *)
EmitCodeOnly(b) ==
  /\ b \notin ptrace_only_blocks
  /\ BPF_IR' = [BPF_IR EXCEPT ![b] = "code"]
  /\ UNCHANGED <<ptrace_targets, ret_data_to_label, unsupported>>

(* A block the filter runs: its code, and its ptrace-only children become  *)
(* targets.                                                                *)
EmitCode(b) ==
  /\ b \notin ptrace_only_blocks
  /\ BPF_IR' = [BPF_IR EXCEPT ![b] = "code"]
  /\ ptrace_targets' = ptrace_targets \cup (Children(b) \cap ptrace_only_blocks)
  /\ UNCHANGED <<ret_data_to_label, unsupported>>

(* The transition point is inside the block: the case is only printed.     *)
SkipSpecialCase(b) ==
  /\ b \in ptrace_only_blocks
  /\ ptrace_blocks[b] # 1
  /\ unsupported' = TRUE
  /\ UNCHANGED <<BPF_IR, ptrace_targets, ret_data_to_label>>

EmitHandover(b) ==
  /\ b \in ptrace_only_blocks
  /\ ptrace_blocks[b] = 1
  /\ b \in ptrace_targets
  /\ EmitTrace(b)
  /\ UNCHANGED <<ptrace_targets, unsupported>>

SkipInner(b) ==
  /\ b \in ptrace_only_blocks
  /\ ptrace_blocks[b] = 1
  /\ b \notin ptrace_targets
  /\ UNCHANGED <<BPF_IR, ptrace_targets, ret_data_to_label, unsupported>>

(* One iteration of the loop of GenBPFIR.                                  *)
GenBlock ==
  /\ pc = "bpf"
  /\ cur <= NBlocks
  /\ 1 \notin ptrace_only_blocks
  /\ EmitCode(cur) \/ SkipSpecialCase(cur) \/ EmitHandover(cur) \/ SkipInner(cur)
  /\ cur' = cur + 1
  /\ UNCHANGED <<cfgVars, pc, ptrace_blocks, candidates, changed,
                 ptrace_only_blocks, lifted>>

(* Mutant: the next loop starts from a zero-based index.                   *)
EndBPFAtZero ==
  /\ pc = "bpf"
  /\ cur = NBlocks + 1
  /\ pc' = "lift"
  /\ cur' = 0
  /\ UNCHANGED <<cfgVars, ptrace_blocks, candidates, changed, ptrace_only_blocks,
                 ptrace_targets, BPF_IR, ret_data_to_label, lifted, unsupported>>

EndBPF ==
  /\ pc = "bpf"
  /\ cur = NBlocks + 1
  /\ pc' = "lift"
  /\ cur' = 1
  /\ UNCHANGED <<cfgVars, ptrace_blocks, candidates, changed, ptrace_only_blocks,
                 ptrace_targets, BPF_IR, ret_data_to_label, lifted, unsupported>>

-----------------------------------------------------------------------------
(* One iteration of the loop of GenPtraceCode; a ptrace block whose        *)
(* transition point is inside it is reported and left out.                 *)
LiftBlock ==
  /\ pc = "lift"
  /\ cur <= NBlocks
  /\ lifted' = IF ptrace_blocks[cur] = 1 THEN lifted \cup {cur} ELSE lifted
  /\ unsupported' = (unsupported \/ ptrace_blocks[cur] > 1)
  /\ cur' = cur + 1
  /\ UNCHANGED <<cfgVars, pc, ptrace_blocks, candidates, changed,
                 ptrace_only_blocks, ptrace_targets, BPF_IR, ret_data_to_label>>

EndLift ==
  /\ pc = "lift"
  /\ cur = NBlocks + 1
  /\ pc' = "done"
  /\ UNCHANGED <<cfgVars, cur, ptrace_blocks, candidates, changed, ptrace_only_blocks,
                 ptrace_targets, BPF_IR, ret_data_to_label, lifted, unsupported>>

Next ==
  \/ ColorBlock
  \/ CollectCandidates
  \/ VisitCandidate
  \/ EndRound
  \/ TraceWholeCheck
  \/ GenBlock
  \/ EndBPF
  \/ LiftBlock
  \/ EndLift

Spec == Init /\ [][Next]_vars

(* The compiler is one sequential process and takes every step it can.     *)
FairSpec == Spec /\ WF_vars(Next)

-----------------------------------------------------------------------------
(* Properties *)

TypeOK ==
  /\ term \in [Blocks -> Terminator]
  /\ need \in [Blocks -> 0..MaxPos]
  /\ pc \in {"color", "only", "bpf", "lift", "done"}
  /\ cur \in 1..(NBlocks + 1)
  /\ ptrace_blocks \in [Blocks -> 0..MaxPos]
  /\ candidates \in Seq(Blocks)
  /\ changed \in BOOLEAN
  /\ ptrace_only_blocks \subseteq Blocks
  /\ ptrace_targets \subseteq Blocks
  /\ BPF_IR \in [Blocks -> {"none", "code", "trace"}]
  /\ ret_data_to_label \in Seq(Blocks)
  /\ lifted \subseteq Blocks
  /\ unsupported \in BOOLEAN

(* Once a call has been handed over to the tracer it never has to go back: *)
(* the blocks marked for ptrace are exactly those that contain such an     *)
(* instruction or are entered from a marked block.  ColorCode visits every *)
(* block once and would miss a mark made later, so this rests on the       *)
(* program order of the graph.                                             *)
TracerClosed ==
  pc # "color" =>
    \A b \in Blocks : IsPtrace(b) <=> (need[b] # 0 \/ \E p \in Parents(b) : IsPtrace(p))

(* What the rounds of GetPtraceOnlyBB are meant to compute: a set that     *)
(* holds a ptrace block exactly when it is dominated with respect to the   *)
(* set itself.                                                             *)
IsDominanceSet(S) ==
  \A b \in Blocks :
    b \in S <=> IsPtrace(b) /\ (Parents(b) \subseteq S \/ AtMostOneParent(b))

(* The order of the hash map that GetPtraceOnlyBB iterates over does not   *)
(* show: its result is the least set of that kind, whatever the order was, *)
(* so two builds of the compiler split a check the same way.               *)
OrderIndependent ==
  pc \in {"bpf", "lift", "done"} =>
    /\ IsDominanceSet(ptrace_only_blocks)
    /\ \A S \in SUBSET Blocks : IsDominanceSet(S) => ptrace_only_blocks \subseteq S

(* A root that belongs to the tracer takes all the blocks with it.         *)
CornerCase ==
  pc = "done" /\ 1 \in ptrace_only_blocks => ptrace_only_blocks = Blocks

(* Unless a pass reported a case it does not support, control never leaves *)
(* a block of the filter for a block the filter holds nothing for: every   *)
(* jump of the generated filter has its label, and code that runs into the *)
(* next block finds it there.  And when GenBPFIR returns early, because    *)
(* the root belongs to the tracer, with the comment "CFG only contain      *)
(* ptrace-only BBs", no block the filter would have to run is dropped.     *)
NoDanglingJump ==
  /\ CornerCase
  /\ pc = "done" /\ ~unsupported =>
       \A e \in Edges : BPF_IR[e[1]] = "code" => BPF_IR[e[3]] # "none"

(* Unless a pass reported a case it does not support, every trace return   *)
(* of the filter has its own return datum, that datum leads to a block the *)
(* tracer has code for, and the tracer has code for everything that can    *)
(* follow it.                                                              *)
HandoversResolved ==
  pc = "done" /\ ~unsupported =>
    /\ {ret_data_to_label[i] : i \in DOMAIN ret_data_to_label} = {b \in Blocks : BPF_IR[b] = "trace"}
    /\ \A i, j \in DOMAIN ret_data_to_label :
         ret_data_to_label[i] = ret_data_to_label[j] => i = j
    /\ \A b \in Blocks : BPF_IR[b] = "trace" => b \in lifted
    /\ \A e \in Edges : e[1] \in lifted => e[3] \in lifted

(* The filter never runs through a helper call or a store of a block that  *)
(* is entered in at most one way, whatever the rest of the graph is.       *)
SingleEntryEffectsTraced ==
  pc = "done" =>
    \A b \in Blocks : need[b] # 0 /\ AtMostOneParent(b) => BPF_IR[b] # "code"

(* The passes come to an end; for GetPtraceOnlyBB, whose loop runs until a *)
(* round changes nothing, because no block is ever taken out again.        *)
Terminates == <>(pc = "done")
=============================================================================

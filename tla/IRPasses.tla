------------------------------ MODULE IRPasses -------------------------------
(***************************************************************************)
(* From the intermediate code of one system-call check to its control-flow *)
(* graph: MergeLabels, EliminateDeadCode and BuildCFG (IR_gen.cpp), in the *)
(* order of SyscallCheck::IRGen.  How the code comes from the statements   *)
(* of the check is in FrontEnd; here it is any code with labels of its own *)
(* and jumps that lead down to them.                                       *)
(*                                                                         *)
(* A conditional branch tests one atom: a comparison, or an expression     *)
(* standing for "expr != 0".  Every instruction keeps what decides where   *)
(* control goes and which effects happen; operands and destination         *)
(* registers are left out.  The passes that erase from the list are        *)
(* written as the set of positions they keep.                              *)
(***************************************************************************)
EXTENDS Naturals, FiniteSets, SequencesExt

CONSTANTS
  Atoms,     \* conditions that are one comparison
  Checks,    \* the checks compiled: sequences of statements
  IRGen(_)   \* the code generated for the statements of a check

VARIABLES
  stmts,   \* the check being compiled
  pass,    \* the next pass
  code,    \* IR_, the instruction list
  CFG      \* CFG_, the basic blocks in program order

vars == <<stmts, pass, code, CFG>>

-----------------------------------------------------------------------------
(* Instructions *)

Label(l) == [i |-> "label", label |-> l]
Branch(a, t, f) == [i |-> "branch", atom |-> a, true_target |-> t, false_target |-> f]
Jmp(t) == [i |-> "jmp", true_target |-> t]
Call(a) == [i |-> "call", callee |-> a]
Store(x) == [i |-> "store", dst |-> x]
Return(v) == [i |-> "return", value |-> v]

Instruction ==
  [i : {"label"}, label : Nat]
    \cup [i : {"branch"}, atom : Atoms, true_target : Nat, false_target : Nat]
    \cup [i : {"jmp"}, true_target : Nat]
    \cup [i : {"call"}, callee : Atoms]
    \cup [i : {"store"}, dst : STRING]
    \cup [i : {"return"}, value : STRING]

IsLabel(inst) == inst.i = "label"
IsReturn(inst) == inst.i = "return"
IsDirectJMP(inst) == inst.i = "jmp"
IsBranch(inst) == inst.i \in {"branch", "jmp"}

(* Control does not run from inst into what stands below it.               *)
EndsBlock(inst) == IsBranch(inst) \/ IsReturn(inst)

Targets(inst) ==
  CASE inst.i = "branch" -> <<inst.true_target, inst.false_target>>
    [] inst.i = "jmp" -> <<inst.true_target>>
    [] OTHER -> <<>>

LabelsOf(insts) ==
  {insts[n].label : n \in {m \in DOMAIN insts : IsLabel(insts[m])}}
    \cup UNION {ToSet(Targets(insts[n])) : n \in DOMAIN insts}

(* The label l below position n; control only ever goes down the code, and *)
(* a branch whose label is not there is stuck.                             *)
Below(insts, n, l) == {m \in DOMAIN insts : m > n /\ insts[m] = Label(l)}

(* Code as IRGen emits it.                                                 *)
LabelsOnce(insts) ==
  \A m, n \in DOMAIN insts : IsLabel(insts[m]) /\ insts[m] = insts[n] => m = n
JumpsLeadDown(insts) ==
  \A n \in DOMAIN insts : \A l \in ToSet(Targets(insts[n])) : Below(insts, n, l) # {}
LabelAfter(insts, n) == n + 1 \in DOMAIN insts /\ IsLabel(insts[n + 1])
LabelsAfterBranches(insts) == \A n \in DOMAIN insts : IsBranch(insts[n]) => LabelAfter(insts, n)

Generated(insts) ==
  /\ insts \in Seq(Instruction)
  /\ LabelsOnce(insts)
  /\ JumpsLeadDown(insts)
  /\ LabelsAfterBranches(insts)
  /\ insts # <<>> => ~IsDirectJMP(insts[1])

ASSUME ChecksAssumption == \A ss \in Checks : Generated(IRGen(ss))

-----------------------------------------------------------------------------
(* Erasing instructions *)

(* The members of P up to N, in order.                                     *)
InOrder(P, N) ==
  LET seq[n \in 0..N] ==
        IF n = 0 THEN <<>> ELSE IF n \in P THEN Append(seq[n - 1], n) ELSE seq[n - 1]
  IN  seq[N]

(* The instructions at the positions in P.                                 *)
Only(insts, P) ==
  LET kept == InOrder(P, Len(insts))
  IN  [n \in DOMAIN kept |-> insts[kept[n]]]

-----------------------------------------------------------------------------
(* MergeLabels *)

Erased(insts, n) == IsLabel(insts[n]) /\ n > 1 /\ IsLabel(insts[n - 1])

(* The label that stands for l: the first of the run of labels l is in.    *)
NewLabel(insts, l) ==
  LET at == CHOOSE n \in DOMAIN insts : insts[n] = Label(l)
      firsts == {n \in 1..at : IsLabel(insts[n]) /\ ~Erased(insts, n)}
  IN  insts[CHOOSE n \in firsts : \A m \in firsts : m <= n].label

Retarget(insts, inst) ==
  CASE inst.i = "branch" -> Branch(inst.atom, NewLabel(insts, inst.true_target),
                                   NewLabel(insts, inst.false_target))
    [] inst.i = "jmp" -> Jmp(NewLabel(insts, inst.true_target))
    [] OTHER -> inst

MergeLabels(insts) ==
  LET kept == Only(insts, {n \in DOMAIN insts : ~Erased(insts, n)})
  IN  [n \in DOMAIN kept |-> Retarget(insts, kept[n])]

-----------------------------------------------------------------------------
(* EliminateDeadCode *)

(* Mutant: labels are erased like any other instruction.                   *)
DeadLabels(prev, inst) == IsReturn(prev) \/ IsDirectJMP(inst)

(* The test of the first loop: what comes after a return, and every jump.  *)
Dead(prev, inst) == (IsReturn(prev) \/ IsDirectJMP(inst)) /\ ~IsLabel(inst)

(* One iteration of the first loop; prev is the last position kept.        *)
Keep(insts, s, n) ==
  IF s.prev # 0 /\ Dead(insts[s.prev], insts[n]) THEN s
  ELSE [kept |-> s.kept \cup {n}, prev |-> n]

DropDead(insts) ==
  LET loop[n \in 0..Len(insts)] ==
        IF n = 0 THEN [kept |-> {}, prev |-> 0] ELSE Keep(insts, loop[n - 1], n)
  IN  Only(insts, loop[Len(insts)].kept)

(* Mutant: a block no branch leads to is unreachable, whatever is above it.*)
UnreachableTarget(insts, reachable, n) == insts[n].label \notin reachable

(* No branch so far leads to the label, and nothing runs into it.  What is *)
(* above the label counts even if it was erased.                           *)
Unreachable(insts, reachable, n) ==
  /\ insts[n].label \notin reachable
  /\ n > 1
  /\ EndsBlock(insts[n - 1])

Purging(insts, s, n) ==
  IF IsLabel(insts[n]) THEN Unreachable(insts, s.reachable, n) ELSE s.purging

(* One iteration of EliminateDeadCodeImpl.                                 *)
Purge(insts, s, n) ==
  IF Purging(insts, s, n) THEN [s EXCEPT !.purging = TRUE]
  ELSE [kept |-> s.kept \cup {n}, purging |-> FALSE,
        reachable |-> s.reachable \cup ToSet(Targets(insts[n]))]

EliminateDeadCodeImpl(insts) ==
  LET loop[n \in 0..Len(insts)] ==
        IF n = 0 THEN [kept |-> {}, purging |-> FALSE, reachable |-> {}]
        ELSE Purge(insts, loop[n - 1], n)
  IN  Only(insts, loop[Len(insts)].kept)

-----------------------------------------------------------------------------
(* BuildCFG *)

(* A state of BuildCFG: the blocks so far, whether the last one is closed  *)
(* by a branch or return, and for every label the blocks that branch to it.*)
Root == [insts |-> <<>>, children |-> <<>>, parents |-> <<>>]
NewCFG(insts) ==
  [blocks |-> <<Root>>, prev_branch_or_ret |-> FALSE,
   backward |-> [l \in LabelsOf(insts) |-> <<>>]]

Times(n, x) == [k \in 1..n |-> x]
Count(s, x) == Cardinality({n \in DOMAIN s : s[n] = x})

(* A new last block, with parents in that order.                           *)
AddBlock(g, parents) ==
  LET new == Len(g.blocks) + 1
      Child(b) == [g.blocks[b] EXCEPT !.children = @ \o Times(Count(parents, b), new)]
  IN  [g EXCEPT !.blocks = Append([b \in 1..(new - 1) |-> Child(b)], [Root EXCEPT !.parents = parents]),
                !.prev_branch_or_ret = FALSE]

(* Mutant: a block is entered from the block above whatever it ends with.  *)
NewBlockAlwaysEntered(g, label) == AddBlock(g, <<Len(g.blocks)>> \o g.backward[label])

(* A label starts a block; its parents are the block above, if that can    *)
(* run into it, and the blocks whose branches wait for the label.          *)
NewBlock(g, label) ==
  AddBlock(g, (IF g.prev_branch_or_ret THEN <<>> ELSE <<Len(g.blocks)>>) \o g.backward[label])

AddInst(g, inst) ==
  LET cur == Len(g.blocks)
  IN  [g EXCEPT
         !.blocks[cur].insts = Append(@, inst),
         !.prev_branch_or_ret = EndsBlock(inst),
         !.backward = [l \in DOMAIN @ |-> @[l] \o Times(Count(Targets(inst), l), cur)]]

AddToCFG(g, inst) == IF IsLabel(inst) THEN NewBlock(g, inst.label) ELSE AddInst(g, inst)

BuildCFG(insts) ==
  LET loop[n \in 0..Len(insts)] ==
        IF n = 0 THEN NewCFG(insts) ELSE AddToCFG(loop[n - 1], insts[n])
  IN  loop[Len(insts)].blocks

-----------------------------------------------------------------------------
(* SyscallCheck::IRGen, one pass per step *)

Init ==
  /\ stmts \in Checks
  /\ pass = "IRGen"
  /\ code = <<>>
  /\ CFG = <<>>

RunIRGen ==
  /\ pass = "IRGen"
  /\ code' = IRGen(stmts)
  /\ pass' = "MergeLabels"
  /\ UNCHANGED <<stmts, CFG>>

RunMergeLabels ==
  /\ pass = "MergeLabels"
  /\ code' = MergeLabels(code)
  /\ pass' = "dead"
  /\ UNCHANGED <<stmts, CFG>>

RunDropDead ==
  /\ pass = "dead"
  /\ code' = DropDead(code)
  /\ pass' = "purge"
  /\ UNCHANGED <<stmts, CFG>>

(* while(EliminateDeadCodeImpl(code)): again if something was erased.      *)
RunPurge ==
  /\ pass = "purge"
  /\ code' = EliminateDeadCodeImpl(code)
  /\ pass' = IF code' = code THEN "CFG" ELSE "purge"
  /\ UNCHANGED <<stmts, CFG>>

RunBuildCFG ==
  /\ pass = "CFG"
  /\ CFG' = BuildCFG(code)
  /\ pass' = "done"
  /\ UNCHANGED <<stmts, code>>

Next == RunIRGen \/ RunMergeLabels \/ RunDropDead \/ RunPurge \/ RunBuildCFG

Spec == Init /\ [][Next]_vars

-----------------------------------------------------------------------------
(* What code does *)

(* For given values of the atoms: the helper calls and assignments made in *)
(* order, and the verdict reached, if any.                                 *)
Started == [effects |-> <<>>, verdict |-> "none"]

Values == [Atoms -> BOOLEAN]

Taken(inst, value) ==
  IF inst.i = "jmp" \/ value[inst.atom] THEN inst.true_target ELSE inst.false_target

(* Run[n] is what the instructions from position n on do; running past the *)
(* last one gives no verdict.                                              *)
RunFrom(insts, value, n, Run) ==
  CASE n > Len(insts) -> Started
    [] n <= Len(insts) /\ IsReturn(insts[n]) -> [Started EXCEPT !.verdict = insts[n].value]
    [] n <= Len(insts) /\ IsBranch(insts[n]) ->
         LET places == Below(insts, n, Taken(insts[n], value))
         IN  IF places = {} THEN [Started EXCEPT !.verdict = "stuck"]
             ELSE Run[CHOOSE m \in places : TRUE]
    [] n <= Len(insts) /\ IsLabel(insts[n]) -> Run[n + 1]
    [] OTHER -> [Run[n + 1] EXCEPT !.effects = <<insts[n]>> \o @]

Outcome(insts, value) ==
  LET Run[n \in 1..(Len(insts) + 1)] == RunFrom(insts, value, n, Run)
  IN  Run[1]

Behavior(insts) == [value \in Values |-> Outcome(insts, value)]

-----------------------------------------------------------------------------
(* Properties *)

Positions == DOMAIN CFG

(* The blocks EliminateDeadCodeImpl erases, in one forward sweep repeated  *)
(* until nothing changes, are unreachable, even when the jumps are gone.   *)
OnlyUnreachablePurged == [][pass = "purge" => Behavior(code') = Behavior(code)]_vars

(* The position a block starts behind: 0, or that of its label.            *)
Heads == <<0>> \o InOrder({n \in DOMAIN code : IsLabel(code[n])}, Len(code))

BlockOf(l) ==
  LET heads == Heads
  IN  CHOOSE b \in Positions \ {1} : code[heads[b]] = Label(l)

(* Where control goes after the instructions of a block.                   *)
Exits(b) ==
  IF CFG[b].insts # <<>> /\ EndsBlock(Last(CFG[b].insts))
  THEN LET targets == Targets(Last(CFG[b].insts))
       IN  [t \in DOMAIN targets |-> BlockOf(targets[t])]
  ELSE IF b < Len(CFG) THEN <<b + 1>> ELSE <<>>

(* Every block holds the code between its label and the next one.          *)
CodeInBlocks ==
  LET heads == Heads
  IN  /\ Len(CFG) = Len(heads)
      /\ \A b \in Positions :
           CFG[b].insts =
             SubSeq(code, heads[b] + 1, IF b = Len(CFG) THEN Len(code) ELSE heads[b + 1] - 1)

(* Branches and returns stand at the end of blocks, with no unconditional  *)
(* jump left.                                                              *)
EndsAtEnd(b) ==
  \A n \in DOMAIN CFG[b].insts :
    /\ ~IsDirectJMP(CFG[b].insts[n])
    /\ EndsBlock(CFG[b].insts[n]) => n = Len(CFG[b].insts)

(* The edges from b are the ways control takes, once each in the lists of  *)
(* parents and of children, and lead down the program.                     *)
EdgesAreExits(b) ==
  LET exits == Exits(b)
  IN  \A d \in Positions :
        /\ Count(CFG[b].children, d) = Count(exits, d)
        /\ Count(CFG[d].parents, b) = Count(exits, d)
        /\ Count(exits, d) # 0 => b < d

(* The graph is what the passes after it, and module Partition, take it to *)
(* be; and every block but the root is entered.                            *)
GraphIsSound ==
  pass = "done" =>
    /\ CodeInBlocks
    /\ \A b \in Positions :
         /\ EndsAtEnd(b)
         /\ EdgesAreExits(b)
         /\ b # 1 => CFG[b].parents # <<>>
         /\ ToSet(CFG[b].children) \cup ToSet(CFG[b].parents) \subseteq Positions
=============================================================================

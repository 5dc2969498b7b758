------------------------------- MODULE CodeGen -------------------------------
(***************************************************************************)
(* What becomes of the control-flow graph of a check: SyscallCheck::CodeGen*)
(* (policy.cpp) splits it (code_gen.cpp) and the lifter turns the tracer's *)
(* part into C (IR_lifter.cpp).  The question is whether the filter and    *)
(* the tracer, run one after the other, still do what the check says.      *)
(*                                                                         *)
(* The passes that Partition takes one loop iteration at a time are single *)
(* steps here.  Operands are left out, so that a call or store is always   *)
(* the first instruction of its block if the block has one: the case       *)
(* GenBPFIR and GenPtraceCode do not support is Partition's.  The filter's *)
(* blocks are taken to be compiled rightly.                                *)
(***************************************************************************)
EXTENDS FrontEnd

CONSTANT Scalars   \* arguments that are neither strings nor buffers

VARIABLES
  stage,               \* the next pass after those of FrontEnd
  ptrace_bbs,          \* blocks the tracer must be able to run
  ptrace_only_bbs,     \* those the filter never runs
  filter,              \* what the filter holds for a block: nothing, code or a trace
  block_ref_cnt,       \* how many lifted branches lead to a block
  C_code               \* the tracer's lines

genVars == <<stage, ptrace_bbs, ptrace_only_bbs, filter, block_ref_cnt, C_code>>

Blocks == DOMAIN CFG
Parents(b) == ToSet(CFG[b].parents)
Children(b) == ToSet(CFG[b].children)

-----------------------------------------------------------------------------
(* ColorCode and GenBPFIR *)

RequiresPtrace(b) == \E n \in DOMAIN CFG[b].insts : CFG[b].insts[n].i \in {"call", "store"}

(* Blocks below a ptrace block are ptrace blocks.                          *)
Colored ==
  FoldLeft(LAMBDA marked, b :
             IF RequiresPtrace(b) \/ Parents(b) \cap marked # {} THEN marked \cup {b} ELSE marked,
           {}, [b \in Blocks |-> b])

(* One more round of GetPtraceOnlyBB, and as many as there are blocks.     *)
Absorb(bbs, only) ==
  {b \in bbs : Parents(b) \subseteq only \/ Len(CFG[b].parents) <= 1}
PtraceOnly(bbs) == FoldLeft(LAMBDA only, b : Absorb(bbs, only), {}, CFG)

(* The filter when the root is the tracer's, and otherwise.                *)
WholeTrace == [b \in Blocks |-> IF b = 1 THEN "trace" ELSE "none"]
Split ==
  [b \in Blocks |->
     IF b \notin ptrace_only_bbs THEN "code"
     ELSE IF Parents(b) \subseteq ptrace_only_bbs THEN "none" ELSE "trace"]

GenBPFIR == IF 1 \in ptrace_only_bbs THEN WholeTrace ELSE Split

InterfacePoints == {b \in Blocks : filter[b] = "trace"} \cap ptrace_bbs

-----------------------------------------------------------------------------
(* The lifter.  A line is a label, an if with the distance to its else     *)
(* part, the end of a then part with the distance over the else part, a    *)
(* goto, a verdict, or an assignment with its write-back.                  *)

CLabel(b) == [line |-> "label", block |-> b]
CIf(a, n) == [line |-> "if", atom |-> a, skip |-> n]
CElse(n) == [line |-> "else", skip |-> n]
CGoto(b) == [line |-> "goto", block |-> b]
CVerdict(v) == [line |-> "verdict", verdict |-> v]
CAssign(x) == [line |-> "assign", var |-> x]
CWriteBack(x) == [line |-> "writeback", var |-> x]

RefCount(bbs) ==
  [b \in Blocks |->
    Cardinality({<<p, t>> \in bbs \X {1, 2} :
       /\ CFG[p].insts # <<>>
       /\ Last(CFG[p].insts).i = "branch"
       /\ Exits(p)[t] = b})]

(* A block is written out at the only branch that leads to it, or at its   *)
(* place in the program under a label.                                     *)
Inlined(b) == block_ref_cnt[b] = 1

(* Mutant: a label only where the filter hands over.                       *)
LabelOfInterface(b) == IF b \in InterfacePoints THEN <<CLabel(b)>> ELSE <<>>

LabelOf(b) ==
  IF b \in InterfacePoints \/ block_ref_cnt[b] > 1 THEN <<CLabel(b)>> ELSE <<>>

RECURSIVE GenBasicBlockCode(_)

Target(b) == IF Inlined(b) THEN GenBasicBlockCode(b) ELSE <<CGoto(b)>>

(* Mutant: the parts of the if are swapped.                                *)
GenIfCodeSwapped(b, inst) ==
  LET then == Target(Exits(b)[2])
      else == Target(Exits(b)[1])
  IN  <<CIf(inst.atom, Len(then) + 2)>> \o then \o <<CElse(Len(else) + 1)>> \o else

GenIfCode(b, inst) ==
  LET then == Target(Exits(b)[1])
      else == Target(Exits(b)[2])
  IN  <<CIf(inst.atom, Len(then) + 2)>> \o then \o <<CElse(Len(else) + 1)>> \o else

(* A helper call is part of the expression that uses it.                   *)
LiftInst(b, inst) ==
  CASE inst.i = "branch" -> GenIfCode(b, inst)
    [] inst.i = "return" -> <<CVerdict(inst.value)>>
    [] inst.i = "store" -> <<CAssign(inst.dst), CWriteBack(inst.dst)>>
    [] inst.i = "call" -> <<>>

GenBasicBlockCode(b) ==
  LabelOf(b) \o FlattenSeq([n \in DOMAIN CFG[b].insts |-> LiftInst(b, CFG[b].insts[n])])

(* GenCode goes through the lifted blocks in program order; those already  *)
(* written at a branch above are skipped.                                  *)
GenCode ==
  FlattenSeq([b \in Blocks |->
    IF b \in ptrace_bbs /\ ~Inlined(b) THEN GenBasicBlockCode(b) ELSE <<>>])

-----------------------------------------------------------------------------
(* SyscallCheck::CodeGen *)

GenInit ==
  /\ Init
  /\ stage = "ColorCode"
  /\ ptrace_bbs = {}
  /\ ptrace_only_bbs = {}
  /\ filter = <<>>
  /\ block_ref_cnt = <<>>
  /\ C_code = <<>>

RunColorCode ==
  /\ stage = "ColorCode"
  /\ pass = "done"
  /\ ptrace_bbs' = Colored
  /\ ptrace_only_bbs' = PtraceOnly(Colored)
  /\ stage' = "GenBPFIR"
  /\ UNCHANGED <<vars, filter, block_ref_cnt, C_code>>

RunGenBPFIR ==
  /\ stage = "GenBPFIR"
  /\ filter' = GenBPFIR
  /\ stage' = "GenPtraceCode"
  /\ UNCHANGED <<vars, ptrace_bbs, ptrace_only_bbs, block_ref_cnt, C_code>>

RunGenPtraceCode ==
  /\ stage = "GenPtraceCode"
  /\ block_ref_cnt' = RefCount(ptrace_bbs)
  /\ stage' = "GenCode"
  /\ UNCHANGED <<vars, ptrace_bbs, ptrace_only_bbs, filter, C_code>>

RunGenCode ==
  /\ stage = "GenCode"
  /\ C_code' = GenCode
  /\ stage' = "done"
  /\ UNCHANGED <<vars, ptrace_bbs, ptrace_only_bbs, filter, block_ref_cnt>>

GenNext ==
  \/ Next /\ UNCHANGED genVars
  \/ RunColorCode \/ RunGenBPFIR \/ RunGenPtraceCode \/ RunGenCode

GenSpec == GenInit /\ [][GenNext]_<<vars, genVars>>

-----------------------------------------------------------------------------
(* What filter and tracer do, one after the other *)

(* An if with an assignment in it, and the fall of its last line to the    *)
(* line after the if, are as in C; a goto needs its label.                 *)
RECURSIVE RunC(_, _, _)
Goto(b) == {n \in DOMAIN C_code : C_code[n] = CLabel(b)}
Jump(b, value, o) ==
  IF Cardinality(Goto(b)) # 1 THEN [o EXCEPT !.verdict = "stuck"]
  ELSE RunC(CHOOSE n \in Goto(b) : TRUE, value, o)

Did(o, effects) == [o EXCEPT !.effects = @ \o effects]

RunC(n, value, o) ==
  IF n > Len(C_code) THEN o
  ELSE LET c == C_code[n]
       IN  CASE c.line = "label" -> RunC(n + 1, value, o)
             [] c.line = "if" ->
                  RunC(IF value[c.atom] THEN n + 1 ELSE n + c.skip, value,
                       Did(o, IF c.atom \in Helpers THEN <<Call(c.atom)>> ELSE <<>>))
             [] c.line = "else" -> RunC(n + c.skip, value, o)
             [] c.line = "goto" -> Jump(c.block, value, o)
             [] c.line = "verdict" -> [o EXCEPT !.verdict = c.verdict]
             [] c.line = "assign" -> RunC(n + 1, value, Did(o, <<Store(c.var)>>))
             (* SET_ARG is given the expression, and evaluates it again.   *)
             [] c.line = "writeback" ->
                  RunC(n + 1, value, Did(o, IF c.var \in Scalars THEN <<Store(c.var)>> ELSE <<>>))

(* The filter has nothing to do an effect with, and a trace hands the call *)
(* over to the tracer at the block's label.                                *)
RECURSIVE RunFilter(_, _)
RunFilter(b, value) ==
  CASE filter[b] = "trace" -> Jump(b, value, Started)
    [] filter[b] = "none" \/ RequiresPtrace(b) -> [Started EXCEPT !.verdict = "stuck"]
    [] CFG[b].insts # <<>> /\ IsReturn(Last(CFG[b].insts)) ->
         [Started EXCEPT !.verdict = Last(CFG[b].insts).value]
    [] OTHER ->
         LET exits == Exits(b)
         IN  CASE Len(exits) = 0 -> Started
               [] Len(exits) = 1 -> RunFilter(exits[1], value)
               [] OTHER ->
                    RunFilter(exits[IF value[Last(CFG[b].insts).atom] THEN 1 ELSE 2], value)

SplitBehavior == [value \in Values |-> RunFilter(1, value)]

(* The expression assigned to a scalar is evaluated twice.                 *)
Evaluated(effects) ==
  FlattenSeq([n \in DOMAIN effects |->
    IF effects[n].i = "store" /\ effects[n].dst \in Scalars
    THEN <<effects[n], effects[n]>> ELSE <<effects[n]>>])

GraphBehavior ==
  [value \in Values |-> [Behavior(code)[value] EXCEPT !.effects = Evaluated(@)]]

-----------------------------------------------------------------------------
(* Properties *)

EffectsTraced == \A b \in Blocks : RequiresPtrace(b) => filter[b] # "code"

(* Where a lifted block is written: at its place, or where the block that  *)
(* branches to it is.                                                      *)
Place(b) ==
  LET place[c \in Blocks] ==
        IF ~Inlined(c) THEN c
        ELSE place[CHOOSE p \in ptrace_bbs : p < c /\ c \in ToSet(Exits(p)) /\ Len(Exits(p)) = 2]
  IN  place[b]

Places == {b \in ptrace_bbs : ~Inlined(b)}

(* Each lifted block that ends in neither branch nor return is entered     *)
(* into the block that is written below it.                                *)
FallsThrough(b) ==
  LET below == {c \in Places : c > Place(b)}
  IN  IF b = Len(CFG) THEN below = {} ELSE b + 1 \in below /\ \A c \in below : b + 1 <= c

RunsIntoNext ==
  \A b \in ptrace_bbs :
    CFG[b].insts = <<>> \/ Last(CFG[b].insts).i = "store" => FallsThrough(b)

(* Blocks are copied into the branches that lead to them, labels are left  *)
(* out where no goto is expected, and the tracer starts in the middle.     *)
(* Filter and tracer together still call the helpers, make the assignments *)
(* and give the verdict of the code they were made from, in that order,    *)
(* when no effect is left to the filter and no block falls through to one  *)
(* that is copied elsewhere.                                               *)
SplitMeansCode ==
  stage = "done" /\ EffectsTraced /\ RunsIntoNext => SplitBehavior = GraphBehavior

(* tests/test2.j has statements after an if that calls a helper, assigns   *)
(* and has no else part, and ends in allow.  A check like it reaches its   *)
(* verdict whatever the if did, so lifting must lose nothing of it.        *)
LiftedKeepsWhatFollows ==
  stage = "done" /\ EffectsTraced /\ Decides(stmts) => SplitBehavior = GraphBehavior

(* Every block the tracer may have to run is written exactly once, though  *)
(* blocks are copied to where they are used, with one label at most, and   *)
(* a goto never leads to a block without label: the C compiler would       *)
(* refuse the tracer of all checks.                                        *)
LiftedOnce ==
  stage = "done" =>
    /\ \A b \in Blocks : Cardinality(Goto(b)) <= 1
    /\ \A n \in DOMAIN C_code : C_code[n].line = "goto" => Goto(C_code[n].block) # {}
    /\ \A b \in InterfacePoints : Goto(b) # {}
    /\ Len(SelectSeq(C_code, LAMBDA c : c.line \in {"assign", "verdict", "if"}))
         = Len(SelectSeq(FlattenSeq([b \in Blocks |-> IF b \in ptrace_bbs THEN CFG[b].insts ELSE <<>>]),
                         LAMBDA inst : inst.i # "call"))
=============================================================================

------------------------------- MODULE BpfGen --------------------------------
(***************************************************************************)
(* A run of BPFCodeGen on conditions that must all hold, and what its      *)
(* filter decides.                                                         *)
(***************************************************************************)
EXTENDS BpfCode

CONSTANTS
  Inputs,      \* values tried for the arguments
  NumArgs,     \* arguments of the call
  Conditions   \* what is compiled: sequences of comparisons, all of which must hold

ASSUME InputsAssumption == Inputs \subseteq Nat

VARIABLES
  conds,    \* the comparisons being compiled
  IR,       \* BPF_IR
  it,       \* the next instruction of it
  gen       \* A_val, M0_val and the code generated

vars == <<conds, IR, it, gen>>

Init ==
  /\ conds \in Conditions
  /\ IR = CheckIR(conds)
  /\ it = 2          \* the start label is skipped
  /\ gen = NothingGenerated

Done == it > Len(IR) /\ ~gen.aborted

Generating(i) ==
  /\ ~gen.aborted
  /\ it <= Len(IR) /\ IR[it].i = i
  /\ it' = it + 1
  /\ UNCHANGED <<conds, IR>>

GenArith == Generating("arith") /\ gen' = AfterArith(gen, IR[it], it)

GenBranch == Generating("branch") /\ gen' = AfterBranch(gen, IR[it])

GenReturn == Generating("return") /\ gen' = AfterReturn(gen, IR[it])

GenLabel == Generating("label") /\ gen' = AfterLabel(gen, IR[it])

Next == GenArith \/ GenBranch \/ GenReturn \/ GenLabel

Spec == Init /\ [][Next]_vars

-----------------------------------------------------------------------------
(* What the conditions mean in unsigned arithmetic *)

Arguments == [0..(NumArgs - 1) -> Inputs]

RECURSIVE Value(_, _)
Value(e, args) ==
  CASE e.e = "arg" -> Word(args[e.arg])
    [] e.e = "num" -> Word(e.value)
    [] e.e = "neg" -> Word(2^Width - Value(e.left, args))
    [] e.e = "op" -> Calculate(bpf_opcodes[e.op], Value(e.left, args), Value(e.right, args))

Holds(c, args) ==
  LET a == Value(c.left, args)
      b == Value(c.right, args)
  IN  CASE c.op = "==" -> a = b
        [] c.op = "!=" -> a # b
        [] c.op = ">" -> a > b
        [] c.op = ">=" -> a >= b
        [] c.op = "<" -> a < b
        [] c.op = "<=" -> a <= b

Verdict(args) == IF \A n \in DOMAIN conds : Holds(conds[n], args) THEN "allow" ELSE "deny"

(* How many values are spilled at a time.                                  *)
RECURSIVE Spills(_)
SpillsOf(l, r) ==
  LET own == IF ~Leaf(l) /\ ~Leaf(r) THEN 1 + Spills(r) ELSE Spills(r)
  IN  IF Spills(l) > own THEN Spills(l) ELSE own
Spills(e) ==
  CASE Leaf(e) -> 0
    [] e.e = "neg" -> Spills(e.left)
    [] e.e = "op" -> SpillsOf(e.left, e.right)

-----------------------------------------------------------------------------
(* Properties *)

(* With one spill word and one accumulator, tracked by the compiler across *)
(* nested operands and comparisons, the filter decides as the policy is    *)
(* written, if operands have the shapes BPFCodeGen handles.                *)
FilterDecidesIfFitting ==
  Done /\ (\A n \in DOMAIN conds : ConditionFits(conds[n])) =>
    \A args \in Arguments : FilterVerdict(gen.filter, args) = Verdict(args)

(* The compiler gives up on exactly the conditions that need two values    *)
(* spilled at a time; none of them is compiled to a filter that has lost   *)
(* a value.                                                                *)
AbortsIffTwoSpills ==
  /\ gen.aborted => \E n \in DOMAIN conds : SpillsOf(conds[n].left, conds[n].right) > 1
  /\ Done => \A n \in DOMAIN conds : SpillsOf(conds[n].left, conds[n].right) <= 1
=============================================================================

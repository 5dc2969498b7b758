----------------------------- MODULE SectionValues -----------------------------
(***************************************************************************)
(* Section with the table of system calls and the expressions of the       *)
(* policy language: what the C text computes, and what the filter that     *)
(* BPFCodeGen makes of the same test decides.                              *)
(***************************************************************************)
EXTENDS Section, SyscallTable, Expressions

CONSTANT Registers   \* values of argument registers that the properties look at

ASSUME RegistersAssumption == Registers \subseteq 0..(2^(2 * Width) - 1)

(* The filter's side.                                                      *)
Bpf == INSTANCE BpfCode

-----------------------------------------------------------------------------
(* The section in C *)

SignedTypes(bits, names) == [t \in names |-> CType(bits, TRUE)]
UnsignedTypes(bits, names) == [t \in names |-> CType(bits, FALSE)]
CTypes ==
  SignedTypes(Width, {CInt, Pid}) @@ UnsignedTypes(Width, {UInt, Unsigned, Uid, Gid})
    @@ SignedTypes(2 * Width, {Long, Loff}) @@ UnsignedTypes(2 * Width, {ULong, SizeT})

(* Only declared numbers, and no helper.                                   *)
Plain ==
  /\ CallsIn(tree) = {}
  /\ \A x \in NamesIn(tree) \cup Target : lifter.arg_types[x] \in DOMAIN CTypes
  /\ NamesIn(tree) \subseteq Declared

Types == [x \in NamesIn(tree) \cup Target |-> CTypes[lifter.arg_types[x]]]
RegisterFiles == [NamesIn(tree) -> Registers]
Loaded(regs) == [x \in NamesIn(tree) |-> Convert(regs[x], Types[x])]

(* What C reads where the code was written from the tree.                  *)
InTracer(line) == ReadC(body[line].text)

(* Nothing is divided by zero or shifted too far.                          *)
Defined(t, value(_)) ==
  \A s \in {q \in Subtrees(t) : q.e = "op"} :
    /\ s.op \in {"/", "%"} => value(s.right) # 0
    /\ s.op \in {"<<", ">>"} => value(s.right) \in 0..(Width - 1)

(* Every value on the way fits a positive int.                             *)
Small(t, regs) ==
  /\ \A s \in Subtrees(t) : Exact(s, regs) \in 0..(2^(Width - 1) - 1)
  /\ Defined(t, LAMBDA s : Exact(s, regs))

BitsOnly(t) ==
  \A s \in Subtrees(t) : \/ s.e = "leaf"
                         \/ s.e = "op" /\ s.op \in {"&", "|", "^"}

(* Every name is as wide as an int, and so is every number, unless the     *)
(* names it is computed with have a sign.                                  *)
WordsOnly ==
  /\ \A x \in NamesIn(tree) : Types[x].bits = Width
  /\ (\E s \in Subtrees(tree) : LeastNumber(s)) => \A x \in NamesIn(tree) : Types[x].signed

(* The target is not read, or only masked.                                 *)
SafeToRepeat ==
  \/ input.dst \notin NamesIn(tree)
  \/ /\ tree.e = "op" /\ tree.op \in {"&", "|"}
     /\ tree.left = Leaf(Name(input.dst)) /\ input.dst \notin NamesIn(tree.right)

-----------------------------------------------------------------------------
(* The test in the filter *)

RECURSIVE Operand(_)
Operand(t) ==
  CASE IsNumber(t) -> Bpf!Num(Immediate(t.token[2]))
    [] t.e = "leaf" /\ t.token[1] = "name" -> Bpf!Arg(lifter.arg_index[t.token[2]])
    [] t.e = "neg" -> Bpf!Minus(Operand(t.left))
    [] t.e = "op" -> Bpf!Op(t.op, Operand(t.left), Operand(t.right))

Condition == Bpf!Compare(tree.op, Operand(tree.left), Operand(tree.right))
Compiled == Bpf!BPFCodeGen(Bpf!CheckIR(<<Condition>>))

(* Registers by the number of the argument.                                *)
ByIndex(regs) ==
  LET named(i) == CHOOSE x \in NamesIn(tree) : lifter.arg_index[x] = i
  IN  [i \in {lifter.arg_index[x] : x \in NamesIn(tree)} |-> regs[named(i)]]

-----------------------------------------------------------------------------
(* Properties *)

(* C reads a lifted expression as the policy meant it, whatever the ranks  *)
(* of the operators in the two languages, or does not accept it: a binary  *)
(* ~, or two minus signs that meet (IR_lifter.cpp:20).                     *)
ReadsBack ==
  Done => \A n \in DOMAIN body :
    InTracer(n) = IF LiftsWell(tree) THEN InC(tree) ELSE Error

(* The filter that is generated for a test decides it as the lifted code   *)
(* does, if its operands have the shapes BPFCodeGen handles, and all its   *)
(* values are small, or it is an equality over words that only masks bits; *)
(* in general they do not agree: the filter takes half a register and has  *)
(* no signs (code_gen.cpp:295), and of other shapes it makes other         *)
(* programs (ConditionFits).                                               *)
FilterAndTracerAgree ==
  Done /\ input.kind = "test" /\ Plain /\ LiftsWell(tree) /\ Bpf!ConditionFits(Condition) =>
    LET gen == Compiled
        text == InTracer(1)
    IN  ~gen.aborted => \A regs \in RegisterFiles :
          \/ Small(tree.left, regs) /\ Small(tree.right, regs)
          \/ /\ tree.op \in {"==", "!="} /\ BitsOnly(tree.left) /\ BitsOnly(tree.right)
             /\ WordsOnly
          => (Bpf!FilterVerdict(gen.filter, ByIndex(regs)) = "allow"
                <=> TracerHolds(text, Loaded(regs), Types))

(* The call runs with the number the handler assigned, when the expression *)
(* calls no helper and reads its target at most under a mask: SET_ARG      *)
(* evaluates it once more, after the assignment (IR_lifter.cpp:147).       *)
RegisterGetsWhatIsAssigned ==
  Done /\ input.kind = "assign" /\ Plain /\ LiftsWell(tree) /\ SafeToRepeat =>
    \A regs \in RegisterFiles :
      LET x == input.dst
          value(t, vals) == TracerValue(t, vals, Types).v
          first == Convert(value(InTracer(1), Loaded(regs)), Types[x])
          again == value(InTracer(2), (x :> first) @@ Loaded(regs))
      IN  Defined(InTracer(1), LAMBDA s : value(s, Loaded(regs))) =>
            body[2].to.arg = lifter.arg_index[x] /\ Convert(again, Types[x]) = first
=============================================================================

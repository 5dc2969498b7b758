------------------------------- MODULE BpfCode -------------------------------
(***************************************************************************)
(* BPFCodeGen (code_gen.cpp): from the instructions of a check's filter    *)
(* blocks to BPF instructions, for conditions on numbers, and the machine  *)
(* that runs them.  The generator remembers which value is in the          *)
(* accumulator and which one it spilled to memory word 0.                  *)
(*                                                                         *)
(* Opcodes are numbers where that matters: the generator joins a selector  *)
(* for operands in packets (BPF_ABS) to arithmetic opcodes, and the sum is *)
(* the opcode of another operation.  Recursive, so only TLC reads it.      *)
(***************************************************************************)
EXTENDS Integers, SequencesExt, Bitwise

CONSTANT Width   \* bits of a BPF word

ASSUME WordAssumption == Width \in Nat \ {0}

-----------------------------------------------------------------------------
(* Expressions and their code: OpNode::IRGen of arithmetic and comparisons *)

Arg(i) == [e |-> "arg", arg |-> i]
Num(v) == [e |-> "num", value |-> v]
Minus(l) == [e |-> "neg", left |-> l]
Op(op, l, r) == [e |-> "op", op |-> op, left |-> l, right |-> r]
Compare(op, l, r) == [op |-> op, left |-> l, right |-> r]

(* Operands: an argument, a number, the result of instruction n, nothing.  *)
Memory(i) == [is |-> "mem", at |-> i]
Immediate(v) == [is |-> "imm", at |-> v]
Result(n) == [is |-> "inst", at |-> n]
NoValue == [is |-> "nullptr", at |-> 0]
IsInst(v) == v.is = "inst"

RECURSIVE IRGen(_, _)
IRGen(e, code) ==
  CASE e.e = "arg" -> [code |-> code, val |-> Memory(e.arg)]
    [] e.e = "num" -> [code |-> code, val |-> Immediate(e.value)]
    [] e.e = "neg" ->
         LET l == IRGen(e.left, code)
         IN  [code |-> Append(l.code, [i |-> "arith", op |-> "neg", op1 |-> l.val, op2 |-> NoValue]),
              val |-> Result(Len(l.code) + 1)]
    [] e.e = "op" ->
         LET l == IRGen(e.left, code)
             r == IRGen(e.right, l.code)
         IN  [code |-> Append(r.code, [i |-> "arith", op |-> e.op, op1 |-> l.val, op2 |-> r.val]),
              val |-> Result(Len(r.code) + 1)]

Label(l) == [i |-> "label", label |-> l]
Return(v) == [i |-> "return", value |-> v]

(* The nth comparison: the next one if it holds, and otherwise denied.     *)
CompareIR(conds, code, n) ==
  LET c == conds[n]
      l == IRGen(c.left, Append(code, Label(n)))
      r == IRGen(c.right, l.code)
  IN  Append(r.code, [i |-> "branch", op |-> c.op, op1 |-> l.val, op2 |-> r.val,
                      true_target |-> n + 1, false_target |-> 0])

CheckIR(conds) ==
  FoldLeft(LAMBDA code, n : CompareIR(conds, code, n), <<>>, [n \in DOMAIN conds |-> n])
    \o <<Label(Len(conds) + 1), Return("allow"), Label(0), Return("deny")>>

-----------------------------------------------------------------------------
(* BPF instructions *)

bpf_opcodes ==
  [op \in {"+", "-", "*", "/", "%", "|", "&", "<<", ">>", "^", "==", "!=", ">", "<", ">=", "<="} |->
     CASE op = "+" -> 0 [] op = "-" -> 1 [] op = "*" -> 2 [] op = "/" -> 3 [] op = "|" -> 4
       [] op = "&" -> 5 [] op = "<<" -> 6 [] op = ">>" -> 7 [] op = "%" -> 9 [] op = "^" -> 10
       [] op \in {"==", "!="} -> 1 [] op \in {">", "<"} -> 2 [] op \in {">=", "<="} -> 3]

NeedSwapTarget(op) == op \in {"<=", "<", "!="}

(* Joining BPF_ABS sets the second bit of the operation number.            *)
Joined(op, mode) == IF mode = "ABS" /\ (op \div 2) % 2 = 0 THEN op + 2 ELSE op

LoadArg(i) == [b |-> "ld", arg |-> i]
LoadNum(v) == [b |-> "imm", k |-> v]
Spill == [b |-> "st"]
Unspill == [b |-> "ldx"]
Alu(op, mode, k) == [b |-> "alu", op |-> Joined(bpf_opcodes[op], mode), mode |-> mode, k |-> k]
Jump(op, mode, k, jt, jf) ==
  [b |-> "jmp", op |-> Joined(bpf_opcodes[op], mode), mode |-> mode, k |-> k, jt |-> jt, jf |-> jf]
Ret(v) == [b |-> "ret", value |-> v]
Mark(l) == [b |-> "label", label |-> l]

(* offsetof(struct seccomp_data, args) is 16.                              *)
GenK_Field(v) == IF v.is = "mem" THEN 16 + 8 * v.at ELSE v.at
GetAddressMode(v) == IF v.is = "mem" THEN "ABS" ELSE "K"
LoadArgumentOrInt(v) ==
  CASE v.is = "mem" -> <<LoadArg(v.at)>>
    [] v.is = "imm" -> <<LoadNum(v.at)>>
    [] OTHER -> <<>>

(* BPF_TAX without its class is a load of the number 0.                    *)
Negation == <<LoadNum(0), LoadNum(0), Alu("-", "X", 0)>>

-----------------------------------------------------------------------------
(* One iteration of BPFCodeGen: g is what the loop carries along, the value *)
(* in the accumulator, the one in the spill word and the code generated,   *)
(* and whether an assertion has ended the compiler.                        *)

NothingGenerated == [A_val |-> NoValue, M0_val |-> NoValue, filter |-> <<>>, aborted |-> FALSE]

(* Mutant: nothing is spilled.                                             *)
MustSpillNever(g, inst) == FALSE

(* What is in the accumulator and not used here is spilled.                *)
MustSpill(g, inst) == g.A_val # NoValue /\ g.A_val # inst.op1 /\ g.A_val # inst.op2

(* Mutant: the spilled operand is not loaded.                              *)
ArithCodeUnchecked(inst) ==
  IF inst.op2 = NoValue THEN LoadArgumentOrInt(inst.op1) \o Negation
  ELSE IF IsInst(inst.op1) /\ IsInst(inst.op2) THEN <<Alu(inst.op, "X", 0)>>
  ELSE IF IsInst(inst.op2) THEN <<Alu(inst.op, GetAddressMode(inst.op1), GenK_Field(inst.op1))>>
  ELSE LoadArgumentOrInt(inst.op1) \o <<Alu(inst.op, GetAddressMode(inst.op2), GenK_Field(inst.op2))>>

ArithCode(inst) ==
  IF inst.op2 = NoValue THEN LoadArgumentOrInt(inst.op1) \o Negation
  ELSE IF IsInst(inst.op1) /\ IsInst(inst.op2) THEN <<Unspill, Alu(inst.op, "X", 0)>>
  ELSE IF IsInst(inst.op2) THEN <<Alu(inst.op, GetAddressMode(inst.op1), GenK_Field(inst.op1))>>
  ELSE LoadArgumentOrInt(inst.op1) \o <<Alu(inst.op, GetAddressMode(inst.op2), GenK_Field(inst.op2))>>

(* assert(op1 == M0_val || op2 == M0_val)                                  *)
Lost(inst, M0) == IsInst(inst.op1) /\ IsInst(inst.op2) /\ M0 \notin {inst.op1, inst.op2}
Unspilled(inst, M0) == IF IsInst(inst.op1) /\ IsInst(inst.op2) THEN NoValue ELSE M0

(* inst is instruction n.                                                  *)
AfterArith(g, inst, n) ==
  LET M0 == IF MustSpill(g, inst) THEN g.A_val ELSE g.M0_val
      spill == IF MustSpill(g, inst) THEN <<Spill>> ELSE <<>>
  IN  IF Lost(inst, M0) THEN [g EXCEPT !.aborted = TRUE]
      ELSE [g EXCEPT !.filter = @ \o spill \o ArithCode(inst),
                     !.A_val = Result(n), !.M0_val = Unspilled(inst, M0)]

BranchCode(inst) ==
  LET jt == IF NeedSwapTarget(inst.op) THEN inst.false_target ELSE inst.true_target
      jf == IF NeedSwapTarget(inst.op) THEN inst.true_target ELSE inst.false_target
  IN  IF IsInst(inst.op1) /\ IsInst(inst.op2) THEN <<Unspill, Jump(inst.op, "X", 0, jt, jf)>>
      ELSE IF IsInst(inst.op2)
      THEN <<Jump(inst.op, GetAddressMode(inst.op1), GenK_Field(inst.op1), jt, jf)>>
      ELSE LoadArgumentOrInt(inst.op1)
             \o <<Jump(inst.op, GetAddressMode(inst.op2), GenK_Field(inst.op2), jt, jf)>>

AfterBranch(g, inst) ==
  IF Lost(inst, g.M0_val) THEN [g EXCEPT !.aborted = TRUE]
  ELSE [g EXCEPT !.filter = @ \o BranchCode(inst),
                 !.A_val = NoValue, !.M0_val = Unspilled(inst, g.M0_val)]

AfterReturn(g, inst) == [g EXCEPT !.filter = Append(@, Ret(inst.value))]

AfterLabel(g, inst) == [g EXCEPT !.filter = Append(@, Mark(inst.label))]

(* The whole loop: the start label is skipped, an assertion is the end.    *)
BPFCodeGen(IR) ==
  FoldLeft(LAMBDA g, n :
             CASE g.aborted -> g
               [] ~g.aborted /\ IR[n].i = "arith" -> AfterArith(g, IR[n], n)
               [] ~g.aborted /\ IR[n].i = "branch" -> AfterBranch(g, IR[n])
               [] ~g.aborted /\ IR[n].i = "return" -> AfterReturn(g, IR[n])
               [] ~g.aborted /\ IR[n].i = "label" -> AfterLabel(g, IR[n]),
           NothingGenerated, Tail([n \in DOMAIN IR |-> n]))

-----------------------------------------------------------------------------
(* The BPF machine *)

Word(n) == n % 2^Width

(* Operations by their number; division by zero and number 11 never occur  *)
(* in what the properties compare.                                         *)
Calculate(op, a, b) ==
  CASE op = 0 -> Word(a + b)
    [] op = 1 -> Word(a + 2^Width - b)
    [] op = 2 -> Word(a * b)
    [] op = 3 -> IF b = 0 THEN 0 ELSE a \div b
    [] op = 4 -> a | b
    [] op = 5 -> a & b
    [] op = 6 -> IF b >= Width THEN 0 ELSE Word(a * 2^b)
    [] op = 7 -> IF b >= Width THEN 0 ELSE a \div 2^b
    [] op = 9 -> IF b = 0 THEN 0 ELSE a % b
    [] op = 10 -> a ^^ b

Decide(op, a, b) ==
  CASE op = 1 -> a = b
    [] op = 2 -> a > b
    [] op = 3 -> a >= b

(* Mutant: the word at the offset of an argument is its upper half.        *)
UpperWord(v) == v \div 2^Width

(* The word at the offset of an argument is the lower half of its register.*)
LoadedWord(v) == Word(v)

(* m holds the registers A and X and the memory word.                      *)
RECURSIVE Exec(_, _, _, _)
Exec(filter, pc, m, args) ==
  LET f == filter[pc]
      b == IF f.mode = "X" THEN m.X ELSE Word(f.k)
      at(l) == CHOOSE n \in DOMAIN filter : filter[n] = Mark(l)
  IN  CASE f.b = "ld" -> Exec(filter, pc + 1, [m EXCEPT !.A = LoadedWord(args[f.arg])], args)
        [] f.b = "imm" -> Exec(filter, pc + 1, [m EXCEPT !.A = Word(f.k)], args)
        [] f.b = "st" -> Exec(filter, pc + 1, [m EXCEPT !.M0 = m.A], args)
        [] f.b = "ldx" -> Exec(filter, pc + 1, [m EXCEPT !.X = m.M0], args)
        [] f.b = "alu" -> Exec(filter, pc + 1, [m EXCEPT !.A = Calculate(f.op, m.A, b)], args)
        [] f.b = "jmp" -> Exec(filter, at(IF Decide(f.op, m.A, b) THEN f.jt ELSE f.jf), m, args)
        [] f.b = "label" -> Exec(filter, pc + 1, m, args)
        [] f.b = "ret" -> f.value

FilterVerdict(filter, args) == Exec(filter, 1, [A |-> 0, X |-> 0, M0 |-> 0], args)

-----------------------------------------------------------------------------
(* Which conditions BPFCodeGen is right about *)

Leaf(e) == e.e \in {"arg", "num"}

(* An argument is only loaded as the left operand of an operation without  *)
(* computed operands, and what is computed on the right ends up on the     *)
(* left.                                                                   *)
OperandsFit(l, r, symmetric) ==
  /\ r.e # "arg"
  /\ ~Leaf(r) => symmetric /\ l.e # "arg"

RECURSIVE Fits(_)
Fits(e) ==
  CASE Leaf(e) -> TRUE
    [] e.e = "neg" -> FALSE
    [] e.e = "op" -> /\ Fits(e.left) /\ Fits(e.right)
                     /\ OperandsFit(e.left, e.right, e.op \in {"+", "*", "&", "|", "^"})

ConditionFits(c) ==
  /\ Fits(c.left) /\ Fits(c.right)
  /\ OperandsFit(c.left, c.right, c.op \in {"==", "!="})
  /\ c.op \notin {"<", "<="}
=============================================================================

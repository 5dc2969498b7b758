------------------------------ MODULE Assembly -------------------------------
(***************************************************************************)
(* PolicyManager::CodeGen (policy.cpp): the checks of a policy, each       *)
(* compiled to filter instructions and tracer code, are joined into one    *)
(* filter and one tracer.  Labels of the filter become offsets in          *)
(* BPFTransformLabels (code_gen.cpp); data returned by the filter become   *)
(* indices of the tracer's tables.                                         *)
(*                                                                         *)
(* A compiled check is a constant: the filter instructions, where a branch *)
(* compares the argument with a number, and the blocks of tracer code,     *)
(* each with the verdict it ends in, or "none" if it has none.             *)
(***************************************************************************)
EXTENDS Naturals, FiniteSets, SequencesExt

CONSTANTS
  Policies,      \* records of a default and a sequence of checks
  Args,          \* values of the argument of a call
  Numbers,       \* system calls, by their number
  X32Bit,        \* X32_SYSCALL_BIT
  OffsetLimit    \* jump offsets are kept modulo this number

ASSUME AssemblyAssumption ==
  /\ Args \subseteq Nat /\ Numbers \subseteq 0..(X32Bit - 1)
  /\ X32Bit \in Nat /\ OffsetLimit \in Nat \ {0}

(* What the passes before deliver for a check.  A branch leads on to two   *)
(* labels, each there once, and a hand-over has one block of tracer code:  *)
(* IRPasses, Partition and CodeGen show it of those passes.                *)
Items ==
  [item : {"label", "trace"}, label : Nat]
    \cup [item : {"branch"}, k : Nat, jt : Nat, jf : Nat]
    \cup [item : {"ret"}, verdict : {"allow", "deny"}]
Blocks == [label : Nat, verdict : {"allow", "deny", "none"}]

(* The places of a label among the items of a filter.                      *)
PlacesOf(items, l) == {m \in DOMAIN items : items[m].item = "label" /\ items[m].label = l}

CompiledChecks ==
  {c \in [syscall : Numbers, filter : Seq(Items), code : Seq(Blocks)] :
     /\ \A m \in DOMAIN c.filter :
          /\ c.filter[m].item = "trace" => \E b \in DOMAIN c.code : c.code[b].label = c.filter[m].label
          /\ c.filter[m].item = "branch" =>
               \A l \in {c.filter[m].jt, c.filter[m].jf} :
                 \E place \in DOMAIN c.filter : m < place /\ PlacesOf(c.filter, l) = {place}
     /\ \A a, b \in DOMAIN c.code : c.code[a].label = c.code[b].label => a = b}

ASSUME PoliciesAssumption ==
  Policies \subseteq [default : {"allow", "deny"}, checks : Seq(CompiledChecks)]

VARIABLES
  policy,             \* the policy compiled
  stage,              \* what comes next
  bpf_filters,        \* bpf_filters_ of the checks compiled so far
  ret_data_to_label,  \* the label of each return datum, from 0 on
  final_filters,      \* the filter
  tracer,             \* the lines of the tracer that labels and gotos refer to
  jmp_table,          \* per datum the label of the block handed over
  start_table         \* per datum the label of the check's prologue

vars == <<policy, stage, bpf_filters, ret_data_to_label, final_filters, tracer,
          jmp_table, start_table>>

checks == policy.checks

-----------------------------------------------------------------------------
(* Labels.  A check's first block is labelled with the name of its call,   *)
(* all others with names unique in the policy.                             *)

Name(s) == <<"syscall", s, 0>>
Local(n, l) == <<"label", n, l>>
StartOf(s) == <<"start", s, 0>>
Zero == <<"0", 0, 0>>
Deny == <<"__deny", 0, 0>>
Allow == <<"__allow", 0, 0>>

BlockLabel(n, l) == IF l = 0 THEN Name(checks[n].syscall) ELSE Local(n, l)

(* label_2_check[label] + "_start"                                         *)
StartLabel(label) ==
  IF label[1] = "syscall" THEN StartOf(label[2]) ELSE StartOf(checks[label[2]].syscall)

-----------------------------------------------------------------------------
(* Filter instructions *)

Mark(l) == [f |-> "label", label |-> l]
Load(what) == [f |-> "ld", what |-> what]
Jump(test, k, jt, jf) == [f |-> "jump", test |-> test, k |-> k, jt |-> jt, jf |-> jf]
UnsetX32 == [f |-> "and"]
Ret(v) == [f |-> "ret", verdict |-> v]
Trace(d) == [f |-> "trace", data |-> d]

Body(n) == checks[n].filter
Traces(n, m) == {j \in 1..(m - 1) : Body(n)[j].item = "trace"}

(* Mutant: the return data of every check start from zero.                 *)
GeneratedFromZero(first, n, m) ==
  LET item == Body(n)[m]
  IN  CASE item.item = "label" -> <<Mark(Local(n, item.label))>>
        [] item.item = "branch" ->
             <<Load("arg"), Jump("jeq", item.k, Local(n, item.jt), Local(n, item.jf))>>
        [] item.item = "ret" -> <<Ret(item.verdict)>>
        [] item.item = "trace" -> <<Trace(Cardinality(Traces(n, m)))>>

(* Instruction m of check n; each hand-over takes the next return datum,   *)
(* from the first that the checks before have left.                        *)
Generated(first, n, m) ==
  LET item == Body(n)[m]
  IN  CASE item.item = "label" -> <<Mark(Local(n, item.label))>>
        [] item.item = "branch" ->
             <<Load("arg"), Jump("jeq", item.k, Local(n, item.jt), Local(n, item.jf))>>
        [] item.item = "ret" -> <<Ret(item.verdict)>>
        [] item.item = "trace" -> <<Trace(first + Cardinality(Traces(n, m)))>>

(* The place of the j-th hand-over of check n.                             *)
Handover(n, j) ==
  CHOOSE m \in Traces(n, Len(Body(n)) + 1) : Cardinality(Traces(n, m)) = j - 1

(* SyscallCheck::CodeGen                                                   *)
CodeGenCheck ==
  LET n == Len(bpf_filters) + 1
  IN  /\ stage = "CodeGen"
      /\ n <= Len(checks)
      /\ bpf_filters' =
           Append(bpf_filters,
                  FlattenSeq([m \in DOMAIN Body(n) |-> Generated(Len(ret_data_to_label), n, m)]))
      /\ ret_data_to_label' =
           ret_data_to_label
             \o [j \in 1..Cardinality(Traces(n, Len(Body(n)) + 1)) |->
                   BlockLabel(n, Body(n)[Handover(n, j)].label)]
      /\ UNCHANGED <<policy, stage, final_filters, tracer, jmp_table, start_table>>

Default == IF policy.default = "deny" THEN Deny ELSE Allow

(* The architecture, then the bit of the x32 interface.                    *)
Header ==
  <<Load("arch"), Jump("arch", 0, Zero, Deny),
    Load("nr"), Jump("jgt", X32Bit - 1, Zero, Name(checks[1].syscall)), UnsetX32>>

(* Mutant: a call of another check is decided by the default.              *)
JoinCheckToDefault(n) ==
  <<Mark(Name(checks[n].syscall)), Jump("jeq", checks[n].syscall, Zero, Default)>>
    \o bpf_filters[n]

JoinCheck(n) ==
  LET next == IF n < Len(checks) THEN Name(checks[n + 1].syscall) ELSE Default
  IN  <<Mark(Name(checks[n].syscall)), Jump("jeq", checks[n].syscall, Zero, next)>>
        \o bpf_filters[n]

Trailer ==
  (IF policy.default = "deny" THEN <<Mark(Deny)>> ELSE <<Mark(Allow), Ret("allow"), Mark(Deny)>>)
    \o <<Ret("deny")>>

Joined == Header \o FlattenSeq([n \in DOMAIN checks |-> JoinCheck(n)]) \o Trailer

(* PolicyManager::BPFCodeGen; without checks nothing is written.           *)
JoinFilters ==
  /\ stage = "CodeGen"
  /\ Len(bpf_filters) = Len(checks)
  /\ IF checks = <<>> THEN stage' = "PtraceCodeGen" /\ UNCHANGED final_filters
     ELSE final_filters' = Joined /\ stage' = "BPFTransformLabels"
  /\ UNCHANGED <<policy, bpf_filters, ret_data_to_label, tracer, jmp_table, start_table>>

-----------------------------------------------------------------------------
(* BPFTransformLabels *)

IsMark(f) == f.f = "label"

(* The address of position n of filter g: labels take no room.             *)
PC(g, n) == Cardinality({m \in 1..(n - 1) : ~IsMark(g[m])})

Marks(g, l) == {n \in DOMAIN g : g[n] = Mark(l)}

(* label_2_filter has the last of several labels of one name; a label that *)
(* is not there stays as it is, which only the text "0" survives.          *)
Unresolved == OffsetLimit
Offset(g, n, l) ==
  IF l = Zero THEN 0
  ELSE IF Marks(g, l) = {} THEN Unresolved
  ELSE LET last == CHOOSE m \in Marks(g, l) : \A k \in Marks(g, l) : k <= m
       IN  (PC(g, last) - PC(g, n) - 1) % OffsetLimit

Transformed(g, n) ==
  IF g[n].f = "jump" THEN <<[g[n] EXCEPT !.jt = Offset(g, n, @), !.jf = Offset(g, n, @)]>>
  ELSE IF IsMark(g[n]) THEN <<>> ELSE <<g[n]>>

Resolved(g) == FlattenSeq([n \in DOMAIN g |-> Transformed(g, n)])

BPFTransformLabels ==
  /\ stage = "BPFTransformLabels"
  /\ final_filters' = Resolved(final_filters)
  /\ stage' = "PtraceCodeGen"
  /\ UNCHANGED <<policy, bpf_filters, ret_data_to_label, tracer, jmp_table, start_table>>

-----------------------------------------------------------------------------
(* PolicyManager::PtraceCodeGen *)

At(l) == [t |-> "label", label |-> l]
Dispatch == [t |-> "dispatch"]
Ends(v) == [t |-> "verdict", verdict |-> v]

(* The prologue that copies the arguments, the jump to the block handed    *)
(* over, and the blocks.                                                   *)
Section(n) ==
  LET block(b) == <<At(BlockLabel(n, b.label))>> \o (IF b.verdict = "none" THEN <<>> ELSE <<Ends(b.verdict)>>)
      blocks == checks[n].code
  IN  IF blocks = <<>> THEN <<>>
      ELSE <<At(StartOf(checks[n].syscall)), Dispatch>>
             \o FlattenSeq([b \in DOMAIN blocks |-> block(blocks[b])])

HasPtrace == \E n \in DOMAIN checks : checks[n].code # <<>>

StartTable(labels) == [d \in DOMAIN labels |-> StartLabel(labels[d])]

PtraceCodeGen ==
  /\ stage = "PtraceCodeGen"
  /\ stage' = "done"
  /\ IF HasPtrace
     THEN /\ jmp_table' = ret_data_to_label
          /\ start_table' = StartTable(ret_data_to_label)
          /\ tracer' = FlattenSeq([n \in DOMAIN checks |-> Section(n)])
     ELSE UNCHANGED <<jmp_table, start_table, tracer>>
  /\ UNCHANGED <<policy, bpf_filters, ret_data_to_label, final_filters>>

Init ==
  /\ policy \in Policies
  /\ stage = "CodeGen"
  /\ bpf_filters = <<>> /\ ret_data_to_label = <<>> /\ final_filters = <<>>
  /\ tracer = <<>> /\ jmp_table = <<>> /\ start_table = <<>>

Next == CodeGenCheck \/ JoinFilters \/ BPFTransformLabels \/ PtraceCodeGen

Spec == Init /\ [][Next]_vars

-----------------------------------------------------------------------------
(* What filter and tracer do with a call *)

Calls == [arch : BOOLEAN, x32 : BOOLEAN, nr : Numbers, arg : Args]

Loaded(what, call) ==
  CASE what = "arch" -> IF call.arch THEN 1 ELSE 0
    [] what = "nr" -> IF call.x32 THEN call.nr + X32Bit ELSE call.nr
    [] what = "arg" -> call.arg

Passes(f, A) ==
  CASE f.test = "arch" -> A = 1
    [] f.test = "jgt" -> A > f.k
    [] f.test = "jeq" -> A = f.k

(* The address after one instruction, and the accumulator.                 *)
Step(call, pc, A) ==
  LET f == final_filters[pc]
  IN  CASE f.f = "ld" -> <<pc + 1, Loaded(f.what, call)>>
        [] f.f = "and" -> <<pc + 1, A % X32Bit>>
        [] f.f = "jump" -> <<pc + 1 + (IF Passes(f, A) THEN f.jt ELSE f.jf), A>>

(* The filter from an address and an accumulator on: a verdict, or a hand- *)
(* over with its datum.  A filter that runs out is refused.                *)
FilterRun(call) ==
  LET run[s \in Nat \X Nat] ==
        IF s[1] \notin DOMAIN final_filters THEN Ret("refused")
        ELSE IF final_filters[s[1]].f \in {"ret", "trace"} THEN final_filters[s[1]]
        ELSE run[Step(call, s[1], s[2])]
  IN  run

FilterDoes(call) == FilterRun(call)[<<1, 0>>]

Lines(l) == {n \in DOMAIN tracer : tracer[n] = At(l)}

(* From the block handed over the tracer runs to a verdict, to the out     *)
(* label behind all checks, where an old verdict counts, or into the       *)
(* prologue of another check, which jumps to that block again.             *)
TracerDoes(d) ==
  IF d + 1 \notin DOMAIN jmp_table THEN "astray"
  ELSE LET ends == {n \in DOMAIN tracer : tracer[n].t # "label"}
           from == {n \in ends : \E m \in Lines(jmp_table[d + 1]) : m < n}
           end == CHOOSE n \in from : \A m \in from : n <= m
       IN  IF from = {} THEN "stale"
           ELSE IF tracer[end] = Dispatch THEN "loops" ELSE tracer[end].verdict

Outcome(call) ==
  LET f == FilterDoes(call)
  IN  IF f.f = "trace" THEN TracerDoes(f.data) ELSE f.verdict

(* What check n alone says of a call from its item m on, or "none".        *)
CheckRun(n, call) ==
  LET block(l) == CHOOSE b \in ToSet(checks[n].code) : b.label = l
      run[m \in Nat] ==
        IF m \notin DOMAIN Body(n) THEN "none"
        ELSE LET item == Body(n)[m]
                 place(l) == CHOOSE p \in PlacesOf(Body(n), l) : TRUE
             IN  CASE item.item = "label" -> run[m + 1]
                   [] item.item = "branch" -> run[place(IF call.arg = item.k THEN item.jt ELSE item.jf)]
                   [] item.item = "ret" -> item.verdict
                   [] item.item = "trace" -> block(item.label).verdict
  IN  run

CheckVerdict(n, call) == CheckRun(n, call)[1]

ChecksOf(s) == {n \in DOMAIN checks : checks[n].syscall = s}

Distinct == \A s \in Numbers : Cardinality(ChecksOf(s)) <= 1

(* Every jump is shorter than the field of its offset.                     *)
Short == Len(final_filters) <= OffsetLimit

-----------------------------------------------------------------------------
(* Properties *)

(* The filter, whose checks are a chain of comparisons with offsets        *)
(* computed from names, and the tracer, found through two tables indexed   *)
(* by the filter's answer, decide a call as its check alone does, or else  *)
(* as the default: for both interfaces, whatever the other checks are, if  *)
(* no call has two checks and the check gives a verdict.  A foreign        *)
(* architecture is denied.                                                 *)
CallsDecidedByTheirCheck ==
  stage = "done" /\ checks # <<>> /\ Distinct /\ Short =>
    \A call \in Calls :
      IF ~call.arch THEN Outcome(call) = "deny"
      ELSE IF ChecksOf(call.nr) = {} THEN Outcome(call) = policy.default
      ELSE \A n \in ChecksOf(call.nr) :
             CheckVerdict(n, call) # "none" => Outcome(call) = CheckVerdict(n, call)

(* Return data are counted over all checks, and a check without tracer     *)
(* code has no section: each datum still leads to a label that is there    *)
(* exactly once, by way of the prologue of its own check.                  *)
HandoversFindTheirSection ==
  stage = "done" /\ Distinct =>
    /\ \A n \in DOMAIN bpf_filters : \A m \in DOMAIN bpf_filters[n] :
         LET f == bpf_filters[n][m]
         IN  f.f = "trace" =>
               /\ f.data + 1 \in DOMAIN jmp_table
               /\ start_table[f.data + 1] = StartOf(checks[n].syscall)
    /\ \A d \in DOMAIN jmp_table :
         /\ Cardinality(Lines(jmp_table[d])) = 1 /\ Cardinality(Lines(start_table[d])) = 1
         /\ \A s \in Lines(start_table[d]), b \in Lines(jmp_table[d]) :
              /\ s < b
              /\ Cardinality({m \in s..b : tracer[m] = Dispatch}) = 1

(* tests/chat/client/rules checks connect, read and mmap between two       *)
(* checks of socket: a call that has a check is not left to the default.   *)
CheckedCallsAreChecked ==
  stage = "done" /\ Short =>
    \A call \in {c \in Calls : c.arch /\ ChecksOf(c.nr) # {}} :
      Outcome(call) \in {CheckVerdict(n, call) : n \in ChecksOf(call.nr)}

(* README.md: the policy "deny all" with a check of open that only says    *)
(* when to allow only allows the open calls of that condition.             *)
OnlyAllowedIfChecked ==
  stage = "done" /\ Distinct /\ Short /\ policy.default = "deny" =>
    \A call \in {c \in Calls : c.arch} :
      Outcome(call) = "allow" => \E n \in ChecksOf(call.nr) : CheckVerdict(n, call) = "allow"
=============================================================================

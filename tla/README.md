# A verification project for the policy compiler and its sandbox

The repository compiles a small policy language into a sandbox for one program.
A policy is a default (`allow all`, `deny all`) and a list of *checks*, one per
system call, made of `if`, `allow`, `deny` and assignments to the call's arguments,
with conditions over the arguments and calls of C *helper functions*.  The
compiler writes two C files: a seccomp filter (BPF), which decides what it can
from the argument registers, and a ptrace tracer, to which the filter hands the
calls whose check needs a helper or changes an argument.  At run time the tracer
starts the program under the filter and answers every hand-over.

This directory holds TLA+ models of the parts where that can go wrong, TLC runs
over small instances, and TLAPS proofs about intermediate code, graphs, process trees,
memories, policies and tables of any size.

## 1. Inventory

| component | code | state | operations | hard because |
|---|---|---|---|---|
| front end | `ast.cpp`, `IR_gen.cpp`, `IR.h`, driven by `SyscallCheck::IRGen` | instruction list, `CodeGenMgr` (label counter, current branch targets and a stack of saved ones), basic blocks | `IRGen` of each node, `MergeLabels`, `EliminateDeadCode`, `BuildCFG` | targets are mutable fields restored by convention; labels are renamed and blocks erased while reachability is computed |
| partition | `code_gen.cpp` (`ColorCode`, `GetPtraceOnlyBB`, `GenBPFIR`, `GenPtraceCode`), driven by `SyscallCheck::CodeGen` | `ptrace_blocks`, `ptrace_only_blocks`, `ptrace_targets`, filter IR, `ret_data_to_label` | one loop over the graph each, one fixpoint over a hash map | correctness rests on program order, on iteration order not mattering and on two programs agreeing where control changes hands |
| filter code | `BPFCodeGen` in `code_gen.cpp` | accumulator, X register, one spill cell | selection of BPF instructions for comparisons and arithmetic | register and spill discipline, swapped targets, 32-bit operands |
| lifter | `IR_lifter.cpp` | reference counts of blocks, generated lines | C text for the tracer blocks, inlining | fall-through edges are not counted; expressions emitted twice |
| assembly | `policy.cpp`, `BPFTransformLabels` | label to address map, jump tables | chain of checks, tables `start_table` and `jmp_table` | labels of two checks of one call coincide; code without verdict runs on |
| tracer | `ptrace_template.c` | `child`, `first_fork`, `deny`, `reg_modified`, registers, arguments, datum | wait loop, options, hand-over, kill, write-back, continue | processes die and stop between any two kernel calls; globals outlive calls |
| memory copies | `ptrace_template.c` | buffers of words in the tracer, the memory of a process whose other threads run | `ptrace_copy_out_*`, `ptrace_copy_back_*` | rounding, terminators, mappings, freed strings |
| arguments of a check | `GetArgumentsInfo`, `GenPtracePrologue`, `CheckVariableUse` | types, indices and sizes of the parameters by name | declarations, loads, write-backs | types known by substrings, names not unique, table and policy may disagree |
| system-call table | `syscalls.cpp` | 336 entries, a map of names | index, search | the number is the index; some entries have lost letters |
| seccomp start-up | `seccomp_template.c` | the installed filter | `install_filter`, `setup_seccomp` | order with respect to TRACEME, the options and execve |
| helpers | `tests/*/helpers.c` | statics of the demo helpers | `safex`, `url2file`, ... | state kept between calls |
| lexer, parser | `lexer.l++`, `parser.y++` | the list of policies | trees of statements and expressions | precedences that are not C's; unsigned numbers kept as `int` |
| driver | `driver.cpp`, `error.cpp`, `PolicyManager` | the two output files, the count of errors | read, refuse, write | two files written one after the other, exits in between, status 0 with errors |
| types, printing, templates | rest | - | dead code, debug output, generated copies | not hard |

How they interact: the parser fills the list of checks of `PolicyManager`;
`IRGen` runs the front end on each; `CodeGen` runs the partition on each graph, the
lifter on the tracer's blocks and `BPFCodeGen` on the filter's; the assembly joins all
checks into two files, sharing the globals `ret_data` and `ret_data_to_label`.  At run
time filter and tracer meet in a *return datum*: the filter returns
`SECCOMP_RET_TRACE` with a number, and the tracer jumps through a table indexed by it.

What makes each part correct:

* front end: the code decides and acts as the statements say; the graph has exactly
  the edges control can take, in program order;
* partition: once handed over a call stays in the tracer; every jump and every
  datum leads somewhere; no effect is left to a program that cannot have it; the
  result does not depend on hash order;
* tracer: a call is performed only as the policy permits for that very call; no
  process waits for ever for an answer or runs without supervision; the end of the
  tracer is the end of the sandbox;
* filter code, lifter, assembly: the two programs together decide as the check says;
* arguments and table: what the handler reads is the argument the policy names, fetched
  as its type demands, and what it assigns goes back to the same place;
* expressions: C reads the generated text as the policy's grammar read the policy;
* memory copies: the handler sees the argument, the call sees what was assigned, and
  the process keeps its other bytes;
* driver: a file holds the translation of an accepted policy or none, and the two files
  belong together.

The hazards, each at its line, with the properties that watch it, are listed under
`hazards` in `PROJECT.json`.

## 2. Modules

| module | models | status |
|---|---|---|
| `FrontEnd` | `IRGen` of syntax trees, and what the statements mean | checked |
| `IRPasses` | `MergeLabels`, `EliminateDeadCode`, `BuildCFG`, for any code IRGen may emit | checked and proved |
| `IRPassesProofs` | theorems about `IRPasses` | proved |
| `CodeGen` | `SyscallCheck::CodeGen` on the graphs of `FrontEnd`: split, hand-over, lifter | checked |
| `BpfCode` | `BPFCodeGen`: what each instruction becomes, and the machine that runs the result | used by `BpfGen` and `SectionValues` |
| `BpfGen` | a run of `BPFCodeGen` on several comparisons | checked |
| `Assembly` | `PolicyManager`: the checks of a policy joined into one filter and one tracer | checked and proved |
| `AssemblyProofs` | theorems about `Assembly`: return data, tables and sections of the tracer; labels, offsets and the run of the filter | proved |
| `FlattenLemmas` | what joining a sequence of sequences yields | proved |
| `Partition` | `ColorCode`, `GetPtraceOnlyBB`, `GenBPFIR`, block selection of `GenPtraceCode` | checked and proved |
| `PartitionProofs` | theorems about `Partition` | proved |
| `Tracer` | the tracer, the processes it supervises, seccomp, ptrace and wait | checked and proved |
| `TracerProofs` | theorems about `Tracer`, the refinement of `Sandbox` among them | proved |
| `Sandbox` | what a generated sandbox promises (abstract) | implemented by `Tracer` |
| `SyscallTable` | the table of system calls, as it stands | checked with `Section` |
| `Trees` | tokens and trees of expressions | used by `Section` and `Expressions` |
| `Expressions` | arithmetic: the policy's grammar, `LiftExpr`, C's grammar, values in C | checked with `Section` |
| `Section` | from one statement and its parameters to the tracer's declarations, loads and lines | checked, the parameters proved |
| `SectionProofs` | theorems about `Section` | proved |
| `SectionValues` | `Section` with that table and those expressions, the values they take in C, and what the filter of `BpfCode` decides | checked |
| `MemCopy` | copies of an argument out of the tracee's memory and back | checked and proved |
| `MemCopyProofs` | theorems about `MemCopy` | proved |
| `Driver` | runs of the compiler on a policy that changes, its two files, and the sandbox built from them | checked and proved |
| `DriverProofs` | theorems about `Driver` | proved |
| `MCFrontEnd`, `MCCodeGen`, `MCBpfGen`, `MCAssembly`, `MCPartition`, `MCTracer`, `MCSection`, `MCMemCopy`, `MCDriver` | instances for TLC | - |

### FrontEnd and IRPasses

`stmts` is the syntax tree, chosen in `Init`; `code` is `IR_`; `CFG` is `CFG_`; `pass`
names the next pass.  Each action is one call in `SyscallCheck::IRGen` (`RunIRGen`,
`RunMergeLabels`, the two halves of `EliminateDeadCode` as `RunDropDead` and
`RunPurge`, `RunBuildCFG`).

`IRPasses` has the passes after the generation.  What `IRGen` makes of statements is a
constant operator there, and `ChecksAssumption` says what the passes may rely on
(`Generated`): no label stands twice, every branch leads down to a label that is there,
a label stands below every branch, and the code does not start with a jump.  `FrontEnd`
extends it with the functions of `ast.cpp`, and `CodeOf` is the value that the runs give to
`IRGen`, so that TLC evaluates the assumption on the code of every check.  The passes
are loops over the instruction list, written as recursive functions of the position;
an erased instruction is a position not kept (`Keep`, `Purge`), and `Only` is the list of
those kept.

In `FrontEnd`, `GenAnd`, `GenOr` and
`GenNot` thread the record `mgr` (the fields of `CodeGenMgr` and the code emitted) the
way `OpNode::IRGen` mutates it.  A comparison is an *atom*: one conditional branch,
after a call if it uses a helper.  The meaning of statements (`Exec`) and the
behaviour of code (`Behavior`) are given as reference definitions over all truth values of
the atoms; they compare the helper calls and assignments made, in order, and the
verdict.

### CodeGen

Extends `FrontEnd`: when its passes are done, `RunColorCode`, `RunGenBPFIR`,
`RunGenPtraceCode` and `RunGenCode` are the calls of `SyscallCheck::CodeGen`, each one
step (`Partition` has their loops).  `filter` says what the filter holds for each block,
`block_ref_cnt` and `C_code` are the lifter's.  A C line keeps what decides where
control goes: an `if` has the distance to its else part, the end of a then part the
distance over the else part.  `SplitBehavior` runs the filter's blocks until one hands
over and then the C lines from the label of that block; a block with an effect that is
left in the filter, a missing label and a missing block are *stuck*.  An assignment is
one effect, and two if `SET_ARG` evaluates its expression again.

### BpfCode and BpfGen

`BpfCode` has what one iteration of the loop of `BPFCodeGen` does, by the kind of instruction
(`AfterArith`, `AfterBranch`, `AfterReturn`, `AfterLabel`): a record goes in and out with
`A_val`, `M0_val`, the code so far, and whether an `assert` has ended the compiler.
`BPFCodeGen` is the whole loop as a fold.  Where the generated text is not the instruction it is
meant to be, the model has the instruction the text *is*: `Joined` adds the bit of
`BPF_ABS` to an opcode, and `Negation` is a load where the text says `BPF_TAX` without a
class.  `Exec` is the machine, with words of `Width` bits; it loads the lower half of an
argument's register.  `ConditionFits` says which shapes of operands the generator handles.

`BpfGen` runs the loop on `conds`, a sequence of comparisons that must all hold for a call to be
allowed; `IR` has their instructions in the order `OpNode::IRGen` emits them, and each action is
one iteration.  `Verdict` is the reference, the comparisons in unsigned arithmetic, and
`SpillsOf` says how many values a condition needs spilled at a time, from the expression alone.

### Assembly

A policy is a default and a sequence of compiled checks: filter items and the verdicts
of tracer blocks.  `CompiledChecks` says what the passes before deliver: every hand-over
has a block and no two blocks have one label, which `HandoversResolved` and `LiftedOnce`
show of `Partition` and `CodeGen`; a branch leads on to labels that are there once, which
`GraphIsSound` shows of `IRPasses` and `NoDanglingJump` of `Partition`.  `CodeGenCheck` is one round of the loop in
`PolicyManager::CodeGen`, which numbers return data across all checks; `JoinFilters` is `BPFCodeGen` of the
manager, `BPFTransformLabels` replaces labels by offsets (the last of two labels of a
name counts), `PtraceCodeGen` builds the two tables and the sections.  `Outcome` runs a
call through the filter and, from the block that the tables lead to, through the
tracer's lines: to a verdict, to the end where an old verdict counts (`stale`), or into
the prologue of the next check, which jumps back (`loops`).  `CheckVerdict` is the
reference: what the check says of the call, by itself.

### Partition

The input is any graph the front end can deliver: `term` says how a block ends,
`need` where its first instruction stands that requires ptrace.  Both are variables
that `Init` chooses and nothing changes.  `Forward` and `Entered` restrict them to
what `BuildCFG` builds; that every graph it builds is such an input is proved
(`GraphsFitPartition`).  Every action is one iteration of a loop or one of its exits: `ColorBlock`;
`CollectCandidates`, `VisitCandidate`, `EndRound` for `GetPtraceOnlyBB`, with the hash
order a free choice; `TraceWholeCheck` and `GenBlock` (four cases) for `GenBPFIR`;
`LiftBlock` for `GenPtraceCode`.  `ptrace_blocks` maps a block to the *position* of its
first ptrace instruction, so that the comparison with `FirstInst()` is `= 1`.

### Tracer and Sandbox

`Tracer` has one action per kernel call of the loop in `ptrace_template.c`, so that
anything may happen to the processes in between, and the kernel's part as actions of
the processes: `Seccomp` runs the filter on a call, `Recheck` runs it again after the
tracer let the call go on, `Fork` attaches the new process if the options are set,
`TracerGone` kills what `PTRACE_O_EXITKILL` covers.  A ptrace request on a process
that is not stopped fails and changes nothing, and the loop, which looks at no
result, goes on: `GetRegs` then leaves `regs` as it was and `GetEventMsg` leaves any
value in the uninitialised `seccomp_ret_data`.  The generated code is the constant
`Handler`, run in one step: it sees only the copy of the registers, and the processes
cannot observe it.  A handler's verdict may be `fall`: it ends without one.  The child
asks to be traced, stops itself, installs the filter and runs the program
(`TraceMe`, `RaiseSigstop`, `SetupSeccomp`).

`Sandbox` knows processes, the calls they ask for and the calls performed.  `Tracer`
implements it under the mapping: live processes are those that run, enter, are stopped
or are resumed; `asked` and `performed` are carried as history.

### SyscallTable, Trees, Expressions, Section and SectionValues

`SyscallTable` is the data of `syscalls.cpp`: a type is the sequence of the words of its
declaration, because the compiler looks into the text.

`Expressions` takes an expression through its four forms.  `ReadPolicy` is the policy's
grammar: tokens to a tree, by the precedences of `parser.y++`.  `LiftExpr` writes the tree
as tokens of C, `ReadC` reads those by the precedences of C, and `TracerValue` is what the
tracer computes, with the types of the variables and the usual conversions; a literal too
large for an `int` is a `long`, as that of `-2147483648` is.
`Width` stands for the 32 bits of an `int`; a register has twice as many.

`Section` is one check of one statement, a test or an assignment.  `Parse` and
`CheckVariableUse`, `LookUp`, `GetArgumentsInfo`, `LiftStatement` and
`GenPtracePrologue` are the passes in the order of `PolicyManager::IRGen` and `CodeGen`;
`rejected` is an exit.  `SyscallNameToNr` keeps the last of two entries of one name, as the
map it fills does.  The table and what becomes of expressions are constants
(`syscall_infos`, `Grammar`, `Variables`, `ExprText`, `ConditionText`), which the run gives
the values of `SyscallTable` and `Expressions`; so the passes are free of recursion and
can be proved about.  `TableAssumption` is what they need of a table: a number is an index, a
string is a pointer, and a buffer of `read` or `write` is followed by its size.  TLC
evaluates it on the table as it stands.  A load or a write-back is a record: the variable, whether it is
copied as a string, as memory or as a register, from which argument and with what size.

`SectionValues` gives the tree of a test to `BpfCode` as well (`Operand`, `Condition`), and
runs the filter that comes out on the same registers as the C text: both sides are the
programs generated, neither is a reference.

### MemCopy

One argument of a stopped thread.  Each action is one `ptrace` call or what follows the
last one of a loop; `Use`, `Assign...` and `Permit` are the lines a handler has for the
argument, in any order, and `OtherThread` is a write of another thread of the process,
at any moment.  Memory is mapped from 0 to `Mapped - 1`; a read that crosses the end
fails and returns `Garbage`, a write is done as far as it goes.  `buf` has the addresses
that were allocated as its domain, so that reading or writing outside it is seen.
`theirs` is what the process would have without the tracer, `reach` how far from `addr`
write-backs are entitled to go, and `faults` what C leaves undefined: such a handler goes
on with garbage.

### Driver

A policy is a value with the properties that decide its way through `main`: how many
errors it calls for, whether it has checks, blocks for the tracer, an unknown name.  A
file is missing, the translation of a policy, or cut.  Every exit of the compiler is a
step with its status (255 for `exit(-1)`, 134 for an assertion, 139 for a null pointer);
`Kill` ends it anywhere, `Edit` changes the policy at any time, `Clean` is the `rm` of the
build scripts and `Build` makes a sandbox of whatever two whole files there are.

## 3. Runs

| run | instance | shows |
|---|---|---|
| `codegen` | 7 584 checks: conditions of up to three operators over two tests and a helper, ifs in the then and else parts of an if, conditions whose parts are entered by several branches | branches decide as the condition, helpers called in order; the graph is sound; purging is harmless; decided checks keep their meaning; blocks are written once and labelled where needed; filter and tracer together do what the code does, unless a block falls through to one written elsewhere |
| `codegen_follows` | the same checks | **violated**: what follows an `if` is lost when its condition holds |
| `partition` | all graphs of 3 blocks, 2 positions, all hash orders | tracer-only blocks are the least fixpoint, tracer code is closed under control flow, jumps and hand-overs resolve, effects of single-entry blocks are traced, the passes end |
| `bpfgen` | 21 035 conditions over two arguments, negations among their operands, words of 6 bits, 8 values per argument | the filter decides as written where operands have the right shape; the compiler gives up on exactly the conditions that need two spill words |
| `assembly` | policies of up to 3 checks of 3 calls, both defaults, both interfaces, 3 argument values | every call is decided by its own check or the default; every datum leads to its block by way of its own prologue |
| `assembly_repeated` | `socket`, another call, `socket` again, as in `tests/chat/client/rules` | **violated**: the check between them is jumped over |
| `assembly_falls` | checks that only say when to allow, as in the example of the repository's README | **violated**: another check's comparison decides |
| `tracer` | 3 processes (symmetric but for the root), 3 calls, 2 data | only permitted calls performed, no stranded stop, no unsupervised process, nothing outlives the tracer |
| `tracer_sandbox` | 2 processes, 6 calls, every kind of verdict | `Tracer` implements `Sandbox`; stops are answered, denial ends all, exit ends the sandbox |
| `section` | 19 279 checks: all 336 entries with every parameter tested, assigned and passed to a helper, parameter lists of the table's length and one longer; expressions of up to two operators over arguments of several types, and tests with up to three operators in the shapes that the filter handles; integers of 3 bits | which names the C leaves undeclared; pointers are copied and put back where they were read; sizes are sizes; C reads expressions as the policy meant them; the generated filter and the tracer agree on small values and on masks; an assigned register gets the value assigned |
| `memcopy` | words of 2 bytes, memory of 7, limit of 4, sizes 0 to 6, two assignments, one write of another thread | when strings and values arrive whole, when neighbours are touched, when a handler meets freed or short memory |
| `driver` | 10 policies, one of each fate and two for the tracer | no file of a refused policy; what status 0 means; a sandbox of two policies needs an interruption or a filter that hands nothing over |

Why the bounds are enough.  Conditions: a restored target is needed at the earliest
under two nested operators, and negation changes what is restored; three operators
put every operator on either side of every other.  Nesting: an if inside either part
of an if, with a statement after it, makes every sequence of labels, jumps and
returns that deeper nesting repeats.  Partition: three blocks make a join
below two parents, one of them above the other, and the theorems remove the bound.
BPF: an accumulator and one spill word are used up by operands nested twice on both
sides; 6 bits tell the operations apart and hold the offsets of two arguments (16 and
24).  Assembly: with three checks one stands between two others; three call numbers
and arguments of the same values, and a bit above them for the x32 interface, make
every confusion of number and argument possible; offsets are kept modulo 32, and the
properties are about filters that are shorter.
Section: the table is complete; with two operators every pair of precedences meets on
either side and under parentheses, and with 3 bits a value can be positive, negative,
beyond an `int` and beyond a word; the 13 register values include the borders of each.  In
tests with computed operands on both sides the filter spills, and tests with each operator and
comparison it handles come out true and false on small values.
MemCopy: words of two bytes make a size, a string and a mapping end inside a word, at
its end and one past it, and sizes up to six bytes make the test of `n_words % 8` (here
`% 2`) come out either way with and without a rest; a second assignment is the first that can meet
what the first one freed.  Driver: files remember one run, so two policies of the kind
that writes both files, and one of every other kind, give every mixture.
Tracer: the loop handles one process at a time, so a second process gives every
interference with the one it works on, and a third one a stop that waits meanwhile; the
calls are one that is allowed, one that is denied and one that is rewritten, and for
the refinement also one killed by the filter, one handed over unchanged and one
rewritten into a forbidden one.  Deadlock is not checked: a compilation ends and a
sandbox whose processes are gone has nothing left to do.  In `memcopy` the counters
`MaxAssigned` and `MaxStored` bound the handler's assignments and the other threads'
writes; `driver` needs no bound.

Fairness.  `Partition` assumes weak fairness of `Next`: the compiler is one sequential
process.  `Tracer` assumes weak fairness of the tracer's steps only - the kernel
schedules a runnable process, and none of the loop's calls except `wait()` blocks.
Nothing is assumed of the sandboxed processes.  `wait()` may return any pending
status, so that a process can stop again and again before the exit of the root is
returned; `ExitEndsSandbox` excludes exactly that.

### What the violations say

* `IR_lifter.cpp:121`: the block after an `if` without else part has one branch that
  leads to it and is written there, in the else part; the fall-through from the then
  part is not counted.  `if (h) { x = ...; } allow;` gives no verdict when `h` holds.
* `code_gen.cpp:494`: two checks of one call give two labels of one name.  The first
  jump goes to the last of them, and every check before that is unreachable.
* `policy.cpp:215`: a check that ends without verdict runs into the next check's
  comparison with its *argument* in the accumulator: `open` with an argument that is
  the number of `close` is treated as `close`, and everything else gets what the checks
  after it and the default say.

Other limits of the code are preconditions of properties that hold, and are explained
where these are defined:

* `DecidedCheckKeepsMeaning` is about checks whose then parts give a verdict if there is
  an else part: `IR_gen.cpp:123` erases every jump, not only what follows a return.  The
  repository's policies are of this kind.
* `SingleEntryEffectsTraced` is about blocks entered in at most one way:
  `code_gen.cpp:46` never makes a block entered from two filter blocks tracer-only,
  so a helper call or an assignment there is dropped.
* `FilterDecidesIfFitting` leaves out negation (`code_gen.cpp:366`, which yields 0 minus
  an unset register), `<` and `<=` (`code_gen.cpp:276`, each compiled as the other), and
  an argument as second operand: `code_gen.cpp:303` joins `BPF_ABS` to the opcode, which
  turns `&` into `>>` by the argument's offset.  `tests/test3.j:6` has such a condition.
* `OnlyPermittedPerformed` is about handlers that give a verdict: `deny` is not reset
  between calls (`ptrace_template.c:207`), so that one without a verdict repeats that of
  the call before.  The example of the repository's README (lines 53-55) is a check of
  that kind once its condition needs the tracer.
* `FilterAndTracerAgree` is about the shapes of `FilterDecidesIfFitting`, and there about
  numbers that are small and positive, or equalities of words that are only masked: the
  filter has 32 bits and no signs, the tracer 64 and C's (`code_gen.cpp:295`).  -2^31 may be
  in a mask of signed words only, because C takes that literal for a `long`.  Without any
  one of these conditions TLC finds a test that the two programs decide differently.
* `ReadsBack` is about expressions without the binary `~`, which C does not have, and
  without two minus signs that meet; from 2^31 on a number is printed with a minus sign.
* `RegisterGetsWhatIsAssigned` is about expressions without helper that read their
  target at most under a mask: `SET_ARG` evaluates the expression once more
  (`IR_lifter.cpp:147`).
* `NamesResolve` lists the names that stay undeclared: arguments only assigned, as
  `x` in `x = 0;`, and those past the table's.  The C compiler then refuses the tracer.  It
  refuses, too, types such as `char __user *` or `fconst char *` that the table spells so.
* `ArgumentCopied`: an `int` or a structure of less than eight bytes behind a pointer is not
  copied at all, and a size is rounded up only if its number of *words* is no multiple of
  eight (`ptrace_template.c:40`).
* `FaultsExplained`: after `x = f(x);` for a string the handler has no `x` any more.
* `StatusMeansFiles`: status 0 is also that of a policy with errors (`driver.cpp:118`),
  and of one without checks or blocks for the tracer, which leaves the file of an
  earlier policy; the usage in the repository's README has no `rm`, its build scripts do.
* `NoDanglingJump` and `HandoversResolved` are about checks for which no pass reported
  the unsupported case of `code_gen.cpp:115`.

## 4. Proofs

For each component there is one inductive invariant `IInv`, a conjunction of named parts, with
the theorem `InductiveInvariant == Spec => []IInv` (`PassInv` and `PassInvHolds` for `IRPasses`);
the properties follow from it.  The
invariants were checked by TLC before they were proved.  Each is stronger than the properties
because these speak of the end of a pass, a call or a run, and hold only by what was true
at every step before.

### IRPasses

`IRPassesProofs` proves `GraphIsSound` and `OnlyUnreachablePurged` for code of any length
with any conditions, from `ChecksAssumption` alone, and `PassesKeepBehavior`: merging labels
changes nothing about what the code does, nor does purging, nor does dropping what follows
a return.  Dropping jumps changes nothing if they are idle (`JumpsAreIdle`): each one that
control can reach leads to the label right below it.  That is the part of
`DecidedCheckKeepsMeaning` that is about the passes; that jumps are idle if then parts
decide is a matter of syntax trees and stays with TLC.

* `PassInv` - what each pass hands to the next: `Generated` code until dead code is
  dropped; after that `Dropped` code, which has no jump and a label below every branch and
  every return; when nothing more is purged `Entered` code, each label of which
  is run into or branched to; in the end the graph of that code.
* `KeptInv` - and it still does what the code of `IRGen` does.  It is inductive with `PassInv`.

The lemmas follow the loops.  `IterationExists` and `RunsExists` show that the recursive
functions of the model are functions at all; from there on a loop is known by the states
it goes through (`Drops`, `Sweeps`, `Merges`, `Builds`), and what is left of the code
by the positions kept, in ascending order (`OnlyEmbeds`).

* `DropDeadDrops`, `PurgeDrops`, `MergeLabelsGenerated` - each pass keeps labels unique and
  the targets of branches below them.  A sweep decides in one go, with the branches seen so
  far and against the instruction above even if that one was just erased; that suffices
  because branches only lead down (`SweptKeeps`).
* `PurgeKeepsOutcome`, `MergeKeepsOutcome`, `DropKeepsOutcome` - the run of the code left
  is that of the code before, position by position from the end: what a branch leads to
  is kept, a merged label is run into from the label that replaces it, and a jump that is
  dropped is idle or never reached.
* `BuiltLabel`, `BuiltInst` - the invariant of the loop of `BuildCFG`, `Built`: the blocks so
  far hold the code so far; for every label not yet met `backward` has the blocks that
  branch to it, as often as they do; and between two blocks there are as many entries in
  the lists of children and of parents as there are ways from one to the other.
  `GraphBuiltIsSound` draws `GraphIsSound` from it.

`GraphsFitPartition` joins the two models.  `Input(N, M)` is `Partition` at its start with the
graph put in: `TerminatorOf` reads off how a block ends, `NeedOf` where its first
instruction stands that requires ptrace.  Its `Init` holds of every graph that is
built, so what it takes for granted, program order and entered blocks, is no
assumption; and what it calls parents and children is what is in the lists.
`GetParents().size() <= 1` of the code counts a list, `AtMostOneParent` a set of edges; they
agree because an edge has exactly one entry (`ListsAreEdges`).

### Partition

`PartitionProofs` proves, for every number of blocks and every graph, that `Spec`
implies each of the invariants of the run `partition`.
Assumed are only the two constants' types; `Forward` and `Entered` are conjuncts of
`Init`.  The argument:

* `TypeInv` - types, and the parts of the state that a pass has not yet reached;
* `GraphInv` - the graph never changes and is in program order;
* `ColorInv` - before `cur`, a block is marked iff it needs ptrace or has a marked
  parent; since parents come before their children one sweep suffices, which gives
  `TracerClosed`;
* `OnlyInv` - `ptrace_only_blocks` lies within every dominance set, and the
  candidates visited in a round that changed nothing are stable.  At the end of such a
  round the set is a dominance set itself, hence the least one: `OrderIndependent`;
* `RootInv` - if the root is tracer-only, so is, by induction along the sweep, every
  marked block and every block: `CornerCase`, the part of `NoDanglingJump` about the
  early return of `GenBPFIR`;
* `BpfInv`, `DataInv`, `LiftInv` - what `GenBPFIR` and `GenPtraceCode` have emitted for
  the blocks before `cur`: the children of every filter block are code or are targets
  that will become a hand-over, data are handed out once, lifted blocks are closed.

### Tracer

`TracerProofs` proves the safety properties of the run `tracer`, and that `Tracer`
implements `Sandbox`, for any processes, calls, data, filter and handlers.  Assumed are the
constants' types and that the names of verdicts are no data.

* `CallInv`, `WorkInv` - a process is in one kind of stop, and the process the loop works
  on stays in its stop or dies, whatever the others do between two kernel calls.  All
  else rests on this: nobody but the tracer lets a stopped process go on;
* `ReadInv` - so what the loop has read (`regs`, `seccomp_ret_data`, the arguments, the
  verdict in `deny`) belongs to the call that waits, or the process is dead and it does
  not matter;
* `DecisionInv` - a call that was let go on has the argument its own handler left and
  was not denied by it, until it is performed;
* `SuperviseInv`, `ReportInv` - the options are on every living process of the filter,
  and of the stops reported only that of `child` is open.

`EveryCallDecided` is what holds of all handlers, those without verdict included:
no call is performed that its handler denies.  `OnlyPermittedPerformedCorrect` and
`Implementation` have the hypothesis `HandlersDecide`, that every handler gives a
verdict; without it they are false, see `OnlyPermittedPerformed` above.  The refinement
is proved action by action, with `IInv` as what is known of the state a step starts from:
`Enter` and `Fork` are `Ask` and `Spawn`; `Seccomp` and `Recheck` are `Perform`, `Refuse` or
`Die`, or a stop, which is not seen; a tracer's step is not seen unless it kills.

### MemCopy

`MemCopyProofs` proves all properties of the run `memcopy` for any size of a word, any
memory and limit, any sizes and strings, and any number of assignments and of writes by
other threads.  Assumed: the limit is a multiple of the word, as `MAX_STRING_LEN` is, and
strings end with their terminator.

* `PhaseInv`, `BufInv` - the copy has as many bytes as were allocated, and no byte is
  written back that nobody has written;
* `StringInv`, `ValueInv` - a string is copied up to the first word with a terminator, a
  value up to its count of words; `CopyInv` - what was copied is what `PEEKDATA` gave;
* `SpareInv`, `ReachInv`, `ArriveInv` - the bytes behind a value are those of the process,
  write-backs stay within reach, and the words of a string written so far are in memory.

`NeighboursKept` and `FaultsExplained` are inductive only together with these.  The
lemmas before are about words: `RoundUp` is the test of `n_words % 8`, `FewerWords` and
`WordsCover` say which bytes a count of words holds.

### Driver

`DriverProofs` proves all invariants of the run `driver` for any set of policies, and any
assignment of fates to them.  Assumed: policies with a fate have checks, and the
names of a missing and a cut file are no policies.  `PassInv` says what a policy has
passed when a pass runs, `FilesInv` what the run has done to the files so far, and
`PairInv` that two whole files are of one policy except between the two writes, after an
interruption, or for a policy that writes only one: it is `PairInv`, not
`SandboxOfOnePolicy`, that is inductive.

### Assembly

`AssemblyProofs` proves `HandoversFindTheirSection` and `CallsDecidedByTheirCheck` for any policy
of compiled checks.
Assumed is `PoliciesAssumption`, described under `Assembly` above.

* `FiltersInv` - for each check compiled there is a first datum, from which its hand-overs
  are numbered, and each of these numbers leads to the block handed over to;
* `DataInv` - no datum leads anywhere else; `TableInv` - the tables are those of all data.

For the first, the rest is about the text of the tracer.  `TracerKnown` says where its labels stand: the
prologue of a check exactly once if it has tracer code and no other check has its call,
each block once and behind it, and one dispatch between.  Both it and `FiltersInv` need to
know what `FlattenSeq` yields, which the community modules define by recursion; the
induction it takes is done in `FlattenLemmas` by a least counterexample: `PartsInOrder`,
`PartOf` and `PlaceOfPart` say that the parts stand in the result one after the other and
that nothing else does.

`CallsDecidedByTheirCheck` is about the filter as well.  That no call has two checks, that offsets fit and that the check gives a verdict are hypotheses of the
property, and each is needed: see the two violations above.  The argument:

* `FinalInv` - what the filter is at each stage: nothing, the text `Joined`, and from then
  on `Resolved(Joined)`.  The rest is about this one text.
* `FilterRunIs`, `CheckRunIs` - the run of a filter and that of a check are functions at
  all.  Offsets are not negative and branches lead on, so every state has a successor of
  lower rank, and a run like that exists (`RunExists`).
* `RunsAt` and the lemmas after it - an instruction at a place of the text is at the
  address `PC` of that place, so one step of the machine goes from place to place: over a
  label, into a verdict, or, by `RunsOverJump`, behind the label that a jump names, if that
  is further on and all in all no further than an offset reaches.
* `LayoutExists`, `BodyLayoutExists`, `MarkKnown` - where the lines of each check stand in
  the text and each item in its lines; hence each label stands once, and where
  (`CheckMark`, `LastMarks`, `LocalMark`).
* `HeaderRun`, `ChainRun`, `FilterReaches` - by induction over the checks, a call gets
  through the chain to the check of its number or to the default.
* `BodyRun` - from any item of that check the filter answers what the check says from there
  on, or a datum of a hand-over with that verdict; otherwise there would be a last item of
  which this is not so.  `TracerAnswers` - for such a datum the tracer comes to the verdict
  of the block, by what is known of its tables and lines.

### Section

`SectionProofs` proves `NamesResolve` and `TransfersMatch` for any policy, any table that
satisfies `TableAssumption`, and any constant operators for expressions.  The passes run once
each, so the invariant says what each has left behind: `NamesInv` that all names are those
of parameters, `CallInv` that the call is in the table, `LifterInv` what was found out about
the parameters, `BodyInv` what is written, and `PrologueInv` the result.  `UsedKnown` is where
names and numbers meet: the prologue counts arguments, the lifter looks them up by name,
and of two parameters of one name both mean the last.  `InfoKnown` says that the entry
found by a name has it, `StringKnown` what the assumption on the table gives.

### Only model-checked

* Liveness: `Terminates`, and `EventuallyResumed`, `DenialEndsAll` and `ExitEndsSandbox` of
  `tracer_sandbox`.  It rests on fairness, hence on `ENABLED`.
* `CodeMeansCheck`, `DecidedCheckKeepsMeaning`, `LiftedOnce`, `SplitMeansCode`, all of
  `BpfCode` and `BpfGen`, and the properties of `SectionValues`: they compare recursions over syntax
  trees, nested blocks and token lists, written as `RECURSIVE` operators, or masks of bits.
* That the code of `IRGen` satisfies `ChecksAssumption`: TLC evaluates it on all checks of
  the run `codegen`.

## 5. Not modelled

The grammar of statements, printing, the type classes (`type.h` is included nowhere),
`drivLex.cpp` and the generated copy of the templates: text in and out, or dead code.
`extend` is parsed and has no effect (`policy.cpp:259` looks at checks and defaults
only).  In `FrontEnd`: values of expressions (atoms are independent) and a boolean
operator used as a number.  In `Partition`: several checks at once, which share nothing
but the numbering of return data (`Assembly`).  In `BpfCode`: the binary `~`,
hand-overs (`Assembly`).  In `Section`: more than one statement
(`CodeGen`), and what C leaves undefined (division by zero, shifts too far).  A name the
table does not have ends the compiler: `pread` of `tests/rules:41` is one, the table's is
`pread64`.  In `Tracer`: the content of memory (`MemCopy`), the registers of two
interfaces, what a signal does to a program (the loop never delivers one),
`SECCOMP_RET_TRACE` of a filter the program installs itself, and the moment between
the end of the tracer and the kernel's killing of its processes, which is one step.  In
`MemCopy`: counts of 2^31 and more, which `copy_size` makes negative, and two arguments
that overlap.  In `Driver`: the text of options, and compilers that run at the same time
on the same files.

## 6. Plan

1. Done: the modules of section 2, and the proofs of section 4.
2. `SafeX`: the state kept by the demo helpers; `Compiler`: the composition of `CodeGen`,
   `Assembly` and `Tracer`, with the registers of both interfaces.

-------------------------------- MODULE Section --------------------------------
(***************************************************************************)
(* The section of the tracer for one check: what the passes make of its    *)
(* statement, a test or an assignment, and of its parameters, with the     *)
(* types the system-call table gives them.  The split between filter and   *)
(* tracer is CodeGen's matter; here everything is lifted.  What becomes of *)
(* expressions is left to the constant operators.                          *)
(***************************************************************************)
EXTENDS Trees, FiniteSets, SequencesExt

CONSTANTS
  Inputs,           \* checks: name, parameters, and one statement as tokens
  syscall_infos,    \* the system-call table
  Grammar(_),       \* the tree of a sequence of tokens, or Error
  Variables(_),     \* the names a tree mentions
  ExprText(_),      \* the C text of a tree
  ConditionText(_)  \* the C text of a comparison

(* There is room for six types in an entry.                                *)
ASSUME InputsAssumption ==
  \A i \in Inputs : i.args \in Seq(STRING) /\ Len(i.args) <= 6 /\ i.kind \in {"test", "assign"}

-----------------------------------------------------------------------------
(* Types are the words of a declaration, and what they mean is searched in *)
(* the text.                                                               *)

(* Every "const" is erased, inside a word too.                             *)
WithoutConst(t) ==
  LET kept == SelectSeq(t, LAMBDA w : w # "const")
  IN  [n \in DOMAIN kept |-> IF kept[n] = "fconst" THEN "f" ELSE kept[n]]

IsString(t) == \E n \in 1..(Len(t) - 1) : t[n] = "char" /\ t[n + 1] = "*"
IsPointer(t) == t # <<>> /\ Last(t) = "*"

(* A number is an index; what has "char *" in it ends in an asterisk, too; *)
(* and read and write have the size of their buffer behind it.             *)
ASSUME TableAssumption ==
  /\ syscall_infos \in Seq([nr : Nat, name : STRING, num_args : 0..6, arg_types : Seq(Seq(STRING))])
  /\ \A n \in DOMAIN syscall_infos :
       LET info == syscall_infos[n]
           type(k) == WithoutConst(info.arg_types[k])
       IN  /\ info.nr = n - 1
           /\ \A k \in 1..info.num_args : IsString(type(k)) =>
                /\ IsPointer(type(k))
                /\ info.name \in {"read", "write"} => info.arg_types[k + 1] = <<"size_t">>

-----------------------------------------------------------------------------
VARIABLES
  input,     \* [name, args, kind, dst, tokens]
  stage,     \* the pass that is next, "done" or "rejected"
  tree,      \* the statement's expression
  lifter,    \* what GetArgumentsInfo found out
  body,      \* the lines lifted from the statement
  prologue   \* declarations, label and loads before them

vars == <<input, stage, tree, lifter, body, prologue>>

NoLifter == [string_args |-> {}, mem_args_size |-> <<>>, arg_types |-> <<>>, arg_index |-> <<>>]
NoPrologue == [declared |-> <<>>, label |-> "", loads |-> <<>>]

Init ==
  /\ input \in Inputs
  /\ stage = "parse"
  /\ tree = Error
  /\ lifter = NoLifter
  /\ body = <<>>
  /\ prologue = NoPrologue

-----------------------------------------------------------------------------
(* Reading the statement and looking names up *)

(* A condition that compares nothing is compared with 0.                   *)
AsCondition(t) ==
  IF t.e = "op" /\ t.op \in Comparisons THEN t ELSE Node("!=", t, Leaf(Number(0)))

Parse ==
  /\ stage = "parse"
  /\ LET read == Grammar(input.tokens)
     IN  /\ tree' = IF read # Error /\ input.kind = "test" THEN AsCondition(read) ELSE read
         /\ stage' = IF read = Error THEN "rejected" ELSE "check"
  /\ UNCHANGED <<input, lifter, body, prologue>>

Target == IF input.kind = "assign" THEN {input.dst} ELSE {}

CheckVariableUse ==
  /\ stage = "check"
  /\ stage' = IF Variables(tree) \cup Target \subseteq Range(input.args) THEN "lookup" ELSE "rejected"
  /\ UNCHANGED <<input, tree, lifter, body, prologue>>

NoCall == -1

(* syscall_name_2_nr: of two entries of one name the last one counts.      *)
SyscallNameToNr(name) ==
  LET table == syscall_infos
      named == {n \in DOMAIN table : table[n].name = name}
  IN  IF named = {} THEN NoCall ELSE syscall_infos[Max(named)].nr

LookUp ==
  /\ stage = "lookup"
  /\ stage' = IF SyscallNameToNr(input.name) = NoCall THEN "rejected" ELSE "arguments"
  /\ UNCHANGED <<input, tree, lifter, body, prologue>>

-----------------------------------------------------------------------------
(* GetArgumentsInfo *)

Info == syscall_infos[SyscallNameToNr(input.name) + 1]

(* The entry has room for six types; those past num_args are empty.        *)
ArgType(n) == IF n <= Info.num_args THEN WithoutConst(Info.arg_types[n]) ELSE <<>>

ArgIndex(x) == Max({n \in 1..Len(input.args) : input.args[n] = x})

InRegister(n) == [arg |-> n]
SizeOf(t) == [sizeof |-> t]

(* For read and write a string is the buffer, its size the next argument.  *)
Buffered == Info.name \in {"read", "write"}
MemSize(n) == IF IsString(ArgType(n)) THEN InRegister(n) ELSE SizeOf(Front(ArgType(n)))

(* Mutant: a pointer is only known by its last word being an asterisk when *)
(* its type is one word before it.                                         *)
MemArgsShort ==
  {n \in 1..Len(input.args) :
     IF IsString(ArgType(n)) THEN Buffered ELSE IsPointer(ArgType(n)) /\ Len(ArgType(n)) = 2}

(* Parameters copied as memory, numbered from one.                         *)
MemArgs ==
  {n \in 1..Len(input.args) :
     IF IsString(ArgType(n)) THEN Buffered ELSE IsPointer(ArgType(n))}

(* Where names of parameters repeat, the last of them counts, each time.   *)
Arguments ==
  LET names == Range(input.args)
      strings == {n \in 1..Len(input.args) : IsString(ArgType(n)) /\ ~Buffered}
      memory(x) == {n \in MemArgs : input.args[n] = x}
  IN  [string_args |-> {input.args[n] : n \in strings},
       mem_args_size |-> [x \in {input.args[n] : n \in MemArgs} |-> MemSize(Max(memory(x)))],
       arg_types |-> [x \in names |-> ArgType(ArgIndex(x))],
       arg_index |-> [x \in names |-> ArgIndex(x) - 1]]

GetArgumentsInfo ==
  /\ stage = "arguments"
  /\ lifter' = Arguments
  /\ stage' = "lift"
  /\ UNCHANGED <<input, tree, body, prologue>>

-----------------------------------------------------------------------------
(* Lifting the statement, and the lines before it *)

(* How a variable is fetched and put back: "string", "mem" or "register".  *)
How(x) ==
  IF x \in lifter.string_args THEN "string"
  ELSE IF x \in DOMAIN lifter.mem_args_size THEN "mem" ELSE "register"
Size(x) == IF How(x) = "mem" THEN lifter.mem_args_size[x] ELSE <<>>
Transfer(x, n) == [var |-> x, how |-> How(x), arg |-> n, size |-> Size(x)]

(* Mutant: the register named is one too high.                             *)
PutBackNext(x) == Transfer(x, lifter.arg_index[x] + 1)

PutBack(x) == Transfer(x, lifter.arg_index[x])

(* An assignment is written as a line and then put back; SET_ARG repeats   *)
(* the expression.                                                         *)
LiftStatement ==
  /\ stage = "lift"
  /\ body' = IF input.kind = "test" THEN <<[c |-> "if", text |-> ConditionText(tree)]>>
             ELSE <<[c |-> "=", var |-> input.dst, text |-> ExprText(tree)],
                    [c |-> "back", to |-> PutBack(input.dst), text |-> ExprText(tree)]>>
  /\ stage' = "prologue"
  /\ UNCHANGED <<input, tree, lifter, prologue>>

(* Mutant: an argument that is only assigned counts as used.               *)
ArgsUsedOrAssigned == {lifter.arg_index[x] : x \in Variables(tree) \cup Target}

(* Assigned arguments are collected too, and not looked at.                *)
ArgsUsed == {lifter.arg_index[x] : x \in Variables(tree)}

(* What is declared and loaded, by the number of the argument.             *)
Prologue ==
  LET used == ArgsUsed \cap 0..(Info.num_args - 1)
      var(i) == input.args[i + 1]
  IN  [declared |-> [i \in used |-> [var |-> var(i), type |-> lifter.arg_types[var(i)]]],
       label |-> Info.name,
       loads |-> [i \in used |-> Transfer(var(i), i)]]

GenPtracePrologue ==
  /\ stage = "prologue"
  /\ prologue' = Prologue
  /\ stage' = "done"
  /\ UNCHANGED <<input, tree, lifter, body>>

Next ==
  \/ Parse \/ CheckVariableUse \/ LookUp \/ GetArgumentsInfo
  \/ LiftStatement \/ GenPtracePrologue

Spec == Init /\ [][Next]_vars

-----------------------------------------------------------------------------
(* The section written *)

Done == stage = "done"
Declared == {d.var : d \in {q \in Range(prologue.declared) : q.type # <<>>}}
Written == {line.var : line \in {q \in Range(body) : q.c = "="}}

-----------------------------------------------------------------------------
(* Properties *)

(* The names of the generated C resolve.  Its label, made of the name in   *)
(* the entry that the policy's name led to, is the one the start table     *)
(* makes of the policy's name (policy.cpp:152).  It names a variable it    *)
(* does not declare exactly when the argument is assigned and never read,  *)
(* lies past the arguments the table knows, or has no type there           *)
(* (code_gen.cpp:218).                                                     *)
NamesResolve ==
  Done =>
    /\ prologue.label = input.name
    /\ \A x \in Variables(tree) \cup Written :
         x \notin Declared <=> \/ x \notin Variables(tree)
                               \/ lifter.arg_index[x] >= Info.num_args
                               \/ lifter.arg_types[x] = <<>>

(* What moves between tracer and process fits the call.  A variable with a *)
(* name of its own is copied from memory exactly when the table makes it a *)
(* pointer; a size taken from a register is that of a size argument; and   *)
(* what is put back goes where it was read, in the same way and with the   *)
(* same size (code_gen.cpp:164, IR_lifter.cpp:141).                        *)
TransfersMatch ==
  Done => \A n \in DOMAIN prologue.loads :
    LET load == prologue.loads[n]
    IN  /\ IsInjective(input.args) =>
             (load.how # "register" <=> IsPointer(prologue.declared[n].type))
        /\ "arg" \in DOMAIN load.size => Info.arg_types[load.size.arg + 1] = <<"size_t">>
        /\ load.var \in Written => body[2].to = load
=============================================================================

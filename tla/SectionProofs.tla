---------------------------- MODULE SectionProofs ----------------------------
(***************************************************************************)
(* Proofs about Section, for any table of system calls, any policy and     *)
(* whatever becomes of expressions: names of the generated C resolve, and  *)
(* what moves between tracer and process fits the call.                    *)
(***************************************************************************)
EXTENDS Section, FlattenLemmas

-----------------------------------------------------------------------------
(* The invariant *)

(* The names have passed CheckVariableUse.                                 *)
NamesInv ==
  stage \in {"lookup", "arguments", "lift", "prologue", "done"} =>
    Variables(tree) \cup Target \subseteq Range(input.args)

(* The call is in the table.                                               *)
CallInv ==
  stage \in {"arguments", "lift", "prologue", "done"} => SyscallNameToNr(input.name) # NoCall

(* What GetArgumentsInfo has found out stays.                              *)
LifterInv == stage \in {"lift", "prologue", "done"} => lifter = Arguments

(* Only the target is written, and put back behind the line that does it.  *)
BodyInv ==
  stage \in {"prologue", "done"} =>
    Written \subseteq Target /\ (Target # {} => body[2].to = PutBack(input.dst))

PrologueInv == stage = "done" => prologue = Prologue

IInv ==
  /\ input \in Inputs
  /\ stage \in {"parse", "check", "lookup", "arguments", "lift", "prologue", "done", "rejected"}
  /\ NamesInv /\ CallInv /\ LifterInv /\ BodyInv /\ PrologueInv

-----------------------------------------------------------------------------
(* Steps *)

(* What is derived from the input alone stays.                             *)
LEMMA SameInput ==
  ASSUME input' = input
  PROVE  /\ Target' = Target /\ SyscallNameToNr(input.name)' = SyscallNameToNr(input.name)
         /\ Info' = Info /\ Arguments' = Arguments
<1>1. Target' = Target /\ SyscallNameToNr(input.name)' = SyscallNameToNr(input.name)
  BY DEF Target, SyscallNameToNr
<1>2. Info' = Info
  BY <1>1 DEF Info
<1>3. \A n : ArgType(n)' = ArgType(n)
  BY <1>2 DEF ArgType
<1>4. \A x : ArgIndex(x)' = ArgIndex(x)
  BY DEF ArgIndex
<1>5. Buffered' = Buffered
  BY <1>2 DEF Buffered
<1>6. MemArgs' = MemArgs
  BY <1>3, <1>5 DEF MemArgs
<1>7. \A n : MemSize(n)' = MemSize(n)
  BY <1>3 DEF MemSize
<1>8. Arguments' = Arguments
  BY <1>3, <1>4, <1>5, <1>6, <1>7 DEF Arguments
<1> QED BY <1>1, <1>2, <1>8

(* What is derived from the input and what was found out stays.            *)
LEMMA SameLifter ==
  ASSUME UNCHANGED <<input, tree, lifter>>
  PROVE  Prologue' = Prologue /\ PutBack(input.dst)' = PutBack(input.dst)
<1>1. Info' = Info
  BY SameInput
<1>2. \A x, n : Transfer(x, n)' = Transfer(x, n)
  BY DEF Transfer, How, Size
<1>3. ArgsUsed' = ArgsUsed
  BY DEF ArgsUsed
<1>4. Prologue' = Prologue
  BY <1>1, <1>2, <1>3 DEF Prologue
<1>5. PutBack(input.dst)' = PutBack(input.dst)
  BY <1>2 DEF PutBack
<1> QED BY <1>4, <1>5

(* The lines lifted from a statement.                                      *)
LEMMA LinesLifted ==
  ASSUME IInv, LiftStatement
  PROVE  Written' \subseteq Target /\ (Target # {} => body'[2].to = PutBack(input.dst))
<1>1. input.kind \in {"test", "assign"}
  BY InputsAssumption DEF IInv
<1>2. CASE input.kind = "test"
  <2>1. Range(body)' = {[c |-> "if", text |-> ConditionText(tree)]}
    <3>1. body' = <<[c |-> "if", text |-> ConditionText(tree)]>>
      BY <1>2 DEF LiftStatement
    <3> QED BY <3>1 DEF Range
  <2>2. Written' = {}
    BY <2>1 DEF Written
  <2> QED BY <1>2, <2>2 DEF Target
<1>3. CASE input.kind = "assign"
  <2> DEFINE line == [c |-> "=", var |-> input.dst, text |-> ExprText(tree)]
             back == [c |-> "back", to |-> PutBack(input.dst), text |-> ExprText(tree)]
  <2>1. body' = <<line, back>>
    BY <1>3 DEF LiftStatement
  <2>2. Range(body)' = {line, back}
    BY <2>1 DEF Range
  <2>3. Written' = {input.dst}
    <3>1. line.c = "=" /\ back.c # "=" /\ line.var = input.dst
      OBVIOUS
    <3> HIDE DEF line, back
    <3> QED BY <2>2, <3>1 DEF Written
  <2>4. body'[2].to = PutBack(input.dst)
    BY <2>1
  <2> QED BY <1>3, <2>3, <2>4 DEF Target
<1> QED BY <1>1, <1>2, <1>3

(* The invariant holds of the passes' results and is kept by every pass.   *)
THEOREM InductiveInvariant == Spec => []IInv
<1>1. Init => IInv
  BY DEF Init, IInv, NamesInv, CallInv, LifterInv, BodyInv, PrologueInv
<1>2. IInv /\ [Next]_vars => IInv'
  <2> SUFFICES ASSUME IInv, [Next]_vars PROVE IInv'
    OBVIOUS
  <2>1. CASE Parse
    <3>1. /\ input' = input /\ stage' \in {"rejected", "check"}
      BY <2>1 DEF Parse
    <3> QED BY <3>1 DEF IInv, NamesInv, CallInv, LifterInv, BodyInv, PrologueInv
  <2>2. CASE CheckVariableUse
    <3>1. /\ input' = input /\ tree' = tree /\ stage' \in {"rejected", "lookup"}
          /\ stage' = "lookup" => Variables(tree) \cup Target \subseteq Range(input.args)
      BY <2>2 DEF CheckVariableUse
    <3>2. Target' = Target
      BY <3>1, SameInput
    <3>3. NamesInv'
      BY <3>1, <3>2 DEF NamesInv
    <3> QED BY <3>1, <3>3 DEF IInv, CallInv, LifterInv, BodyInv, PrologueInv
  <2>3. CASE LookUp
    <3>1. /\ input' = input /\ tree' = tree /\ stage = "lookup" /\ stage' \in {"rejected", "arguments"}
          /\ stage' = "arguments" => SyscallNameToNr(input.name) # NoCall
      BY <2>3 DEF LookUp
    <3>2. Target' = Target /\ SyscallNameToNr(input.name)' = SyscallNameToNr(input.name)
      BY <3>1, SameInput
    <3>3. NamesInv'
      BY <3>1, <3>2 DEF IInv, NamesInv
    <3>4. CallInv'
      BY <3>1, <3>2 DEF CallInv, NoCall
    <3> QED BY <3>1, <3>3, <3>4 DEF IInv, LifterInv, BodyInv, PrologueInv
  <2>4. CASE GetArgumentsInfo
    <3>1. /\ input' = input /\ tree' = tree /\ stage = "arguments" /\ stage' = "lift" /\ lifter' = Arguments
      BY <2>4 DEF GetArgumentsInfo
    <3>2. Target' = Target /\ SyscallNameToNr(input.name)' = SyscallNameToNr(input.name) /\ Arguments' = Arguments
      BY <3>1, SameInput
    <3>3. NamesInv'
      BY <3>1, <3>2 DEF IInv, NamesInv
    <3>4. CallInv'
      BY <3>1, <3>2 DEF IInv, CallInv, NoCall
    <3>5. LifterInv'
      BY <3>1, <3>2 DEF LifterInv
    <3> QED BY <3>1, <3>3, <3>4, <3>5 DEF IInv, BodyInv, PrologueInv
  <2>5. CASE LiftStatement
    <3>1. /\ UNCHANGED <<input, tree, lifter>> /\ stage = "lift" /\ stage' = "prologue"
      BY <2>5 DEF LiftStatement
    <3>2. Target' = Target /\ SyscallNameToNr(input.name)' = SyscallNameToNr(input.name) /\ Arguments' = Arguments
          /\ PutBack(input.dst)' = PutBack(input.dst)
      BY <3>1, SameInput, SameLifter
    <3>3. NamesInv'
      BY <3>1, <3>2 DEF IInv, NamesInv
    <3>4. CallInv'
      BY <3>1, <3>2 DEF IInv, CallInv, NoCall
    <3>5. LifterInv'
      BY <3>1, <3>2 DEF IInv, LifterInv
    <3>6. BodyInv'
      BY <2>5, <3>2, LinesLifted DEF BodyInv
    <3> QED BY <3>1, <3>3, <3>4, <3>5, <3>6 DEF IInv, PrologueInv
  <2>6. CASE GenPtracePrologue \/ UNCHANGED vars
    <3>1. /\ UNCHANGED <<input, tree, lifter, body>>
          /\ \/ stage = "prologue" /\ stage' = "done" /\ prologue' = Prologue
             \/ stage' = stage /\ prologue' = prologue
      BY <2>6 DEF GenPtracePrologue, vars
    <3>2. Target' = Target /\ SyscallNameToNr(input.name)' = SyscallNameToNr(input.name) /\ Arguments' = Arguments
          /\ PutBack(input.dst)' = PutBack(input.dst) /\ Prologue' = Prologue
      BY <3>1, SameInput, SameLifter
    <3>3. NamesInv'
      BY <3>1, <3>2 DEF IInv, NamesInv
    <3>4. CallInv'
      BY <3>1, <3>2 DEF IInv, CallInv, NoCall
    <3>5. LifterInv'
      BY <3>1, <3>2 DEF IInv, LifterInv
    <3>6. BodyInv'
      <4>1. Written' = Written
        BY <3>1 DEF Written
      <4> QED BY <3>1, <3>2, <4>1 DEF IInv, BodyInv
    <3>7. PrologueInv'
      BY <3>1, <3>2 DEF IInv, PrologueInv
    <3> QED BY <3>1, <3>3, <3>4, <3>5, <3>6, <3>7 DEF IInv
  <2> QED BY <2>1, <2>2, <2>3, <2>4, <2>5, <2>6 DEF Next
<1> QED BY <1>1, <1>2, PTL DEF Spec

-----------------------------------------------------------------------------
(* What is looked up *)

(* The maximum of numbers that do not exceed N.                            *)
LEMMA MaxKnown ==
  ASSUME NEW N \in Nat, NEW S, S \subseteq 0..N, S # {}
  PROVE  Max(S) \in S
<1> DEFINE T == {N - x : x \in S}
<1>1. T \subseteq Nat /\ T # {}
  <2>1. \A x \in 0..N : N - x \in Nat
    OBVIOUS
  <2>2. \A x \in S : N - x \in Nat
    BY <2>1
  <2> QED BY <2>2
<1>2. PICK z \in T : \A y \in T : z <= y
  <2> HIDE DEF T
  <2> QED BY <1>1, Least
<1>3. PICK x \in S : z = N - x
  BY <1>2
<1>4. \A y \in S : x >= y
  <2> SUFFICES ASSUME NEW y \in S PROVE x >= y
    OBVIOUS
  <2>1. N - x <= N - y
    BY <1>2, <1>3
  <2>2. x \in 0..N /\ y \in 0..N
    BY <1>3
  <2> QED BY <2>1, <2>2
<1> QED BY <1>4 DEF Max

(* The arguments of an entry are counted.                                  *)
LEMMA RowsKnown ==
  ASSUME NEW n \in DOMAIN syscall_infos
  PROVE  syscall_infos[n].num_args \in Nat
<1> DEFINE Rows == [nr : Nat, name : STRING, num_args : 0..6, arg_types : Seq(Seq(STRING))]
<1>1. syscall_infos \in Seq(Rows)
  BY TableAssumption
<1>2. syscall_infos[n] \in Rows
  <2> HIDE DEF Rows
  <2>1. DOMAIN syscall_infos = 1..Len(syscall_infos) /\ \A k \in 1..Len(syscall_infos) : syscall_infos[k] \in Rows
    BY <1>1
  <2> QED BY <2>1
<1>3. syscall_infos[n].num_args \in 0..6
  BY <1>2
<1> QED BY <1>3

(* The entry found is one of the call's name.                              *)
LEMMA InfoKnown ==
  ASSUME SyscallNameToNr(input.name) # NoCall
  PROVE  \E n \in DOMAIN syscall_infos : Info = syscall_infos[n] /\ Info.name = input.name
<1> DEFINE named == {n \in DOMAIN syscall_infos : syscall_infos[n].name = input.name}
           N == Len(syscall_infos)
<1>1. N \in Nat /\ DOMAIN syscall_infos = 1..N
  BY TableAssumption
<1>2. named # {} /\ SyscallNameToNr(input.name) = syscall_infos[Max(named)].nr
  BY DEF SyscallNameToNr
<1>3. named \subseteq 0..N
  BY <1>1
<1>4. Max(named) \in named
  <2> HIDE DEF named, N
  <2> QED BY <1>1, <1>2, <1>3, MaxKnown
<1>5. PICK n \in DOMAIN syscall_infos : n = Max(named) /\ syscall_infos[n].name = input.name
  BY <1>4
<1>6. syscall_infos[n].nr = n - 1 /\ n \in Nat
  BY <1>1, <1>5, TableAssumption
<1>7. SyscallNameToNr(input.name) + 1 = n
  BY <1>2, <1>5, <1>6
<1> QED BY <1>5, <1>7 DEF Info

(* The index of a parameter is a place of its name.                        *)
LEMMA ArgIndexKnown ==
  ASSUME input \in Inputs, NEW x \in Range(input.args)
  PROVE  ArgIndex(x) \in 1..Len(input.args) /\ input.args[ArgIndex(x)] = x
<1> DEFINE places == {n \in 1..Len(input.args) : input.args[n] = x}
<1>1. input.args \in Seq(STRING)
  BY InputsAssumption
<1>2. Len(input.args) \in Nat /\ DOMAIN input.args = 1..Len(input.args)
  BY <1>1
<1>3. places # {} /\ places \subseteq 0..Len(input.args)
  BY <1>2 DEF Range
<1>4. Max(places) \in places
  <2> HIDE DEF places
  <2> QED BY <1>2, <1>3, MaxKnown
<1> QED BY <1>4 DEF ArgIndex

(* An argument used is one of the last with its name: what is kept by its  *)
(* name and what is kept by its number belong together.                    *)
LEMMA UsedKnown ==
  ASSUME IInv, stage \in {"prologue", "done"}, NEW i \in ArgsUsed
  PROVE  /\ i + 1 \in 1..Len(input.args) /\ input.args[i + 1] \in Variables(tree)
         /\ input.args[i + 1] \in Range(input.args)
         /\ lifter.arg_index[input.args[i + 1]] = i
         /\ lifter.arg_types[input.args[i + 1]] = ArgType(i + 1)
<1>1. PICK x \in Variables(tree) : i = lifter.arg_index[x]
  BY DEF ArgsUsed
<1>2. x \in Range(input.args) /\ input \in Inputs /\ lifter = Arguments
  BY DEF IInv, NamesInv, LifterInv
<1>3. lifter.arg_index[x] = ArgIndex(x) - 1 /\ lifter.arg_types[x] = ArgType(ArgIndex(x))
  BY <1>2 DEF Arguments
<1>4. ArgIndex(x) \in 1..Len(input.args) /\ input.args[ArgIndex(x)] = x
  BY <1>2, ArgIndexKnown
<1>5. Len(input.args) \in Nat
  BY <1>2, InputsAssumption
<1>6. i + 1 = ArgIndex(x)
  BY <1>1, <1>3, <1>4, <1>5
<1> QED BY <1>1, <1>2, <1>3, <1>4, <1>6

-----------------------------------------------------------------------------
(* Types and sizes *)

(* A string is one of the arguments the table knows, hence a pointer, and  *)
(* a buffer has its size behind it.                                        *)
LEMMA StringKnown ==
  ASSUME SyscallNameToNr(input.name) # NoCall, NEW k \in Nat \ {0}, IsString(ArgType(k))
  PROVE  IsPointer(ArgType(k)) /\ (Buffered => Info.arg_types[k + 1] = <<"size_t">>)
<1>1. PICK n \in DOMAIN syscall_infos : Info = syscall_infos[n]
  BY InfoKnown
<1>2. ~IsString(<<>>)
  BY DEF IsString
<1>3. k <= Info.num_args /\ ArgType(k) = WithoutConst(Info.arg_types[k])
  BY <1>2 DEF ArgType
<1>4. \A j \in 1..Info.num_args : IsString(WithoutConst(Info.arg_types[j])) =>
        /\ IsPointer(WithoutConst(Info.arg_types[j]))
        /\ Info.name \in {"read", "write"} => Info.arg_types[j + 1] = <<"size_t">>
  <2>1. \A i \in DOMAIN syscall_infos : \A j \in 1..syscall_infos[i].num_args :
          IsString(WithoutConst(syscall_infos[i].arg_types[j])) =>
            /\ IsPointer(WithoutConst(syscall_infos[i].arg_types[j]))
            /\ syscall_infos[i].name \in {"read", "write"} => syscall_infos[i].arg_types[j + 1] = <<"size_t">>
    BY TableAssumption
  <2> QED BY <1>1, <2>1
<1>5. k \in 1..Info.num_args
  <2>1. Info.num_args \in Nat
    BY <1>1, RowsKnown
  <2> QED BY <1>3, <2>1
<1> QED BY <1>3, <1>4, <1>5 DEF Buffered

(* Under a name of its own an argument goes through memory if it points.   *)
LEMMA HowKnown ==
  ASSUME IInv, stage = "done", IsInjective(input.args), NEW k \in 1..Len(input.args)
  PROVE  How(input.args[k]) # "register" <=> IsPointer(ArgType(k))
<1> DEFINE x == input.args[k]
<1>1. lifter = Arguments /\ SyscallNameToNr(input.name) # NoCall /\ input.args \in Seq(STRING)
  BY InputsAssumption DEF IInv, LifterInv, CallInv
<1>2. DOMAIN input.args = 1..Len(input.args) /\ Len(input.args) \in Nat
  BY <1>1
<1>3. \A n \in 1..Len(input.args) : input.args[n] = x => n = k
  BY <1>2 DEF IsInjective
<1>4. x \in lifter.string_args <=> IsString(ArgType(k)) /\ ~Buffered
  <2>1. lifter.string_args =
          {input.args[n] : n \in {j \in 1..Len(input.args) : IsString(ArgType(j)) /\ ~Buffered}}
    BY <1>1 DEF Arguments
  <2> QED BY <1>3, <2>1
<1>5. x \in DOMAIN lifter.mem_args_size <=> k \in MemArgs
  <2>1. DOMAIN lifter.mem_args_size = {input.args[n] : n \in MemArgs}
    BY <1>1 DEF Arguments
  <2>2. MemArgs \subseteq 1..Len(input.args)
    BY DEF MemArgs
  <2> QED BY <1>3, <2>1, <2>2
<1>6. k \in MemArgs <=> IF IsString(ArgType(k)) THEN Buffered ELSE IsPointer(ArgType(k))
  BY DEF MemArgs
<1>7. IsString(ArgType(k)) => IsPointer(ArgType(k))
  BY <1>1, <1>2, StringKnown
<1>8. How(x) # "register" <=> x \in lifter.string_args \/ x \in DOMAIN lifter.mem_args_size
  BY DEF How
<1> QED BY <1>4, <1>5, <1>6, <1>7, <1>8

(* A size that is an argument is one of the type of sizes.                 *)
LEMMA SizeKnown ==
  ASSUME IInv, stage = "done", NEW x, "arg" \in DOMAIN Size(x)
  PROVE  Info.arg_types[Size(x).arg + 1] = <<"size_t">>
<1>1. lifter = Arguments /\ SyscallNameToNr(input.name) # NoCall /\ input.args \in Seq(STRING)
  BY InputsAssumption DEF IInv, LifterInv, CallInv
<1>2. Len(input.args) \in Nat
  BY <1>1
<1> DEFINE memory == {n \in MemArgs : input.args[n] = x}
<1>3. How(x) = "mem" /\ Size(x) = lifter.mem_args_size[x] /\ x \in DOMAIN lifter.mem_args_size
  <2>1. DOMAIN <<>> = {}
    OBVIOUS
  <2>2. How(x) = "mem"
    BY <2>1 DEF Size
  <2> QED BY <2>2 DEF Size, How
<1>4. x \in {input.args[n] : n \in MemArgs} /\ Size(x) = MemSize(Max(memory))
  BY <1>1, <1>3 DEF Arguments
<1>5. memory \subseteq 0..Len(input.args) /\ memory # {} /\ MemArgs \subseteq 1..Len(input.args)
  BY <1>2, <1>4 DEF MemArgs
<1>6. PICK m : m = Max(memory)
  OBVIOUS
<1>7. m \in MemArgs
  <2>1. Max(memory) \in memory
    <3> HIDE DEF memory
    <3> QED BY <1>2, <1>5, MaxKnown
  <2> QED BY <1>6, <2>1
<1>8. IsString(ArgType(m)) /\ Size(x).arg = m
  <2>1. \A s : "arg" \notin DOMAIN SizeOf(s)
    BY DEF SizeOf
  <2>2. InRegister(m).arg = m
    BY DEF InRegister
  <2> QED BY <1>4, <1>6, <2>1, <2>2 DEF MemSize
<1>9. Buffered /\ m \in Nat \ {0}
  BY <1>2, <1>5, <1>7, <1>8 DEF MemArgs
<1> QED BY <1>1, <1>8, <1>9, StringKnown

-----------------------------------------------------------------------------
(* Theorems *)

(* The generated section has the label the start table refers to, and says *)
(* which names it leaves undeclared: for any table whose numbers are its   *)
(* indices, and any policy and expressions.                                *)
THEOREM NamesResolveCorrect == Spec => []NamesResolve
<1>1. ASSUME IInv PROVE NamesResolve
  <2> SUFFICES ASSUME stage = "done" PROVE
        /\ prologue.label = input.name
        /\ \A x \in Variables(tree) \cup Written :
             x \notin Declared <=> \/ x \notin Variables(tree)
                                   \/ lifter.arg_index[x] >= Info.num_args
                                   \/ lifter.arg_types[x] = <<>>
    BY DEF NamesResolve, Done
  <2>1. prologue = Prologue /\ lifter = Arguments /\ input \in Inputs
    BY <1>1 DEF IInv, PrologueInv, LifterInv
  <2>2. PICK n \in DOMAIN syscall_infos : Info = syscall_infos[n] /\ Info.name = input.name
    BY <1>1, InfoKnown DEF IInv, CallInv
  <2>3. Info.num_args \in Nat
    BY <2>2, RowsKnown
  <2> DEFINE used == ArgsUsed \cap 0..(Info.num_args - 1)
             d == [i \in used |-> [var |-> input.args[i + 1], type |-> lifter.arg_types[input.args[i + 1]]]]
  <2>4. prologue.label = input.name /\ prologue.declared = d
    BY <2>1, <2>2 DEF Prologue
  <2>5. \A x : x \in Declared <=>
                 \E i \in used : x = input.args[i + 1] /\ lifter.arg_types[input.args[i + 1]] # <<>>
    <3>1. Range(prologue.declared) =
            {[var |-> input.args[i + 1], type |-> lifter.arg_types[input.args[i + 1]]] : i \in used}
      BY <2>4 DEF Range
    <3> DEFINE both(i) == [var |-> input.args[i + 1], type |-> lifter.arg_types[input.args[i + 1]]]
    <3>2. \A i : both(i).var = input.args[i + 1] /\ both(i).type = lifter.arg_types[input.args[i + 1]]
      OBVIOUS
    <3>3. Range(prologue.declared) = {both(i) : i \in used}
      BY <3>1
    <3> HIDE DEF used, d, both
    <3> QED BY <3>2, <3>3 DEF Declared
  <2>6. ASSUME NEW x \in Declared
        PROVE  x \in Variables(tree) /\ lifter.arg_index[x] < Info.num_args /\ lifter.arg_types[x] # <<>>
    <3>1. PICK i \in used : x = input.args[i + 1] /\ lifter.arg_types[input.args[i + 1]] # <<>>
      BY <2>5
    <3>2. x \in Variables(tree) /\ lifter.arg_index[x] = i
      BY <1>1, <3>1, UsedKnown
    <3> QED BY <2>3, <3>1, <3>2
  <2>7. ASSUME NEW x \in Variables(tree), ~(lifter.arg_index[x] >= Info.num_args), lifter.arg_types[x] # <<>>
        PROVE  x \in Declared
    <3>1. x \in Range(input.args)
      BY <1>1 DEF IInv, NamesInv
    <3>2. ArgIndex(x) \in 1..Len(input.args) /\ input.args[ArgIndex(x)] = x /\ Len(input.args) \in Nat
      BY <2>1, <3>1, ArgIndexKnown, InputsAssumption
    <3>3. lifter.arg_index[x] = ArgIndex(x) - 1
      BY <2>1, <3>1 DEF Arguments
    <3>4. PICK i : i = lifter.arg_index[x]
      OBVIOUS
    <3>5. i \in ArgsUsed /\ i \in Nat /\ i + 1 = ArgIndex(x) /\ i < Info.num_args
      BY <2>3, <2>7, <3>2, <3>3, <3>4 DEF ArgsUsed
    <3>6. i \in used /\ input.args[i + 1] = x
      BY <2>3, <3>2, <3>5
    <3> QED BY <2>5, <2>7, <3>6
  <2>8. \A x \in Declared : ~(lifter.arg_index[x] >= Info.num_args)
    <3> SUFFICES ASSUME NEW x \in Declared PROVE ~(lifter.arg_index[x] >= Info.num_args)
      OBVIOUS
    <3>1. PICK i \in used : x = input.args[i + 1]
      BY <2>5
    <3>2. lifter.arg_index[x] = i
      BY <1>1, <3>1, UsedKnown
    <3> QED BY <2>3, <3>1, <3>2
  <2> QED BY <2>4, <2>6, <2>7, <2>8
<1> QED BY <1>1, InductiveInvariant, PTL

(* What is read and put back fits the call, and each other: for any table  *)
(* in which strings are pointers and buffers have their size behind them.  *)
THEOREM TransfersMatchCorrect == Spec => []TransfersMatch
<1>1. ASSUME IInv PROVE TransfersMatch
  <2> SUFFICES ASSUME stage = "done", NEW n \in DOMAIN prologue.loads
      PROVE  LET load == prologue.loads[n]
             IN  /\ IsInjective(input.args) =>
                      (load.how # "register" <=> IsPointer(prologue.declared[n].type))
                 /\ "arg" \in DOMAIN load.size => Info.arg_types[load.size.arg + 1] = <<"size_t">>
                 /\ load.var \in Written => body[2].to = load
    BY DEF TransfersMatch, Done
  <2>1. PICK x : x = input.args[n + 1]
    OBVIOUS
  <2>2. /\ n \in ArgsUsed /\ prologue.loads[n] = Transfer(x, n)
        /\ prologue.declared[n].type = lifter.arg_types[x]
    <3>1. prologue = Prologue
      BY <1>1 DEF IInv, PrologueInv
    <3>2. n \in ArgsUsed \cap 0..(Info.num_args - 1)
      BY <3>1 DEF Prologue
    <3> QED BY <2>1, <3>1, <3>2 DEF Prologue
  <2>3. n + 1 \in 1..Len(input.args) /\ lifter.arg_index[x] = n /\ lifter.arg_types[x] = ArgType(n + 1)
    BY <1>1, <2>1, <2>2, UsedKnown
  <2> DEFINE load == prologue.loads[n]
  <2>4. load.var = x /\ load.how = How(x) /\ load.size = Size(x)
    BY <2>2 DEF Transfer
  <2>5. IsInjective(input.args) => (How(x) # "register" <=> IsPointer(ArgType(n + 1)))
    BY <1>1, <2>1, <2>3, HowKnown
  <2>6. "arg" \in DOMAIN Size(x) => Info.arg_types[Size(x).arg + 1] = <<"size_t">>
    BY <1>1, SizeKnown
  <2>7. ASSUME x \in Written PROVE body[2].to = load
    <3>1. Written \subseteq Target /\ (Target # {} => body[2].to = PutBack(input.dst))
      BY <1>1 DEF IInv, BodyInv
    <3>2. x = input.dst /\ body[2].to = PutBack(x)
      BY <2>7, <3>1 DEF Target
    <3> QED BY <2>2, <2>3, <3>2 DEF PutBack
  <2> QED BY <2>2, <2>3, <2>4, <2>5, <2>6, <2>7
<1> QED BY <1>1, InductiveInvariant, PTL
=============================================================================

------------------------------ MODULE DriverProofs -----------------------------
(***************************************************************************)
(* Proofs about Driver, for any policies and any number of errors: what a  *)
(* run, finished, refused, failed or killed, leaves in the two files, and  *)
(* what a sandbox built from them consists of.                             *)
(***************************************************************************)
EXTENDS Driver, TLAPS

-----------------------------------------------------------------------------
(* The inductive invariant *)

(* The policy of a running compiler has passed the passes before.          *)
Read(p) == p \in Policies /\ Errors[p] = 0 /\ p \notin ArgsLost

PassInv ==
  /\ pc = "parse" => policy = None
  /\ pc \in {"IRGen", "CodeGen"} => Read(policy)
  /\ pc = "CodeGen" => policy \notin Undeclared
  /\ pc \in {"BPFCodeGen", "bpf_write", "PtraceCodeGen", "ptrace_write"} => Acceptable(policy)
  /\ pc = "bpf_write" => policy \in Checking
  /\ pc = "ptrace_write" => policy \in Tracing

(* The filter's file after the run has got past it.                        *)
FilterDone == bpf_file \in IF policy \in Checking THEN {policy, Cut} ELSE {begun[1]}

(* A running compiler has changed no file it has not come to.              *)
FilesInv ==
  /\ pc \in {"parse", "IRGen", "CodeGen", "BPFCodeGen"} => files = begun
  /\ pc = "bpf_write" => bpf_file = Cut /\ ptrace_file = begun[2]
  /\ pc = "PtraceCodeGen" => FilterDone /\ ptrace_file = begun[2]
  /\ pc = "ptrace_write" => FilterDone /\ ptrace_file = Cut

(* Two whole files come from one policy, except between the files of one   *)
(* that needs both.                                                        *)
PairInv ==
  \/ pc = "PtraceCodeGen" /\ policy \in Tracing
  \/ bpf_file \in Policies /\ ptrace_file \in Policies =>
       ptrace_file = bpf_file \/ bpf_file \notin Tracing \/ torn

IInv ==
  /\ TypeOK /\ PassInv /\ OnlyAcceptedWritten
  /\ FilesInv /\ StatusMeansFiles
  /\ PairInv /\ SandboxOfOnePolicy

-----------------------------------------------------------------------------
(* Steps of the compiler *)

(* No file exists before the first run, and nothing was built.             *)
LEMMA InitInvariant == Init => IInv
<1> SUFFICES ASSUME Init PROVE IInv
  OBVIOUS
<1> USE NamesAssumption DEF Init, NoSandbox, files, Missing, Cut, None, Never, Running
<1>0. torn \in BOOLEAN
  OBVIOUS
<1>1. TypeOK
  BY <1>0 DEF TypeOK
<1>2. PassInv /\ OnlyAcceptedWritten
  BY DEF PassInv, OnlyAcceptedWritten
<1>3. FilesInv /\ StatusMeansFiles
  BY DEF FilesInv, StatusMeansFiles
<1>4. PairInv /\ SandboxOfOnePolicy
  BY DEF PairInv, SandboxOfOnePolicy
<1> QED BY <1>1, <1>2, <1>3, <1>4 DEF IInv

(* Up to the end of code generation a run touches no file: it goes to the  *)
(* next pass with a policy that passed, or ends.                           *)
LEMMA PassStep ==
  ASSUME IInv, Start \/ StartWithoutFile \/ CannotRead \/ Parse \/ IRGen \/ CodeGen
  PROVE  IInv'
<1> USE NamesAssumption DEF IInv, TypeOK, PassInv, OnlyAcceptedWritten, FilesInv, StatusMeansFiles, PairInv,
        SandboxOfOnePolicy, files, world, Missing, Cut, None, Never, Running, Acceptable, Read,
        Refused, Aborted, Crashed, Exit, Go, Killed, FilterDone
<1>1. CASE Start \/ StartWithoutFile
  BY <1>1 DEF Start, StartWithoutFile
<1>2. CASE CannotRead
  BY <1>2 DEF CannotRead
<1>3. CASE Parse
  BY <1>3, ErrorsAssumption, PoliciesAssumption DEF Parse, ErrorsFound
<1>4. CASE IRGen
  BY <1>4 DEF IRGen
<1>5. CASE CodeGen
  BY <1>5 DEF CodeGen, NotInTable
<1> QED BY <1>1, <1>2, <1>3, <1>4, <1>5

(* The filter is written first: until the run has come to the tracer's     *)
(* file, that one is of an earlier policy.                                 *)
LEMMA FilterStep ==
  ASSUME IInv, OpenBpf \/ SkipBpf \/ WriteBpf
  PROVE  IInv'
<1> USE NamesAssumption DEF IInv, TypeOK, PassInv, OnlyAcceptedWritten, FilesInv, StatusMeansFiles, PairInv,
        SandboxOfOnePolicy, files, world, Missing, Cut, None, Never, Running, Acceptable, Read,
        Refused, Aborted, Crashed, Exit, Go, Killed, FilterDone
<1>1. CASE OpenBpf
  BY <1>1 DEF OpenBpf, WritesFilter
<1>2. CASE SkipBpf
  BY <1>2, PoliciesAssumption DEF SkipBpf, WritesFilter
<1>3. CASE WriteBpf
  BY <1>3, PoliciesAssumption DEF WriteBpf
<1> QED BY <1>1, <1>2, <1>3

(* The tracer is written last, and the two files are one policy's again;   *)
(* or the run ends before, and is torn.                                    *)
LEMMA TracerStep ==
  ASSUME IInv, OpenPtrace \/ SkipPtrace \/ WritePtrace
  PROVE  IInv'
<1> USE NamesAssumption DEF IInv, TypeOK, PassInv, OnlyAcceptedWritten, FilesInv, StatusMeansFiles, PairInv,
        SandboxOfOnePolicy, files, world, Missing, Cut, None, Never, Running, Acceptable, Read,
        Refused, Aborted, Crashed, Exit, Go, Killed, FilterDone
<1>1. CASE OpenPtrace
  <2>0. torn' \in BOOLEAN
    BY <1>1 DEF OpenPtrace, WritesTracer
  <2>1. TypeOK'
    BY <1>1, <2>0 DEF OpenPtrace, WritesTracer
  <2>2. PassInv' /\ OnlyAcceptedWritten'
    BY <1>1 DEF OpenPtrace, WritesTracer
  <2>3. FilesInv' /\ StatusMeansFiles'
    BY <1>1 DEF OpenPtrace, WritesTracer
  <2>4. PairInv' /\ SandboxOfOnePolicy'
    BY <1>1 DEF OpenPtrace, WritesTracer
  <2> QED BY <2>1, <2>2, <2>3, <2>4
<1>2. CASE SkipPtrace
  BY <1>2 DEF SkipPtrace, WritesTracer
<1>3. CASE WritePtrace
  <2>0. torn' \in BOOLEAN
    BY <1>3 DEF WritePtrace
  <2>1. TypeOK'
    BY <1>3, <2>0 DEF WritePtrace
  <2>2. PassInv' /\ OnlyAcceptedWritten'
    BY <1>3, PoliciesAssumption DEF WritePtrace
  <2>3. FilesInv' /\ StatusMeansFiles'
    BY <1>3, PoliciesAssumption DEF WritePtrace
  <2>4. PairInv' /\ SandboxOfOnePolicy'
    BY <1>3, PoliciesAssumption DEF WritePtrace
  <2> QED BY <2>1, <2>2, <2>3, <2>4
<1> QED BY <1>1, <1>2, <1>3

-----------------------------------------------------------------------------
(* Steps of the user *)

(* A run may be killed anywhere, the policy edited at any time, and the    *)
(* files removed or built from between runs.                               *)
LEMMA UserStep ==
  ASSUME IInv, Kill \/ Edit \/ Clean \/ Build
  PROVE  IInv'
<1> USE NamesAssumption DEF IInv, TypeOK, PassInv, OnlyAcceptedWritten, FilesInv, StatusMeansFiles, PairInv,
        SandboxOfOnePolicy, files, world, Missing, Cut, None, Never, Running, Acceptable, Read,
        Refused, Aborted, Crashed, Killed, FilterDone
<1>1. CASE Kill
  <2>1. TypeOK' /\ PassInv' /\ OnlyAcceptedWritten'
    BY <1>1, PoliciesAssumption DEF Kill, WritesTracer
  <2>2. FilesInv' /\ StatusMeansFiles'
    BY <1>1, PoliciesAssumption DEF Kill, WritesTracer
  <2>3. PairInv' /\ SandboxOfOnePolicy'
    BY <1>1, PoliciesAssumption DEF Kill, WritesTracer
  <2> QED BY <2>1, <2>2, <2>3
<1>2. CASE Edit
  BY <1>2 DEF Edit
<1>3. CASE Clean
  <2>0. torn' \in BOOLEAN
    BY <1>3 DEF Clean, NoSandbox, history
  <2>1. TypeOK'
    BY <1>3, <2>0 DEF Clean, NoSandbox, history
  <2>2. PassInv' /\ OnlyAcceptedWritten'
    BY <1>3 DEF Clean, NoSandbox, history
  <2>3. FilesInv' /\ StatusMeansFiles'
    BY <1>3 DEF Clean, NoSandbox, history
  <2>4. PairInv' /\ SandboxOfOnePolicy'
    BY <1>3 DEF Clean, NoSandbox, history
  <2> QED BY <2>1, <2>2, <2>3, <2>4
<1>4. CASE Build
  BY <1>4 DEF Build, history
<1> QED BY <1>1, <1>2, <1>3, <1>4

-----------------------------------------------------------------------------
(* Theorems *)

(* IInv is an inductive invariant of the compiler and its user, whatever   *)
(* policies there are.                                                     *)
THEOREM InductiveInvariant == Spec => []IInv
<1>1. Init => IInv
  BY InitInvariant
<1>2. IInv /\ [Next]_vars => IInv'
  <2>1. CASE UNCHANGED vars
    BY <2>1 DEF IInv, TypeOK, PassInv, OnlyAcceptedWritten, FilesInv, StatusMeansFiles, PairInv, SandboxOfOnePolicy,
                FilterDone, Acceptable, Read, vars, files, world, history
  <2> QED BY <2>1, PassStep, FilterStep, TracerStep, UserStep DEF Next, Step
<1> QED BY <1>1, <1>2, PTL DEF Spec

(* The variables keep their ranges; in particular every run that ends has  *)
(* one of the exit statuses of driver.cpp and error.cpp, or a signal's.    *)
THEOREM TypeCorrect == Spec => []TypeOK
<1>1. IInv => TypeOK
  BY DEF IInv
<1> QED BY <1>1, InductiveInvariant, PTL

(* No sequence of runs, failures, kills and edits leaves the translation   *)
(* of a refused policy in a file.                                          *)
THEOREM OnlyAcceptedWrittenCorrect == Spec => []OnlyAcceptedWritten
<1>1. IInv => OnlyAcceptedWritten
  BY DEF IInv
<1> QED BY <1>1, InductiveInvariant, PTL

(* What the exit status of a run says of the two files.                    *)
THEOREM StatusMeansFilesCorrect == Spec => []StatusMeansFiles
<1>1. IInv => StatusMeansFiles
  BY DEF IInv
<1> QED BY <1>1, InductiveInvariant, PTL

(* A filter that needs the tracer is built only with the tracer of its own *)
(* policy, unless a run was stopped between the files.                     *)
THEOREM SandboxOfOnePolicyCorrect == Spec => []SandboxOfOnePolicy
<1>1. IInv => SandboxOfOnePolicy
  BY DEF IInv
<1> QED BY <1>1, InductiveInvariant, PTL
=============================================================================

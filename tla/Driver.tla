-------------------------------- MODULE Driver ---------------------------------
(***************************************************************************)
(* The compiler as its user meets it (driver.cpp, PolicyManager): runs on  *)
(* a policy that changes, which read it, refuse it or write two files, in  *)
(* an order, with errors and interruptions; and the sandbox that is built  *)
(* from whatever files there are.                                          *)
(***************************************************************************)
EXTENDS Integers, FiniteSets

CONSTANTS
  Policies,   \* contents of the policy file
  MaxErrors,  \* MAX_ERROR_BEFORE_QUIT
  Errors,     \* error messages a policy calls for
  ArgsLost,   \* policies with an argument list that cannot be read at all
  Undeclared, \* policies that use a variable they do not declare
  Unknown,    \* policies with a check for a name that is no system call
  Overlong,   \* policies with an operation that needs two temporaries
  Checking,   \* policies with a check
  Tracing     \* policies with a block for the tracer

ASSUME ErrorsAssumption == MaxErrors \in Nat \ {0} /\ Errors \in [Policies -> Nat]
ASSUME PoliciesAssumption ==
  /\ \A S \in {ArgsLost, Undeclared, Unknown, Overlong, Tracing} : S \subseteq Checking
  /\ Checking \subseteq Policies
  /\ \A p \in ArgsLost : Errors[p] > 0

(* A file is missing, cut short, or what the compiler makes of a policy.   *)
Missing == "missing"
Cut == "cut"
None == "none"
ASSUME NamesAssumption == {Missing, Cut, None} \cap Policies = {}
NoSandbox == [bpf |-> None, ptrace |-> None, torn |-> FALSE]

(* Exit statuses as a shell shows them, and before a run and during one.   *)
Refused == 255
Aborted == 134
Crashed == 139
Killed == 137
Never == -1
Running == -2

VARIABLES
  source,    \* the policy file
  bpf_file,  \* the filter's file
  ptrace_file, \* the tracer's file
  sandbox,   \* [bpf, ptrace]: what was built last
  pc,        \* where the running compiler is, "idle" without one
  policy,    \* what it, or the last one, has read
  status,    \* its exit status, Never or Running
  begun,     \* bpf_file and ptrace_file when it was started
  torn       \* a run has stopped between its two files

files == <<bpf_file, ptrace_file>>
world == <<source, sandbox>>
history == <<begun, torn>>
vars == <<files, world, pc, policy, status, history>>

Init ==
  /\ source \in Policies \cup {Missing}
  /\ bpf_file = Missing /\ ptrace_file = Missing
  /\ sandbox = NoSandbox
  /\ pc = "idle" /\ policy = None /\ status = Never
  /\ begun = files /\ torn = FALSE

-----------------------------------------------------------------------------
(* Steps of main *)

(* Mutant: success is reported before the work is done.                    *)
GoReported(next) == pc' = next /\ status' = 0 /\ UNCHANGED torn

Go(next) == pc' = next /\ UNCHANGED <<status, torn>>

Exit(code) == pc' = "idle" /\ status' = code

(* parseOptions                                                            *)
Start ==
  /\ pc = "idle"
  /\ begun' = files
  /\ policy' = None
  /\ status' = Running
  /\ pc' = "parse"
  /\ UNCHANGED <<files, world, torn>>

StartWithoutFile ==
  /\ pc = "idle"
  /\ begun' = files
  /\ policy' = None
  /\ Exit(Refused)
  /\ UNCHANGED <<files, world, torn>>

CannotRead ==
  /\ pc = "parse" /\ source = Missing
  /\ Exit(1)
  /\ UNCHANGED <<files, world, policy, begun, torn>>

(* Mutant: errors are reported and no more.                                *)
ErrorsIgnored(p) == FALSE

ErrorsFound(p) == Errors[p] > 0

(* errMsg gives up after too many messages; a check without an argument    *)
(* list is built from a null pointer.                                      *)
Parse ==
  /\ pc = "parse" /\ source # Missing
  /\ policy' = source
  /\ \/ Errors[source] > MaxErrors /\ Exit(Refused) /\ UNCHANGED torn
     \/ source \in ArgsLost /\ Exit(Crashed) /\ UNCHANGED torn
     \/ /\ Errors[source] <= MaxErrors /\ source \notin ArgsLost
        /\ IF ErrorsFound(source) THEN Exit(0) /\ UNCHANGED torn ELSE Go("IRGen")
  /\ UNCHANGED <<files, world, begun>>

IRGen ==
  /\ pc = "IRGen"
  /\ IF policy \in Undeclared THEN Exit(Refused) /\ UNCHANGED torn ELSE Go("CodeGen")
  /\ UNCHANGED <<files, world, policy, begun>>

(* Mutant: what is not found in the table is not noticed.                  *)
Unnoticed(p) == FALSE

NotInTable(p) == p \in Unknown

CodeGen ==
  /\ pc = "CodeGen"
  /\ IF NotInTable(policy) THEN Exit(Refused) /\ UNCHANGED torn
     ELSE IF policy \in Overlong THEN Exit(Aborted) /\ UNCHANGED torn
     ELSE Go("BPFCodeGen")
  /\ UNCHANGED <<files, world, policy, begun>>

WritesFilter(p) == p \in Checking

(* Opening empties the file.                                               *)
OpenBpf ==
  /\ pc = "BPFCodeGen" /\ WritesFilter(policy)
  /\ \/ bpf_file' = Cut /\ Go("bpf_write")
     \/ UNCHANGED <<bpf_file, torn>> /\ Exit(1)
  /\ UNCHANGED <<ptrace_file, world, policy, begun>>

SkipBpf ==
  /\ pc = "BPFCodeGen" /\ ~WritesFilter(policy)
  /\ Go("PtraceCodeGen")
  /\ UNCHANGED <<files, world, policy, begun>>

(* A write that fails is not noticed.                                      *)
WriteBpf ==
  /\ pc = "bpf_write"
  /\ bpf_file' \in {policy, Cut}
  /\ Go("PtraceCodeGen")
  /\ UNCHANGED <<ptrace_file, world, policy, begun>>

(* Mutant: the tracer's file is only written when there is none.           *)
WritesNewTracer(p) == p \in Tracing /\ ptrace_file = Missing

WritesTracer(p) == p \in Tracing

OpenPtrace ==
  /\ pc = "PtraceCodeGen" /\ WritesTracer(policy)
  /\ \/ ptrace_file' = Cut /\ Go("ptrace_write")
     \/ UNCHANGED ptrace_file /\ torn' = TRUE /\ Exit(1)
  /\ UNCHANGED <<bpf_file, world, policy, begun>>

SkipPtrace ==
  /\ pc = "PtraceCodeGen" /\ ~WritesTracer(policy)
  /\ Exit(0)
  /\ UNCHANGED <<files, world, policy, begun, torn>>

WritePtrace ==
  /\ pc = "ptrace_write"
  /\ ptrace_file' \in {policy, Cut}
  /\ Exit(0)
  /\ torn' = FALSE
  /\ UNCHANGED <<bpf_file, world, policy, begun>>

Step ==
  \/ CannotRead \/ Parse \/ IRGen \/ CodeGen
  \/ OpenBpf \/ SkipBpf \/ WriteBpf \/ OpenPtrace \/ SkipPtrace \/ WritePtrace

-----------------------------------------------------------------------------
(* What the user does *)

Kill ==
  /\ pc # "idle"
  /\ pc' = "idle" /\ status' = Killed
  /\ torn' = (torn \/ (pc = "PtraceCodeGen" /\ WritesTracer(policy)))
  /\ UNCHANGED <<files, world, policy, begun>>

Edit ==
  /\ source' \in (Policies \cup {Missing}) \ {source}
  /\ UNCHANGED <<files, sandbox, pc, policy, status, begun, torn>>

(* The build scripts remove both files and the sandbox first.              *)
Clean ==
  /\ pc = "idle"
  /\ bpf_file' = Missing /\ ptrace_file' = Missing /\ sandbox' = NoSandbox
  /\ begun' = <<Missing, Missing>> /\ torn' = FALSE
  /\ policy' = None /\ status' = Never
  /\ UNCHANGED <<source, pc>>

(* gcc makes a sandbox of two whole files, or leaves what is there.        *)
Build ==
  /\ pc = "idle" /\ files \in Policies \X Policies
  /\ sandbox' = [bpf |-> bpf_file, ptrace |-> ptrace_file, torn |-> torn]
  /\ UNCHANGED <<files, source, pc, policy, status, history>>

Next == Start \/ StartWithoutFile \/ Step \/ Kill \/ Edit \/ Clean \/ Build

Spec == Init /\ [][Next]_vars

-----------------------------------------------------------------------------
(* Properties *)

Acceptable(p) ==
  /\ p \in Policies /\ Errors[p] = 0
  /\ p \notin ArgsLost \cup Undeclared \cup Unknown \cup Overlong

(* The variables keep their ranges, and a run that has got past a pass has *)
(* a policy that passed it.                                                *)
TypeOK ==
  /\ source \in Policies \cup {Missing}
  /\ bpf_file \in Policies \cup {Missing, Cut} /\ ptrace_file \in Policies \cup {Missing, Cut}
  /\ DOMAIN sandbox = {"bpf", "ptrace", "torn"}
  /\ pc \in {"idle", "parse", "IRGen", "CodeGen", "BPFCodeGen", "bpf_write",
             "PtraceCodeGen", "ptrace_write"}
  /\ policy \in Policies \cup {None}
  /\ status \in {Never, Running, 0, 1, Refused, Aborted, Crashed, Killed}
  /\ status = Running <=> pc # "idle"
  /\ torn \in BOOLEAN
  /\ pc \in {"bpf_write", "ptrace_write"} => Cut \in {bpf_file, ptrace_file}

(* Whatever happened before, no file holds the translation of a policy     *)
(* that was refused, a whole filter has checks, and a whole tracer blocks. *)
OnlyAcceptedWritten ==
  /\ bpf_file \in Policies => Acceptable(bpf_file) /\ bpf_file \in Checking
  /\ ptrace_file \in Policies => Acceptable(ptrace_file) /\ ptrace_file \in Tracing

(* A run that reads no acceptable policy, or stops before it writes,       *)
(* leaves both files as they were, and those of an earlier policy stay.    *)
(* Exit status 0 means less than that the files are the policy's: a policy *)
(* with errors (driver.cpp:116) and, for the filter, one without checks    *)
(* (policy.cpp:195), for the tracer, one without blocks for it             *)
(* (policy.cpp:141), leave what was there; a write may be cut short.       *)
StatusMeansFiles ==
  pc = "idle" =>
    /\ status \in {Refused, Aborted, Crashed} \/ ~Acceptable(policy) => files = begun
    /\ status = 0 /\ Acceptable(policy) =>
         /\ bpf_file \in IF policy \in Checking THEN {policy, Cut} ELSE {begun[1]}
         /\ ptrace_file \in IF policy \in Tracing THEN {policy, Cut} ELSE {begun[2]}

(* A sandbox of two different policies, in whatever order the files came   *)
(* about, has a filter that hands nothing to the tracer, unless a run was  *)
(* stopped between the files (policy.cpp:178, 251).                        *)
SandboxOfOnePolicy ==
  sandbox.bpf # None =>
    sandbox.ptrace = sandbox.bpf \/ sandbox.bpf \notin Tracing \/ sandbox.torn
=============================================================================

------------------------------- MODULE Tracer --------------------------------
(***************************************************************************)
(* The sandbox at run time: the tracer loop of ptrace_template.c, the      *)
(* processes it supervises and the part of the kernel they meet in         *)
(* (seccomp, ptrace and wait).                                             *)
(*                                                                         *)
(* Every step of the tracer is at most one call to the kernel, so that a   *)
(* process may be killed, or another one stop, between any two of them.    *)
(* The generated filter is a function from calls to verdicts, and the code *)
(* the compiler puts at the insertion point a function from a return datum *)
(* and a call to an outcome; a call stands for its number and arguments.   *)
(***************************************************************************)
EXTENDS Naturals, FiniteSets

CONSTANTS
  Procs,       \* processes that may ever exist under the sandbox
  Root,        \* direct_child, the program given on the command line
  Args,        \* system calls with their arguments
  Data,        \* return data of the filter's trace returns
  None,        \* no call, no datum
  Garbage,     \* a datum that is no index of start_table
  Filter,      \* verdict of the filter on a call: "allow", "kill" or a return datum
  Handler      \* outcome of the code a return datum leads to on a call

ASSUME RootAssumption == Root \in Procs
ASSUME FilterAssumption == Filter \in [Args -> {"allow", "kill"} \cup Data]
ASSUME HandlerAssumption ==
  Handler \in [Data \X Args -> [verdict : {"allow", "deny", "fall"}, arg : Args]]
ASSUME NamesAssumption ==
  None \notin Args /\ None \notin Data /\ Garbage \notin Data /\ {"allow", "kill"} \cap Data = {}

VARIABLES
  task,        \* what a process is doing
  why,         \* the kind of ptrace stop a process is in
  reported,    \* stopped processes whose stop wait() has returned
  attached,    \* processes the tracer traces
  options,     \* traced processes with the options set on them
  filtered,    \* processes that run under the filter
  exited,      \* processes that ended by exit (WIFEXITED)
  boot,        \* how far the child of main() has come before execvp
  asked,       \* the call a process asked for
  reg,         \* the call in its registers
  performed,   \* history: pairs of a call asked for and the call performed
  tpc,         \* next step of the tracer
  child,       \* result of wait()
  first_fork,  \* options not set yet
  deny,        \* the global of ptrace_template.c, initially 1
  reg_modified,
  regs,        \* registers as last read
  arguments,   \* the handler's copy
  seccomp_ret_data

procVars == <<task, why, reported, attached, options, filtered, exited, boot, asked, reg, performed>>
memVars == <<first_fork, deny, reg_modified, regs, arguments, seccomp_ret_data>>
tracerVars == <<tpc, child, memVars>>
vars == <<procVars, tracerVars>>

Alive(p) == task[p] \in {"run", "enter", "stop", "resume"}

Init ==
  /\ task = [p \in Procs |-> IF p = Root THEN "run" ELSE "unborn"]
  /\ why = [p \in Procs |-> "none"]
  /\ reported = {}
  /\ attached = {}
  /\ options = {}
  /\ filtered = {}
  /\ exited = {}
  /\ boot = "traceme"
  /\ asked = [p \in Procs |-> None]
  /\ reg = [p \in Procs |-> None]
  /\ performed = {}
  /\ tpc = "wait"
  /\ child = Root
  /\ first_fork = TRUE
  /\ deny = TRUE
  /\ reg_modified = FALSE
  /\ regs \in Args
  /\ arguments \in Args
  /\ seccomp_ret_data = Garbage

-----------------------------------------------------------------------------
(* Processes and kernel *)

(* The processes of S die: what they were doing is over.                   *)
Kill(S) ==
  /\ task' = [p \in Procs |-> IF p \in S THEN "zombie" ELSE task[p]]
  /\ why' = [p \in Procs |-> IF p \in S THEN "none" ELSE why[p]]
  /\ reported' = reported \ S
  /\ asked' = [p \in Procs |-> IF p \in S THEN None ELSE asked[p]]
  /\ reg' = [p \in Procs |-> IF p \in S THEN None ELSE reg[p]]

Stop(p, kind) ==
  /\ task' = [task EXCEPT ![p] = "stop"]
  /\ why' = [why EXCEPT ![p] = kind]

(* main() in the child: PTRACE_TRACEME, raise(SIGSTOP), setup_seccomp().   *)
TraceMe ==
  /\ boot = "traceme"
  /\ task[Root] = "run"
  /\ boot' = "sigstop"
  /\ attached' = attached \cup {Root}
  /\ UNCHANGED <<task, why, reported, options, filtered, exited, asked, reg, performed, tracerVars>>

RaiseSigstop ==
  /\ boot = "sigstop"
  /\ task[Root] = "run"
  /\ boot' = "seccomp"
  /\ Stop(Root, "signal")
  /\ UNCHANGED <<reported, attached, options, filtered, exited, asked, reg, performed, tracerVars>>

SetupSeccomp ==
  /\ boot = "seccomp"
  /\ task[Root] = "run"
  /\ boot' = "app"
  /\ filtered' = filtered \cup {Root}
  /\ UNCHANGED <<task, why, reported, attached, options, exited, asked, reg, performed, tracerVars>>

(* A program ends, or setup_seccomp() fails and exits.                     *)
Exit(p) ==
  /\ task[p] = "run"
  /\ p \in filtered \/ boot = "seccomp"
  /\ Kill({p})
  /\ exited' = exited \cup {p}
  /\ UNCHANGED <<attached, options, filtered, boot, performed, tracerVars>>

(* A process is killed from outside, at any time.                          *)
KillByOther(p) ==
  /\ Alive(p)
  /\ Kill({p})
  /\ UNCHANGED <<attached, options, filtered, exited, boot, performed, tracerVars>>

(* A signal, or the trap of an execve, stops a traced process.             *)
Signal(p) ==
  /\ task[p] = "run"
  /\ p \in attached
  /\ Stop(p, "signal")
  /\ UNCHANGED <<reported, attached, options, filtered, exited, boot, asked, reg, performed, tracerVars>>

(* fork, vfork or clone: with the TRACE options set the new process is     *)
(* traced, inherits the options and starts with a SIGSTOP, and the parent  *)
(* stops for the event.  The filter is inherited in any case.              *)
Fork(p, q) ==
  /\ task[p] = "run"
  /\ p \in filtered
  /\ task[q] = "unborn"
  /\ filtered' = filtered \cup {q}
  /\ \/ /\ p \in options
        /\ attached' = attached \cup {q}
        /\ options' = options \cup {q}
        /\ task' = [task EXCEPT ![p] = "stop", ![q] = "stop"]
        /\ why' = [why EXCEPT ![p] = "event", ![q] = "signal"]
     \/ /\ p \notin options
        /\ task' = [task EXCEPT ![q] = "run"]
        /\ UNCHANGED <<attached, options, why>>
  /\ UNCHANGED <<reported, exited, boot, asked, reg, performed, tracerVars>>

(* A program asks for a system call.                                       *)
Enter(p, a) ==
  /\ task[p] = "run"
  /\ p \in filtered
  /\ task' = [task EXCEPT ![p] = "enter"]
  /\ asked' = [asked EXCEPT ![p] = a]
  /\ reg' = [reg EXCEPT ![p] = a]
  /\ UNCHANGED <<why, reported, attached, options, filtered, exited, boot, performed, tracerVars>>

Perform(p) ==
  /\ task' = [task EXCEPT ![p] = "run"]
  /\ performed' = performed \cup {<<asked[p], reg[p]>>}
  /\ asked' = [asked EXCEPT ![p] = None]
  /\ reg' = [reg EXCEPT ![p] = None]
  /\ UNCHANGED <<why, reported, attached, options, filtered, exited, boot, tracerVars>>

KillBySeccomp(p) ==
  /\ Kill({p})
  /\ UNCHANGED <<attached, options, filtered, exited, boot, performed, tracerVars>>

(* Without a tracer that set the option a trace return fails the call.     *)
FailCall(p) ==
  /\ task' = [task EXCEPT ![p] = "run"]
  /\ asked' = [asked EXCEPT ![p] = None]
  /\ reg' = [reg EXCEPT ![p] = None]
  /\ UNCHANGED <<why, reported, attached, options, filtered, exited, boot, performed, tracerVars>>

StopForSeccomp(p) ==
  /\ Stop(p, "seccomp")
  /\ UNCHANGED <<reported, attached, options, filtered, exited, boot, asked, reg, performed, tracerVars>>

(* The filter is run on a call.                                            *)
Seccomp(p) ==
  /\ task[p] = "enter"
  /\ \/ Filter[reg[p]] = "allow" /\ Perform(p)
     \/ Filter[reg[p]] = "kill" /\ KillBySeccomp(p)
     \/ Filter[reg[p]] \in Data /\ p \in options /\ StopForSeccomp(p)
     \/ Filter[reg[p]] \in Data /\ p \notin options /\ FailCall(p)

(* The tracer has let the call go on: the filter is run again on what is   *)
(* now in the registers, and a trace return counts as allow.               *)
Recheck(p) ==
  /\ task[p] = "resume"
  /\ \/ Filter[reg[p]] # "kill" /\ Perform(p)
     \/ Filter[reg[p]] = "kill" /\ KillBySeccomp(p)

-----------------------------------------------------------------------------
(* The tracer loop *)

(* Mutants: a stop that is not a seccomp stop is not continued; the first  *)
(* stop of direct_child is not told from others.                           *)
WaitStopForgets(p) ==
  /\ tpc = "wait"
  /\ task[p] = "stop"
  /\ p \in attached
  /\ p \notin reported
  /\ reported' = reported \cup {p}
  /\ child' = p
  /\ tpc' = IF first_fork /\ p = Root THEN "setoptions"
            ELSE IF why[p] = "seccomp" THEN "getregs" ELSE "wait"
  /\ UNCHANGED <<task, why, attached, options, filtered, exited, boot, asked, reg, performed, memVars>>

WaitStopNoSetup(p) ==
  /\ tpc = "wait"
  /\ task[p] = "stop"
  /\ p \in attached
  /\ p \notin reported
  /\ reported' = reported \cup {p}
  /\ child' = p
  /\ tpc' = IF why[p] = "seccomp" THEN "getregs" ELSE "cont"
  /\ UNCHANGED <<task, why, attached, options, filtered, exited, boot, asked, reg, performed, memVars>>

(* wait() returns the stop of a process.                                   *)
WaitStop(p) ==
  /\ tpc = "wait"
  /\ task[p] = "stop"
  /\ p \in attached
  /\ p \notin reported
  /\ reported' = reported \cup {p}
  /\ child' = p
  /\ tpc' = IF first_fork /\ p = Root THEN "setoptions"
            ELSE IF why[p] = "seccomp" THEN "getregs" ELSE "cont"
  /\ UNCHANGED <<task, why, attached, options, filtered, exited, boot, asked, reg, performed, memVars>>

(* Mutant: WIFEXITED is not tested.                                        *)
WaitDeadOnly(p) ==
  /\ tpc = "wait"
  /\ task[p] = "zombie"
  /\ p \in attached \cup {Root}
  /\ task' = [task EXCEPT ![p] = "reaped"]
  /\ child' = p
  /\ tpc' = "cont"
  /\ UNCHANGED <<why, reported, attached, options, filtered, exited, boot, asked, reg, performed, memVars>>

(* wait() returns the end of a process: only direct_child's exit ends the  *)
(* loop, any other status is answered with PTRACE_CONT.                    *)
WaitDead(p) ==
  /\ tpc = "wait"
  /\ task[p] = "zombie"
  /\ p \in attached \cup {Root}
  /\ task' = [task EXCEPT ![p] = "reaped"]
  /\ child' = p
  /\ tpc' = IF p = Root /\ p \in exited THEN "exit" ELSE "cont"
  /\ UNCHANGED <<why, reported, attached, options, filtered, exited, boot, asked, reg, performed, memVars>>

(* Mutant: the result -1 is taken for a process.                           *)
WaitNoneUnchecked ==
  /\ tpc = "wait"
  /\ \A p \in attached \cup {Root} : task[p] = "reaped"
  /\ child' = None
  /\ tpc' = "cont"
  /\ UNCHANGED <<procVars, memVars>>

(* wait() returns -1: there is nothing left to wait for.                   *)
WaitNone ==
  /\ tpc = "wait"
  /\ \A p \in attached \cup {Root} : task[p] = "reaped"
  /\ tpc' = "exit"
  /\ UNCHANGED <<procVars, child, memVars>>

(* A ptrace call finds its process stopped; on any other it fails, and the *)
(* loop does not look at the result.                                       *)
Stopped(p) == task[p] = "stop"

(* Mutant: the options are set on no process.                              *)
SetOptionsForgotten ==
  /\ tpc = "setoptions"
  /\ first_fork' = FALSE
  /\ tpc' = "cont"
  /\ UNCHANGED <<procVars, child, deny, reg_modified, regs, arguments, seccomp_ret_data>>

SetOptions ==
  /\ tpc = "setoptions"
  /\ first_fork' = FALSE
  /\ options' = IF Stopped(child) THEN options \cup {child} ELSE options
  /\ tpc' = "cont"
  /\ UNCHANGED <<task, why, reported, attached, filtered, exited, boot, asked, reg, performed,
                 child, deny, reg_modified, regs, arguments, seccomp_ret_data>>

Cont ==
  /\ tpc = "cont"
  /\ tpc' = "wait"
  /\ \/ /\ Stopped(child)
        /\ task' = [task EXCEPT ![child] = IF why[child] = "seccomp" THEN "resume" ELSE "run"]
        /\ why' = [why EXCEPT ![child] = "none"]
        /\ reported' = reported \ {child}
     \/ /\ ~Stopped(child)
        /\ UNCHANGED <<task, why, reported>>
  /\ UNCHANGED <<attached, options, filtered, exited, boot, asked, reg, performed, child, memVars>>

(* Mutant: the registers of the stop before are used.                      *)
GetRegsNever ==
  /\ tpc = "getregs"
  /\ tpc' = "geteventmsg"
  /\ UNCHANGED <<procVars, child, memVars>>

(* PTRACE_GETREGS; if it fails, regs keeps what it held.                   *)
GetRegs ==
  /\ tpc = "getregs"
  /\ regs' = IF Stopped(child) THEN reg[child] ELSE regs
  /\ tpc' = "geteventmsg"
  /\ UNCHANGED <<procVars, child, first_fork, deny, reg_modified, arguments, seccomp_ret_data>>

(* PTRACE_GETEVENTMSG into a variable that is not initialised: if it fails *)
(* the datum is whatever the stack held.  Then arguments are copied.       *)
GetEventMsg ==
  /\ tpc = "geteventmsg"
  /\ seccomp_ret_data' \in IF Stopped(child) THEN {Filter[reg[child]]} ELSE Data \cup {Garbage}
  /\ reg_modified' = FALSE
  /\ arguments' = regs
  /\ tpc' = "handler"
  /\ UNCHANGED <<procVars, child, first_fork, deny, regs>>

(* The generated code: ALLOW and DENY assign deny, SET_ARG an argument;    *)
(* code that ends without a verdict leaves deny as it is.                  *)
RunHandler ==
  /\ tpc = "handler"
  /\ seccomp_ret_data \in Data
  /\ LET h == Handler[<<seccomp_ret_data, arguments>>]
     IN  /\ deny' = IF h.verdict = "fall" THEN deny ELSE h.verdict = "deny"
         /\ arguments' = h.arg
         /\ reg_modified' = (reg_modified \/ h.arg # arguments)
  /\ tpc' = "out"
  /\ UNCHANGED <<procVars, child, first_fork, regs, seccomp_ret_data>>

(* The jump through start_table leaves the program: the tracer crashes.    *)
JumpAstray ==
  /\ tpc = "handler"
  /\ seccomp_ret_data = Garbage
  /\ tpc' = "exit"
  /\ UNCHANGED <<procVars, child, memVars>>

(* Mutant: continue instead of break.                                      *)
KillChildOnly ==
  /\ tpc = "out"
  /\ deny
  /\ Kill(IF Alive(child) THEN {child} ELSE {})
  /\ tpc' = "wait"
  /\ UNCHANGED <<attached, options, filtered, exited, boot, performed, child, memVars>>

(* out: with deny set, kill(child, SIGKILL) and leave the loop.            *)
KillChild ==
  /\ tpc = "out"
  /\ deny
  /\ Kill(IF Alive(child) THEN {child} ELSE {})
  /\ tpc' = "exit"
  /\ UNCHANGED <<attached, options, filtered, exited, boot, performed, child, memVars>>

(* Mutant: replaced arguments are not written back.                        *)
ApproveOriginal ==
  /\ tpc = "out"
  /\ ~deny
  /\ tpc' = "cont"
  /\ UNCHANGED <<procVars, child, memVars>>

Approve ==
  /\ tpc = "out"
  /\ ~deny
  /\ tpc' = IF reg_modified THEN "setregs" ELSE "cont"
  /\ UNCHANGED <<procVars, child, memVars>>

SetRegs ==
  /\ tpc = "setregs"
  /\ regs' = arguments
  /\ reg' = IF Stopped(child) THEN [reg EXCEPT ![child] = arguments] ELSE reg
  /\ tpc' = "cont"
  /\ UNCHANGED <<task, why, reported, attached, options, filtered, exited, boot, asked, performed,
                 child, first_fork, deny, reg_modified, arguments, seccomp_ret_data>>

(* The tracer is gone: PTRACE_O_EXITKILL takes the processes it was set on *)
(* with it, and one on which it had not been set yet is let go.            *)
TracerGone ==
  LET killed == {p \in options : Alive(p)}
  IN  /\ task' = [p \in Procs |-> IF p \in killed THEN "zombie"
                                ELSE IF task[p] = "stop" THEN "run" ELSE task[p]]
      /\ why' = [p \in Procs |-> "none"]
      /\ reported' = {}
      /\ asked' = [p \in Procs |-> IF p \in killed THEN None ELSE asked[p]]
      /\ reg' = [p \in Procs |-> IF p \in killed THEN None ELSE reg[p]]
      /\ attached' = {}
      /\ options' = {}
      /\ tpc' = "done"
      /\ UNCHANGED <<filtered, exited, boot, performed, child, memVars>>

TracerExit == tpc = "exit" /\ TracerGone

(* Somebody kills the tracer, at any time after the child has asked to be  *)
(* traced.                                                                 *)
TracerKilled == tpc # "done" /\ Root \in attached /\ TracerGone

-----------------------------------------------------------------------------
System ==
  \/ TraceMe \/ RaiseSigstop \/ SetupSeccomp
  \/ \E p \in Procs : Exit(p) \/ KillByOther(p) \/ Signal(p) \/ Seccomp(p) \/ Recheck(p)
  \/ \E p, q \in Procs : Fork(p, q)
  \/ \E p \in Procs, a \in Args : Enter(p, a)

TracerStep ==
  \/ \E p \in Procs : WaitStop(p) \/ WaitDead(p)
  \/ WaitNone \/ SetOptions \/ Cont \/ GetRegs \/ GetEventMsg \/ RunHandler \/ JumpAstray
  \/ KillChild \/ Approve \/ SetRegs \/ TracerExit

Next == System \/ TracerStep \/ TracerKilled

Spec == Init /\ [][Next]_vars

(* The tracer is a process the kernel schedules: it takes the steps it can.*)
FairSpec == Spec /\ WF_vars(TracerStep)

-----------------------------------------------------------------------------
(* Properties *)

Tasks == {"unborn", "run", "enter", "stop", "resume", "zombie", "reaped"}

TypeOK ==
  /\ task \in [Procs -> Tasks]
  /\ why \in [Procs -> {"none", "signal", "event", "seccomp"}]
  /\ reported \subseteq {p \in Procs : task[p] = "stop"}
  /\ options \subseteq attached /\ attached \subseteq Procs
  /\ filtered \subseteq Procs
  /\ exited \subseteq Procs
  /\ boot \in {"traceme", "sigstop", "seccomp", "app"}
  /\ asked \in [Procs -> Args \cup {None}]
  /\ reg \in [Procs -> Args \cup {None}]
  /\ performed \subseteq Args \X Args
  /\ tpc \in {"wait", "setoptions", "cont", "getregs", "geteventmsg", "handler", "out",
              "setregs", "exit", "done"}
  /\ child \in Procs
  /\ first_fork \in BOOLEAN
  /\ deny \in BOOLEAN
  /\ reg_modified \in BOOLEAN
  /\ regs \in Args
  /\ arguments \in Args
  /\ seccomp_ret_data \in Data \cup {Garbage}

(* What the policy lets a call be performed as: the verdict of the filter, *)
(* or of the handler it hands the call to, on the call that was asked for. *)
(* A handler that gives no verdict permits nothing: the calls it is for    *)
(* are allowed only under the conditions it states.                        *)
Permitted ==
  [a \in Args |->
    IF Filter[a] = "allow" THEN {a}
    ELSE IF Filter[a] = "kill" THEN {}
    ELSE {b \in Args : /\ Handler[<<Filter[a], a>>] = [verdict |-> "allow", arg |-> b]
                       /\ Filter[b] # "kill"}]

(* A call is performed only as the policy permits for the very call that   *)
(* was asked for.  The tracer decides in global variables that outlive a   *)
(* process, on registers it reads after wait() returned, so a decision     *)
(* could be made on, or left over from, another call or another process.   *)
OnlyPermittedPerformed == \A c \in performed : c[2] \in Permitted[c[1]]

(* When the tracer goes to wait(), no process is left in a stop that it    *)
(* has been told of, and while it works on a stop it is the only one: a    *)
(* path of the loop that forgets PTRACE_CONT would freeze a process.       *)
NoStrandedStop ==
  /\ tpc = "wait" => reported = {}
  /\ reported \subseteq {child}

(* The options are set on every process before it can make a call under    *)
(* the filter, whatever signals arrive first and however fast it forks, so *)
(* a trace return always finds a tracer (it would fail the call if not).   *)
Supervised == tpc # "done" => \A p \in filtered : Alive(p) => p \in options

(* Whatever ends the tracer - the program's exit, a denied call, a crash   *)
(* on a stale datum, a kill - no process of the sandbox runs on without it *)
(* once main() has set the options.                                        *)
NothingOutlives == tpc = "done" /\ ~first_fork => \A p \in Procs : ~Alive(p)

(* A stop the tracer has been told of ends: the process goes on or dies.   *)
EventuallyResumed == \A p \in Procs : p \in reported ~> p \notin reported

(* A denied call brings the whole process tree down.                       *)
DenialEndsAll == (tpc = "out" /\ deny) ~> (\A p \in Procs : ~Alive(p))

(* The program's exit ends the sandbox, unless other processes stop over   *)
(* and over again: wait() may prefer them.                                 *)
ExitEndsSandbox ==
  \/ []<>(\E p \in Procs : task[p] = "stop" /\ p \notin reported)
  \/ Root \in exited ~> tpc = "done"

(* The tracer, the kernel's stops and the filter together implement the    *)
(* sandbox the policy describes.                                           *)
Promise == INSTANCE Sandbox WITH
  live <- {p \in Procs : Alive(p)},
  born <- {p \in Procs : task[p] # "unborn"}

ImplementsSandbox == Promise!Spec
=============================================================================

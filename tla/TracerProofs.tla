----------------------------- MODULE TracerProofs ------------------------------
(***************************************************************************)
(* Proofs about Tracer, for any set of processes, calls and return data,   *)
(* any filter and any generated handlers: the supervision of processes,    *)
(* the decision of calls, and that tracer, kernel and filter together      *)
(* implement module Sandbox.                                               *)
(***************************************************************************)
EXTENDS Tracer, TLAPS

-----------------------------------------------------------------------------
(* The inductive invariant *)

(* A process waits for the outcome of a call.                              *)
InCall(p) == task[p] \in {"enter", "resume"} \/ why[p] = "seccomp"

(* A process has a kind of stop while it is stopped, and a call asked for  *)
(* and in its registers while it is in one.                                *)
CallInv ==
  \A p \in Procs :
    /\ why[p] # "none" <=> task[p] = "stop"
    /\ InCall(p) => asked[p] \in Args /\ reg[p] \in Args
    /\ ~InCall(p) => asked[p] = None /\ reg[p] = None

(* The steps of the loop that work on a seccomp stop.                      *)
Working == tpc \in {"getregs", "geteventmsg", "handler", "out", "setregs"}

(* The process the tracer works on stays stopped or has died: nobody else  *)
(* lets it go on, so that what is read from it is not read from another    *)
(* stop.                                                                   *)
WorkInv ==
  /\ Working => \/ task[child] = "stop" /\ why[child] = "seccomp"
                \/ task[child] = "zombie"
  /\ tpc = "setoptions" => /\ child = Root /\ Root \in attached /\ first_fork
                           /\ task[Root] \in {"stop", "zombie"}
  /\ tpc = "cont" => task[child] \in {"stop", "zombie", "reaped"}
  /\ tpc # "done" => \A p \in Procs : why[p] = "seccomp" \/ task[p] = "resume" => p \in options
  /\ tpc = "done" => options = {} /\ \A p \in Procs : ~InCall(p) \/ task[p] = "enter"
  /\ first_fork => options = {}

(* The outcome of the handler that the filter hands a call to.             *)
Outcome(a) == Handler[<<Filter[a], a>>]

(* Where the tracer stands with the call of the process it works on.       *)
ReadInv ==
  Working /\ task[child] = "stop" =>
    /\ tpc # "getregs" => regs = asked[child]
    /\ tpc \in {"handler", "out", "setregs"} => seccomp_ret_data = Filter[asked[child]]
    /\ tpc = "handler" => arguments = asked[child] /\ ~reg_modified
    /\ tpc \in {"out", "setregs"} => arguments = Outcome(asked[child]).arg
    /\ tpc = "out" => /\ ~reg_modified => arguments = asked[child]
                      /\ Outcome(asked[child]).verdict = "deny" => deny
                      /\ Outcome(asked[child]).verdict = "allow" => ~deny
    /\ tpc = "setregs" => Outcome(asked[child]).verdict # "deny"

(* A call has its own arguments until the tracer lets it go on, and then   *)
(* those its own handler gave it without denying it.                       *)
DecisionInv ==
  \A p \in Procs :
    /\ task[p] = "enter" => reg[p] = asked[p]
    /\ why[p] = "seccomp" => /\ Filter[asked[p]] \in Data
                             /\ ~(p = child /\ tpc = "cont") => reg[p] = asked[p]
    /\ task[p] = "resume" \/ (why[p] = "seccomp" /\ p = child /\ tpc = "cont") =>
         /\ Filter[asked[p]] \in Data
         /\ Outcome(asked[p]).verdict # "deny" /\ Outcome(asked[p]).arg = reg[p]

(* Every process runs under the filter, once it may make calls, and under  *)
(* the options before that.                                                *)
SuperviseInv ==
  /\ \A p \in Procs \ {Root} : Alive(p) => p \in filtered
  /\ tpc # "done" =>
       /\ \A p \in filtered : Alive(p) => p \in options
       /\ Alive(Root) /\ Root \notin options =>
            /\ first_fork /\ ~(tpc = "cont" /\ child = Root)
            /\ boot \in {"seccomp", "app"} => task[Root] = "stop"
  /\ tpc = "done" /\ ~first_fork => \A p \in Procs : ~Alive(p)

(* While the tracer works on a stop it is the only one it was told of.     *)
ReportInv ==
  /\ tpc \in {"wait", "done"} => reported = {}
  /\ reported \subseteq {child}

(* Calls were performed as the filter or their own handler let them.       *)
Decided(a, b) ==
  \/ Filter[a] = "allow" /\ a = b
  \/ /\ Filter[a] \in Data /\ Filter[b] # "kill"
     /\ Outcome(a).verdict # "deny" /\ Outcome(a).arg = b

PerformedInv == \A c \in performed : Decided(c[1], c[2])

IInv ==
  /\ TypeOK /\ CallInv /\ WorkInv /\ ReadInv /\ DecisionInv
  /\ SuperviseInv /\ ReportInv /\ PerformedInv

-----------------------------------------------------------------------------
(* Types *)

(* The states the program starts in satisfy the invariant.                 *)
LEMMA InitInvariant == Init => IInv
<1> SUFFICES ASSUME Init PROVE IInv
  OBVIOUS
<1>1. TypeOK /\ CallInv
  BY RootAssumption DEF Init, TypeOK, Tasks, CallInv, InCall
<1>2. WorkInv /\ ReadInv /\ DecisionInv
  BY DEF Init, WorkInv, ReadInv, DecisionInv, Working, InCall
<1>3. SuperviseInv /\ ReportInv /\ PerformedInv
  BY DEF Init, SuperviseInv, ReportInv, PerformedInv, Alive
<1> QED BY <1>1, <1>2, <1>3 DEF IInv

(* Processes that die leave the data of processes well-typed.              *)
LEMMA KillType ==
  ASSUME TypeOK, NEW S \in SUBSET Procs, Kill(S)
  PROVE  /\ task' \in [Procs -> Tasks]
         /\ why' \in [Procs -> {"none", "signal", "event", "seccomp"}]
         /\ reported' \subseteq {p \in Procs : task'[p] = "stop"}
         /\ asked' \in [Procs -> Args \cup {None}]
         /\ reg' \in [Procs -> Args \cup {None}]
BY DEF TypeOK, Kill, Tasks

(* What the kernel does with a call keeps every variable in its range.     *)
LEMMA VerdictType ==
  ASSUME IInv, NEW p \in Procs, Seccomp(p) \/ Recheck(p)
  PROVE  TypeOK'
<1>0. TypeOK /\ task[p] \in {"enter", "resume"} /\ asked[p] \in Args /\ reg[p] \in Args
  BY DEF IInv, CallInv, InCall, Seccomp, Recheck
<1>1. CASE KillBySeccomp(p)
  BY <1>0, <1>1, KillType DEF TypeOK, KillBySeccomp, tracerVars, memVars
<1>2. CASE Perform(p)
  BY <1>0, <1>2 DEF TypeOK, Tasks, Perform, tracerVars, memVars
<1>3. CASE task[p] = "enter" /\ (StopForSeccomp(p) \/ FailCall(p))
  BY <1>0, <1>3 DEF TypeOK, Tasks, StopForSeccomp, Stop, FailCall, tracerVars, memVars
<1> QED BY <1>1, <1>2, <1>3 DEF Seccomp, Recheck

(* What processes and the kernel do keeps every variable in its range.     *)
LEMMA SystemType ==
  ASSUME IInv, System
  PROVE  TypeOK'
<1>0. TypeOK
  BY DEF IInv
<1>1. CASE TraceMe \/ RaiseSigstop \/ SetupSeccomp
  BY <1>0, <1>1, RootAssumption DEF TypeOK, Tasks, TraceMe, RaiseSigstop, SetupSeccomp, Stop, tracerVars, memVars
<1>2. ASSUME NEW p \in Procs, Exit(p) \/ KillByOther(p)
      PROVE  TypeOK'
  BY <1>0, <1>2, KillType DEF TypeOK, Exit, KillByOther, tracerVars, memVars
<1>3. ASSUME NEW p \in Procs, Signal(p)
      PROVE  TypeOK'
  BY <1>0, <1>3 DEF TypeOK, Tasks, Signal, Stop, tracerVars, memVars
<1>4. ASSUME NEW p \in Procs, NEW q \in Procs, Fork(p, q)
      PROVE  TypeOK'
  BY <1>0, <1>4 DEF TypeOK, Tasks, Fork, tracerVars, memVars
<1>5. ASSUME NEW p \in Procs, NEW a \in Args, Enter(p, a)
      PROVE  TypeOK'
  BY <1>0, <1>5 DEF TypeOK, Tasks, Enter, tracerVars, memVars
<1> QED BY <1>1, <1>2, <1>3, <1>4, <1>5, VerdictType DEF System

(* So does every step of the tracer, and its end.                          *)
LEMMA TracerType ==
  ASSUME IInv, TracerStep \/ TracerKilled
  PROVE  TypeOK'
<1>0. TypeOK
  BY DEF IInv
<1>1. ASSUME NEW p \in Procs, WaitStop(p) \/ WaitDead(p)
      PROVE  TypeOK'
  BY <1>0, <1>1 DEF TypeOK, Tasks, WaitStop, WaitDead, memVars
<1>2. CASE WaitNone \/ JumpAstray \/ Approve
  BY <1>0, <1>2 DEF TypeOK, WaitNone, JumpAstray, Approve, procVars, memVars
<1>3. CASE SetOptions
  BY <1>0, <1>3 DEF TypeOK, IInv, WorkInv, SetOptions
<1>4. CASE Cont
  BY <1>0, <1>4 DEF TypeOK, Tasks, Cont, Stopped, memVars
<1>5. CASE GetRegs
  <2>1. Stopped(child) => reg[child] \in Args
    BY <1>0, <1>5 DEF TypeOK, IInv, CallInv, WorkInv, Working, InCall, GetRegs, Stopped
  <2> QED BY <1>0, <1>5, <2>1 DEF TypeOK, GetRegs, procVars, memVars
<1>6. CASE GetEventMsg
  <2>1. Stopped(child) => Filter[reg[child]] \in Data
    BY <1>0, <1>6 DEF TypeOK, IInv, DecisionInv, WorkInv, Working, GetEventMsg, Stopped
  <2> QED BY <1>0, <1>6, <2>1 DEF TypeOK, GetEventMsg, procVars, memVars
<1>7. CASE RunHandler
  <2>1. Handler[<<seccomp_ret_data, arguments>>].arg \in Args
    BY <1>0, <1>7, HandlerAssumption DEF TypeOK, RunHandler
  <2> QED BY <1>0, <1>7, <2>1 DEF TypeOK, RunHandler, procVars, memVars
<1>8. CASE KillChild
  BY <1>0, <1>8, KillType DEF TypeOK, KillChild, memVars
<1>9. CASE SetRegs
  BY <1>0, <1>9 DEF TypeOK, SetRegs
<1>10. CASE TracerGone
  BY <1>0, <1>10 DEF TypeOK, Tasks, TracerGone, memVars
<1> QED BY <1>1, <1>2, <1>3, <1>4, <1>5, <1>6, <1>7, <1>8, <1>9, <1>10
        DEF TracerStep, TracerExit, TracerKilled

(* Every step keeps every variable in its range.                           *)
LEMMA TypeStep ==
  ASSUME IInv, [Next]_vars
  PROVE  TypeOK'
<1>1. CASE UNCHANGED vars
  BY <1>1 DEF IInv, TypeOK, vars, procVars, tracerVars, memVars
<1> QED BY <1>1, SystemType, TracerType DEF Next

-----------------------------------------------------------------------------
(* Calls and the process worked on *)

(* A process is in a call exactly from Enter to the outcome of the call.   *)
LEMMA CallStep ==
  ASSUME IInv, [Next]_vars
  PROVE  CallInv'
<1>0. TypeOK /\ CallInv
  BY DEF IInv
<1> USE DEF TypeOK, CallInv, InCall
<1>1. CASE TraceMe \/ SetupSeccomp \/ UNCHANGED vars
  BY <1>0, <1>1 DEF TraceMe, SetupSeccomp, vars, procVars
<1>2. CASE RaiseSigstop
  BY <1>0, <1>2, RootAssumption DEF RaiseSigstop, Stop
<1>3. ASSUME NEW p \in Procs, Exit(p) \/ KillByOther(p)
      PROVE  CallInv'
  BY <1>0, <1>3 DEF Exit, KillByOther, Kill
<1>4. ASSUME NEW p \in Procs, Signal(p)
      PROVE  CallInv'
  BY <1>0, <1>4 DEF Signal, Stop
<1>5. ASSUME NEW p \in Procs, Seccomp(p) \/ Recheck(p)
      PROVE  CallInv'
  <2>1. CASE KillBySeccomp(p)
    BY <1>0, <2>1 DEF KillBySeccomp, Kill
  <2>2. CASE task[p] \in {"enter", "resume"} /\ (Perform(p) \/ FailCall(p))
    BY <1>0, <2>2 DEF Perform, FailCall
  <2>3. CASE task[p] = "enter" /\ StopForSeccomp(p)
    BY <1>0, <2>3 DEF StopForSeccomp, Stop
  <2> QED BY <1>5, <2>1, <2>2, <2>3 DEF Seccomp, Recheck
<1>6. ASSUME NEW p \in Procs, NEW q \in Procs, Fork(p, q)
      PROVE  CallInv'
  BY <1>0, <1>6 DEF Fork
<1>7. ASSUME NEW p \in Procs, NEW a \in Args, Enter(p, a)
      PROVE  CallInv'
  BY <1>0, <1>7 DEF Enter
<1>8. ASSUME NEW p \in Procs, WaitStop(p) \/ WaitDead(p)
      PROVE  CallInv'
  BY <1>0, <1>8 DEF WaitStop, WaitDead
<1>9. CASE WaitNone \/ SetOptions \/ GetRegs \/ GetEventMsg \/ RunHandler \/ JumpAstray \/ Approve
  BY <1>0, <1>9 DEF WaitNone, SetOptions, GetRegs, GetEventMsg, RunHandler, JumpAstray, Approve, procVars
<1>10. CASE Cont
  BY <1>0, <1>10 DEF Cont, Stopped
<1>11. CASE KillChild
  BY <1>0, <1>11 DEF KillChild, Kill
<1>12. CASE SetRegs
  <2>1. Stopped(child) => InCall(child)
    BY <1>12 DEF IInv, WorkInv, Working, SetRegs, Stopped
  <2> QED BY <1>0, <1>12, <2>1 DEF SetRegs, Stopped
<1>13. CASE TracerExit \/ TracerKilled
  BY <1>0, <1>13 DEF TracerExit, TracerKilled, TracerGone, Alive, Tasks, IInv, WorkInv
<1> QED BY <1>1, <1>2, <1>3, <1>4, <1>5, <1>6, <1>7, <1>8, <1>9, <1>10, <1>11, <1>12, <1>13
        DEF Next, System, TracerStep

(* Only the tracer lets a process it works on go on, and nobody leaves the *)
(* options before the tracer is gone.                                      *)
LEMMA WorkStep ==
  ASSUME IInv, [Next]_vars
  PROVE  WorkInv'
<1>0. TypeOK /\ CallInv /\ WorkInv
  BY DEF IInv
<1> USE DEF TypeOK, Tasks, CallInv, WorkInv, Working, InCall
<1>1. CASE TraceMe \/ SetupSeccomp \/ UNCHANGED vars
  BY <1>0, <1>1 DEF TraceMe, SetupSeccomp, vars, procVars, tracerVars, memVars
<1>2. CASE RaiseSigstop
  BY <1>0, <1>2, RootAssumption DEF RaiseSigstop, Stop, tracerVars, memVars
<1>3. ASSUME NEW p \in Procs, Exit(p) \/ KillByOther(p)
      PROVE  WorkInv'
  BY <1>0, <1>3 DEF Exit, KillByOther, Kill, Alive, tracerVars, memVars
<1>4. ASSUME NEW p \in Procs, Signal(p)
      PROVE  WorkInv'
  BY <1>0, <1>4 DEF Signal, Stop, tracerVars, memVars
<1>5. ASSUME NEW p \in Procs, Seccomp(p) \/ Recheck(p)
      PROVE  WorkInv'
  <2>1. CASE task[p] \in {"enter", "resume"} /\ KillBySeccomp(p)
    BY <1>0, <2>1 DEF KillBySeccomp, Kill, tracerVars, memVars
  <2>2. CASE task[p] \in {"enter", "resume"} /\ (Perform(p) \/ FailCall(p))
    BY <1>0, <2>2 DEF Perform, FailCall, tracerVars, memVars
  <2>3. CASE task[p] = "enter" /\ p \in options /\ StopForSeccomp(p)
    BY <1>0, <2>3 DEF StopForSeccomp, Stop, tracerVars, memVars
  <2> QED BY <1>5, <2>1, <2>2, <2>3 DEF Seccomp, Recheck
<1>6. ASSUME NEW p \in Procs, NEW q \in Procs, Fork(p, q)
      PROVE  WorkInv'
  BY <1>0, <1>6 DEF Fork, tracerVars, memVars
<1>7. ASSUME NEW p \in Procs, NEW a \in Args, Enter(p, a)
      PROVE  WorkInv'
  BY <1>0, <1>7 DEF Enter, tracerVars, memVars
<1>8. ASSUME NEW p \in Procs, WaitStop(p) \/ WaitDead(p)
      PROVE  WorkInv'
  BY <1>0, <1>8 DEF WaitStop, WaitDead, memVars
<1>9. CASE WaitNone \/ GetRegs \/ GetEventMsg \/ RunHandler \/ JumpAstray \/ Approve
  BY <1>0, <1>9 DEF WaitNone, GetRegs, GetEventMsg, RunHandler, JumpAstray, Approve, procVars, memVars
<1>10. CASE SetOptions \/ SetRegs
  BY <1>0, <1>10 DEF SetOptions, SetRegs, Stopped
<1>11. CASE Cont
  BY <1>0, <1>11 DEF Cont, Stopped, memVars
<1>12. CASE KillChild
  BY <1>0, <1>12 DEF KillChild, Kill, memVars
<1>13. CASE TracerExit \/ TracerKilled
  BY <1>0, <1>13 DEF TracerExit, TracerKilled, TracerGone, Alive, memVars
<1> QED BY <1>1, <1>2, <1>3, <1>4, <1>5, <1>6, <1>7, <1>8, <1>9, <1>10, <1>11, <1>12, <1>13
        DEF Next, System, TracerStep

(* While the tracer works on a stop it was told of that stop only.         *)
LEMMA ReportStep ==
  ASSUME IInv, [Next]_vars
  PROVE  ReportInv'
<1>0. TypeOK /\ WorkInv /\ ReportInv
  BY DEF IInv
<1> USE DEF ReportInv
<1>1. CASE TraceMe \/ RaiseSigstop \/ SetupSeccomp \/ UNCHANGED vars
  BY <1>0, <1>1 DEF TraceMe, RaiseSigstop, SetupSeccomp, vars, procVars, tracerVars
<1>2. ASSUME NEW p \in Procs, Exit(p) \/ KillByOther(p) \/ Signal(p)
      PROVE  ReportInv'
  BY <1>0, <1>2 DEF Exit, KillByOther, Kill, Signal, tracerVars
<1>3. ASSUME NEW p \in Procs, Seccomp(p) \/ Recheck(p)
      PROVE  ReportInv'
  BY <1>0, <1>3 DEF Seccomp, Recheck, Perform, KillBySeccomp, Kill, FailCall, StopForSeccomp, tracerVars
<1>4. ASSUME NEW p \in Procs, NEW q \in Procs, NEW a \in Args, Fork(p, q) \/ Enter(p, a)
      PROVE  ReportInv'
  BY <1>0, <1>4 DEF Fork, Enter, tracerVars
<1>5. ASSUME NEW p \in Procs, WaitStop(p) \/ WaitDead(p)
      PROVE  ReportInv'
  BY <1>0, <1>5 DEF WaitStop, WaitDead
<1>6. CASE WaitNone \/ SetOptions \/ GetRegs \/ GetEventMsg \/ RunHandler \/ JumpAstray \/ Approve \/ SetRegs
  BY <1>0, <1>6 DEF WaitNone, SetOptions, GetRegs, GetEventMsg, RunHandler, JumpAstray, Approve, SetRegs, procVars
<1>7. CASE Cont
  BY <1>0, <1>7 DEF Cont, Stopped, TypeOK
<1>8. CASE KillChild
  BY <1>0, <1>8 DEF KillChild, Kill
<1>9. CASE TracerGone
  BY <1>9 DEF TracerGone
<1>10. Args # {}
  BY <1>0 DEF TypeOK
<1> QED BY <1>1, <1>2, <1>3, <1>4, <1>5, <1>6, <1>7, <1>8, <1>9, <1>10
        DEF Next, System, TracerStep, TracerExit, TracerKilled

-----------------------------------------------------------------------------
(* The decision of a call *)

(* What the tracer holds in its variables is about the call of the process *)
(* it works on, as long as that process lives.                             *)
LEMMA ReadStep ==
  ASSUME IInv, [Next]_vars
  PROVE  ReadInv'
<1>0. TypeOK /\ CallInv /\ WorkInv /\ ReadInv /\ DecisionInv
  BY DEF IInv
<1> USE DEF TypeOK, CallInv, WorkInv, ReadInv, Working, InCall
<1>1. CASE TraceMe \/ SetupSeccomp \/ UNCHANGED vars
  BY <1>0, <1>1 DEF TraceMe, SetupSeccomp, vars, procVars, tracerVars, memVars, Outcome
<1>2. CASE RaiseSigstop
  BY <1>0, <1>2, RootAssumption DEF RaiseSigstop, Stop, tracerVars, memVars, Outcome
<1>3. ASSUME NEW p \in Procs, Exit(p) \/ KillByOther(p)
      PROVE  ReadInv'
  BY <1>0, <1>3 DEF Exit, KillByOther, Kill, Alive, tracerVars, memVars, Outcome
<1>4. ASSUME NEW p \in Procs, Signal(p)
      PROVE  ReadInv'
  BY <1>0, <1>4 DEF Signal, Stop, tracerVars, memVars, Outcome
<1>5. ASSUME NEW p \in Procs, Seccomp(p) \/ Recheck(p)
      PROVE  ReadInv'
  <2>1. CASE task[p] \in {"enter", "resume"} /\ KillBySeccomp(p)
    BY <1>0, <2>1 DEF KillBySeccomp, Kill, tracerVars, memVars, Outcome
  <2>2. CASE task[p] \in {"enter", "resume"} /\ (Perform(p) \/ FailCall(p))
    BY <1>0, <2>2 DEF Perform, FailCall, tracerVars, memVars, Outcome
  <2>3. CASE task[p] = "enter" /\ p \in options /\ StopForSeccomp(p)
    BY <1>0, <2>3 DEF StopForSeccomp, Stop, tracerVars, memVars, Outcome
  <2> QED BY <1>5, <2>1, <2>2, <2>3 DEF Seccomp, Recheck
<1>6. ASSUME NEW p \in Procs, NEW q \in Procs, Fork(p, q)
      PROVE  ReadInv'
  BY <1>0, <1>6 DEF Fork, tracerVars, memVars, Outcome
<1>7. ASSUME NEW p \in Procs, NEW a \in Args, Enter(p, a)
      PROVE  ReadInv'
  BY <1>0, <1>7 DEF Enter, tracerVars, memVars, Outcome
<1>8. ASSUME NEW p \in Procs, WaitStop(p) \/ WaitDead(p)
      PROVE  ReadInv'
  BY <1>0, <1>8 DEF WaitStop, WaitDead, memVars
<1>9. CASE GetRegs \/ GetEventMsg
  BY <1>0, <1>9 DEF GetRegs, GetEventMsg, Stopped, DecisionInv, procVars
<1>10. CASE RunHandler
  BY <1>0, <1>10, HandlerAssumption DEF RunHandler, Outcome, procVars
<1>11. CASE Approve
  BY <1>0, <1>11 DEF Approve, Outcome, procVars, memVars
<1>12. CASE WaitNone \/ JumpAstray \/ SetOptions \/ SetRegs \/ Cont \/ KillChild \/ TracerGone
  BY <1>12 DEF WaitNone, JumpAstray, SetOptions, SetRegs, Cont, KillChild, TracerGone
<1> QED BY <1>1, <1>2, <1>3, <1>4, <1>5, <1>6, <1>7, <1>8, <1>9, <1>10, <1>11, <1>12
        DEF Next, System, TracerStep, TracerExit, TracerKilled

(* The tracer lets a call go on with the arguments the handler of that     *)
(* very call gave it, and only if the handler did not deny it.             *)
LEMMA DecisionStep ==
  ASSUME IInv, [Next]_vars
  PROVE  DecisionInv'
<1>0. TypeOK /\ CallInv /\ WorkInv /\ DecisionInv
  BY DEF IInv
<1> USE DEF TypeOK, CallInv, WorkInv, DecisionInv, Working, InCall
<1>1. CASE TraceMe \/ SetupSeccomp \/ UNCHANGED vars
  BY <1>0, <1>1 DEF TraceMe, SetupSeccomp, vars, procVars, tracerVars, memVars, Outcome
<1>2. CASE RaiseSigstop
  BY <1>0, <1>2, RootAssumption DEF RaiseSigstop, Stop, tracerVars, memVars, Outcome
<1>3. ASSUME NEW p \in Procs, Exit(p) \/ KillByOther(p)
      PROVE  DecisionInv'
  BY <1>0, <1>3 DEF Exit, KillByOther, Kill, tracerVars, memVars, Outcome
<1>4. ASSUME NEW p \in Procs, Signal(p)
      PROVE  DecisionInv'
  BY <1>0, <1>4 DEF Signal, Stop, tracerVars, memVars, Outcome
<1>5. ASSUME NEW p \in Procs, Seccomp(p) \/ Recheck(p)
      PROVE  DecisionInv'
  <2>1. CASE task[p] \in {"enter", "resume"} /\ KillBySeccomp(p)
    BY <1>0, <2>1 DEF KillBySeccomp, Kill, tracerVars, memVars, Outcome
  <2>2. CASE task[p] \in {"enter", "resume"} /\ (Perform(p) \/ FailCall(p))
    BY <1>0, <2>2 DEF Perform, FailCall, tracerVars, memVars, Outcome
  <2>3. CASE task[p] = "enter" /\ Filter[reg[p]] \in Data /\ p \in options /\ StopForSeccomp(p)
    BY <1>0, <2>3 DEF StopForSeccomp, Stop, tracerVars, memVars, Outcome
  <2> QED BY <1>5, <2>1, <2>2, <2>3 DEF Seccomp, Recheck
<1>6. ASSUME NEW p \in Procs, NEW q \in Procs, Fork(p, q)
      PROVE  DecisionInv'
  BY <1>0, <1>6 DEF Fork, tracerVars, memVars, Outcome
<1>7. ASSUME NEW p \in Procs, NEW a \in Args, Enter(p, a)
      PROVE  DecisionInv'
  BY <1>0, <1>7 DEF Enter, tracerVars, memVars, Outcome
<1>8. ASSUME NEW p \in Procs, WaitStop(p) \/ WaitDead(p)
      PROVE  DecisionInv'
  BY <1>0, <1>8 DEF WaitStop, WaitDead, memVars, Outcome
<1>9. CASE WaitNone \/ GetRegs \/ GetEventMsg \/ RunHandler \/ JumpAstray \/ SetOptions
  BY <1>0, <1>9 DEF WaitNone, GetRegs, GetEventMsg, RunHandler, JumpAstray, SetOptions, procVars, Outcome
<1>10. CASE Approve \/ SetRegs
  BY <1>0, <1>10 DEF Approve, SetRegs, Stopped, IInv, ReadInv, procVars, memVars, Outcome
<1>11. CASE Cont
  BY <1>0, <1>11 DEF Cont, Stopped, memVars, Outcome
<1>12. CASE KillChild
  BY <1>0, <1>12 DEF KillChild, Kill, memVars, Outcome
<1>13. CASE TracerExit \/ TracerKilled
  BY <1>0, <1>13 DEF TracerExit, TracerKilled, TracerGone, Alive, memVars, Outcome
<1> QED BY <1>1, <1>2, <1>3, <1>4, <1>5, <1>6, <1>7, <1>8, <1>9, <1>10, <1>11, <1>12, <1>13
        DEF Next, System, TracerStep

(* A call is performed with the arguments its filter or handler let it     *)
(* have: no other step performs one.                                       *)
LEMMA PerformedStep ==
  ASSUME IInv, [Next]_vars
  PROVE  PerformedInv'
<1>0. TypeOK /\ CallInv /\ DecisionInv /\ PerformedInv
  BY DEF IInv
<1>1. ASSUME UNCHANGED performed
      PROVE  PerformedInv'
  BY <1>0, <1>1 DEF PerformedInv, Decided, Outcome
<1>2. ASSUME NEW p \in Procs, Seccomp(p) \/ Recheck(p)
      PROVE  PerformedInv'
  <2>1. asked[p] \in Args /\ reg[p] \in Args
    BY <1>0, <1>2 DEF CallInv, InCall, Seccomp, Recheck
  <2>2. ASSUME Decided(asked[p], reg[p]), Perform(p)
        PROVE  PerformedInv'
    BY <1>0, <2>2 DEF PerformedInv, Perform, Decided, Outcome
  <2>3. CASE task[p] = "enter" /\ Filter[reg[p]] = "allow" /\ Perform(p)
    BY <1>0, <2>2, <2>3 DEF DecisionInv, Decided
  <2>4. CASE task[p] = "resume" /\ Filter[reg[p]] # "kill" /\ Perform(p)
    BY <1>0, <2>2, <2>4 DEF DecisionInv, Decided
  <2>5. CASE KillBySeccomp(p) \/ FailCall(p) \/ StopForSeccomp(p)
    BY <1>1, <2>5 DEF KillBySeccomp, FailCall, StopForSeccomp
  <2> QED BY <1>2, <2>3, <2>4, <2>5 DEF Seccomp, Recheck
<1>3. ASSUME NEW p \in Procs, NEW q \in Procs, NEW a \in Args,
             Exit(p) \/ KillByOther(p) \/ Signal(p) \/ Fork(p, q) \/ Enter(p, a) \/ WaitStop(p) \/ WaitDead(p)
      PROVE  UNCHANGED performed
  BY <1>3 DEF Exit, KillByOther, Signal, Fork, Enter, WaitStop, WaitDead
<1>4. TraceMe \/ RaiseSigstop \/ SetupSeccomp \/ UNCHANGED vars => UNCHANGED performed
  BY DEF TraceMe, RaiseSigstop, SetupSeccomp, vars, procVars
<1>5. WaitNone \/ SetOptions \/ Cont \/ GetRegs \/ GetEventMsg \/ RunHandler \/ JumpAstray
        \/ KillChild \/ Approve \/ SetRegs \/ TracerGone => UNCHANGED performed
  BY DEF WaitNone, SetOptions, Cont, GetRegs, GetEventMsg, RunHandler, JumpAstray, KillChild, Approve,
         SetRegs, TracerGone, procVars
<1>6. Args # {}
  BY <1>0 DEF TypeOK
<1> QED BY <1>1, <1>2, <1>3, <1>4, <1>5, <1>6 DEF Next, System, TracerStep, TracerExit, TracerKilled

-----------------------------------------------------------------------------
(* Supervision *)

(* A process that may make calls is under the options, and nothing is left *)
(* alive when the tracer is gone.                                          *)
LEMMA SuperviseStep ==
  ASSUME IInv, [Next]_vars
  PROVE  SuperviseInv'
<1>0. TypeOK /\ CallInv /\ WorkInv /\ SuperviseInv
  BY DEF IInv
<1> USE DEF TypeOK, Tasks, SuperviseInv, Alive
<1>1. CASE TraceMe \/ SetupSeccomp \/ UNCHANGED vars
  BY <1>0, <1>1, RootAssumption DEF TraceMe, SetupSeccomp, vars, procVars, tracerVars, memVars
<1>2. CASE RaiseSigstop
  BY <1>0, <1>2, RootAssumption DEF RaiseSigstop, Stop, tracerVars, memVars
<1>3. ASSUME NEW p \in Procs, Exit(p) \/ KillByOther(p)
      PROVE  SuperviseInv'
  BY <1>0, <1>3, RootAssumption DEF Exit, KillByOther, Kill, tracerVars, memVars
<1>4. ASSUME NEW p \in Procs, Signal(p)
      PROVE  SuperviseInv'
  BY <1>0, <1>4, RootAssumption DEF Signal, Stop, tracerVars, memVars
<1>5. ASSUME NEW p \in Procs, Seccomp(p) \/ Recheck(p)
      PROVE  SuperviseInv'
  <2>1. CASE task[p] \in {"enter", "resume"} /\ KillBySeccomp(p)
    BY <1>0, <2>1, RootAssumption DEF KillBySeccomp, Kill, tracerVars, memVars
  <2>2. CASE task[p] \in {"enter", "resume"} /\ (Perform(p) \/ FailCall(p))
    BY <1>0, <2>2, RootAssumption DEF Perform, FailCall, tracerVars, memVars
  <2>3. CASE task[p] = "enter" /\ p \in options /\ StopForSeccomp(p)
    BY <1>0, <2>3, RootAssumption DEF StopForSeccomp, Stop, tracerVars, memVars
  <2> QED BY <1>5, <2>1, <2>2, <2>3 DEF Seccomp, Recheck
<1>6. ASSUME NEW p \in Procs, NEW q \in Procs, Fork(p, q)
      PROVE  SuperviseInv'
  BY <1>0, <1>6, RootAssumption DEF Fork, tracerVars, memVars
<1>7. ASSUME NEW p \in Procs, NEW a \in Args, Enter(p, a)
      PROVE  SuperviseInv'
  BY <1>0, <1>7, RootAssumption DEF Enter, tracerVars, memVars
<1>8. ASSUME NEW p \in Procs, WaitStop(p) \/ WaitDead(p)
      PROVE  SuperviseInv'
  BY <1>0, <1>8, RootAssumption DEF WaitStop, WaitDead, memVars
<1>9. CASE WaitNone \/ GetRegs \/ GetEventMsg \/ RunHandler \/ JumpAstray \/ Approve \/ SetRegs
  BY <1>0, <1>9 DEF WaitNone, GetRegs, GetEventMsg, RunHandler, JumpAstray, Approve, SetRegs, WorkInv, Working, procVars, memVars
<1>10. CASE SetOptions
  BY <1>0, <1>10, RootAssumption DEF SetOptions, Stopped, WorkInv
<1>11. CASE Cont
  BY <1>0, <1>11, RootAssumption DEF Cont, Stopped, WorkInv, memVars
<1>12. CASE KillChild
  BY <1>0, <1>12, RootAssumption DEF KillChild, Kill, memVars
<1>13. CASE TracerExit \/ TracerKilled
  BY <1>0, <1>13, RootAssumption DEF TracerExit, TracerKilled, TracerGone, memVars
<1> QED BY <1>1, <1>2, <1>3, <1>4, <1>5, <1>6, <1>7, <1>8, <1>9, <1>10, <1>11, <1>12, <1>13
        DEF Next, System, TracerStep

-----------------------------------------------------------------------------
(* Theorems *)

(* IInv is an inductive invariant of the sandbox at run time, whatever     *)
(* filter, handlers and processes there are.                               *)
THEOREM InductiveInvariant == Spec => []IInv
<1>1. Init => IInv
  BY InitInvariant
<1>2. IInv /\ [Next]_vars => IInv'
  BY TypeStep, CallStep, WorkStep, ReadStep, DecisionStep, SuperviseStep, ReportStep, PerformedStep DEF IInv
<1> QED BY <1>1, <1>2, PTL DEF Spec

(* Every variable of tracer, processes and kernel stays in its range; in   *)
(* particular the tracer never works on a process that does not exist, and *)
(* a call is performed only with arguments it was given.                   *)
THEOREM TypeCorrect == Spec => []TypeOK
<1>1. IInv => TypeOK
  BY DEF IInv
<1> QED BY <1>1, InductiveInvariant, PTL

(* The options are on every living process under the filter as long as the *)
(* tracer runs: a trace return never finds a process without its tracer.   *)
THEOREM SupervisedCorrect == Spec => []Supervised
<1>1. IInv => Supervised
  BY DEF IInv, SuperviseInv, Supervised
<1> QED BY <1>1, InductiveInvariant, PTL

(* The loop goes back to wait() only after it has answered the stop it was *)
(* told of.                                                                *)
THEOREM NoStrandedStopCorrect == Spec => []NoStrandedStop
<1>1. IInv => NoStrandedStop
  BY DEF IInv, ReportInv, NoStrandedStop
<1> QED BY <1>1, InductiveInvariant, PTL

(* No process of the sandbox lives on once the tracer is gone, however it  *)
(* ended, if main() had come as far as setting the options.                *)
THEOREM NothingOutlivesCorrect == Spec => []NothingOutlives
<1>1. IInv => NothingOutlives
  BY DEF IInv, SuperviseInv, NothingOutlives
<1> QED BY <1>1, InductiveInvariant, PTL

(* Every handler ends with a verdict: no generated code falls through to   *)
(* out without ALLOW() or DENY().                                          *)
HandlersDecide == \A a \in Args : Filter[a] \in Data => Outcome(a).verdict # "fall"

(* What filter or handler decided is what the policy permits.              *)
LEMMA DecidedPermitted ==
  ASSUME HandlersDecide, NEW a \in Args, NEW b \in Args, Decided(a, b)
  PROVE  b \in Permitted[a]
<1>1. CASE Filter[a] = "allow" /\ a = b
  BY <1>1 DEF Permitted
<1>2. CASE Filter[a] \in Data /\ Filter[b] # "kill" /\ Outcome(a).verdict # "deny" /\ Outcome(a).arg = b
  <2>1. Filter[a] \notin {"allow", "kill"}
    BY <1>2, NamesAssumption
  <2>2. Handler[<<Filter[a], a>>] = [verdict |-> "allow", arg |-> b]
    BY <1>2, HandlerAssumption DEF HandlersDecide, Outcome
  <2> QED BY <1>2, <2>1, <2>2 DEF Permitted
<1> QED BY <1>1, <1>2 DEF Decided

(* If every handler gives a verdict, each call is performed as the policy  *)
(* permits for the very call that was asked for, though the decision is    *)
(* made in globals that outlive processes and stops.                       *)
THEOREM OnlyPermittedPerformedCorrect ==
  ASSUME HandlersDecide
  PROVE  Spec => []OnlyPermittedPerformed
<1>1. IInv => OnlyPermittedPerformed
  BY DecidedPermitted DEF IInv, PerformedInv, TypeOK, OnlyPermittedPerformed
<1> QED BY <1>1, InductiveInvariant, PTL

(* Whatever handlers there are: a call performed was allowed by the filter *)
(* as it stands, or was handed to its own handler, which did not deny it,  *)
(* and is performed with the argument that handler left.  Only the verdict *)
(* of a handler that has none can be that of an earlier call.              *)
THEOREM EveryCallDecided == Spec => []PerformedInv
<1>1. IInv => PerformedInv
  BY DEF IInv
<1> QED BY <1>1, InductiveInvariant, PTL

-----------------------------------------------------------------------------
(* The sandbox *)

Live == {p \in Procs : Alive(p)}
Born == {p \in Procs : task[p] # "unborn"}

(* Steps that leave processes and calls as they are are not seen from      *)
(* outside.                                                                *)
Unseen == UNCHANGED <<Live, Born, asked, performed>>

(* Only processes that die are seen of a kill.                             *)
LEMMA KillIsDie ==
  ASSUME TypeOK, CallInv, NEW S \in SUBSET Live, Kill(S), UNCHANGED performed
  PROVE  [Promise!Next]_(Promise!vars)
<1>1. Live' = Live \ S /\ Born' = Born
  BY DEF Live, Born, Kill, Alive, TypeOK, Tasks
<1>2. CASE S = {}
  BY <1>1, <1>2 DEF Promise!vars, Kill, TypeOK, Live, Born
<1>3. CASE S # {}
  <2>1. Promise!Die(S)
    BY <1>1, <1>3 DEF Promise!Die, Kill, Live, Born
  <2> QED BY <2>1 DEF Promise!Next, Live
<1> QED BY <1>2, <1>3

(* Every step of the system is one of the sandbox, or unseen.              *)
LEMMA SystemImplements ==
  ASSUME HandlersDecide, IInv, System
  PROVE  [Promise!Next]_(Promise!vars)
<1>0. TypeOK /\ CallInv /\ DecisionInv
  BY DEF IInv
<1>1. ASSUME Unseen
      PROVE  [Promise!Next]_(Promise!vars)
  BY <1>1 DEF Unseen, Promise!vars, Live, Born
<1>2. CASE TraceMe \/ RaiseSigstop \/ SetupSeccomp
  <2>1. Unseen
    BY <1>0, <1>2, RootAssumption DEF Unseen, Live, Born, Alive, TypeOK, TraceMe, RaiseSigstop, SetupSeccomp, Stop
  <2> QED BY <1>1, <2>1
<1>3. ASSUME NEW p \in Procs, Exit(p) \/ KillByOther(p)
      PROVE  [Promise!Next]_(Promise!vars)
  <2>1. {p} \in SUBSET Live /\ Kill({p}) /\ UNCHANGED performed
    BY <1>3 DEF Exit, KillByOther, Live, Alive
  <2> QED BY <1>0, <2>1, KillIsDie
<1>4. ASSUME NEW p \in Procs, Signal(p)
      PROVE  [Promise!Next]_(Promise!vars)
  <2>1. Unseen
    BY <1>0, <1>4 DEF Unseen, Live, Born, Alive, TypeOK, Signal, Stop
  <2> QED BY <1>1, <2>1
<1>5. ASSUME NEW p \in Procs, Seccomp(p) \/ Recheck(p)
      PROVE  [Promise!Next]_(Promise!vars)
  <2>1. /\ task[p] \in {"enter", "resume"} /\ p \in Live
        /\ asked[p] \in Args /\ reg[p] \in Args
    BY <1>0, <1>5 DEF CallInv, InCall, Seccomp, Recheck, Live, Alive
  <2>2. ASSUME Decided(asked[p], reg[p]), Perform(p)
        PROVE  [Promise!Next]_(Promise!vars)
    <3>1. reg[p] \in Permitted[asked[p]]
      BY <2>1, <2>2, DecidedPermitted
    <3>2. Live' = Live /\ Born' = Born
      BY <1>0, <2>1, <2>2 DEF Live, Born, Alive, TypeOK, Perform
    <3>3. Promise!Perform(p)
      BY <2>1, <2>2, <3>1, <3>2, NamesAssumption DEF Promise!Perform, Perform, Live, Born
    <3> QED BY <3>3 DEF Promise!Next
  <2>3. CASE task[p] = "enter" /\ Filter[reg[p]] = "allow" /\ Perform(p)
    BY <1>0, <2>2, <2>3 DEF DecisionInv, Decided
  <2>4. CASE task[p] = "resume" /\ Filter[reg[p]] # "kill" /\ Perform(p)
    BY <1>0, <2>2, <2>4 DEF DecisionInv, Decided
  <2>5. CASE KillBySeccomp(p)
    BY <1>0, <2>1, <2>5, KillIsDie DEF KillBySeccomp
  <2>6. CASE FailCall(p)
    <3>1. Live' = Live /\ Born' = Born
      BY <1>0, <2>1, <2>6 DEF Live, Born, Alive, TypeOK, FailCall
    <3>2. Promise!Refuse(p)
      BY <2>1, <2>6, <3>1 DEF Promise!Refuse, FailCall, Live, Born
    <3> QED BY <3>2 DEF Promise!Next
  <2>7. CASE StopForSeccomp(p)
    <3>1. Unseen
      BY <1>0, <2>1, <2>7 DEF Unseen, Live, Born, Alive, TypeOK, StopForSeccomp, Stop
    <3> QED BY <1>1, <3>1
  <2> QED BY <1>5, <2>3, <2>4, <2>5, <2>6, <2>7 DEF Seccomp, Recheck
<1>6. ASSUME NEW p \in Procs, NEW q \in Procs, Fork(p, q)
      PROVE  [Promise!Next]_(Promise!vars)
  <2>1. /\ p \in Live /\ asked[p] = None /\ q \notin Born
        /\ Live' = Live \cup {q} /\ Born' = Born \cup {q}
    BY <1>0, <1>6 DEF Live, Born, Alive, TypeOK, CallInv, InCall, Fork
  <2>2. Promise!Spawn(p, q)
    BY <1>6, <2>1 DEF Promise!Spawn, Fork, Live, Born
  <2> QED BY <2>2 DEF Promise!Next
<1>7. ASSUME NEW p \in Procs, NEW a \in Args, Enter(p, a)
      PROVE  [Promise!Next]_(Promise!vars)
  <2>1. /\ p \in Live /\ asked[p] = None
        /\ Live' = Live /\ Born' = Born
    BY <1>0, <1>7 DEF Live, Born, Alive, TypeOK, CallInv, InCall, Enter
  <2>2. Promise!Ask(p, a)
    BY <1>7, <2>1 DEF Promise!Ask, Enter, Live, Born
  <2> QED BY <2>2 DEF Promise!Next
<1> QED BY <1>2, <1>3, <1>4, <1>5, <1>6, <1>7 DEF System

(* The tracer is seen only when it kills.                                  *)
LEMMA TracerImplements ==
  ASSUME IInv, TracerStep \/ TracerKilled
  PROVE  [Promise!Next]_(Promise!vars)
<1>0. TypeOK /\ CallInv /\ WorkInv
  BY DEF IInv
<1>1. ASSUME Unseen
      PROVE  [Promise!Next]_(Promise!vars)
  BY <1>1 DEF Unseen, Promise!vars, Live, Born
<1>2. ASSUME NEW p \in Procs, WaitStop(p) \/ WaitDead(p)
      PROVE  Unseen
  BY <1>0, <1>2 DEF Unseen, Live, Born, Alive, TypeOK, WaitStop, WaitDead
<1>3. CASE WaitNone \/ SetOptions \/ GetRegs \/ GetEventMsg \/ RunHandler \/ JumpAstray \/ Approve \/ SetRegs
  <2>1. Unseen
    BY <1>3 DEF Unseen, Live, Born, Alive, WaitNone, SetOptions, GetRegs, GetEventMsg, RunHandler,
                JumpAstray, Approve, SetRegs, procVars
  <2> QED BY <1>1, <2>1
<1>4. CASE Cont
  <2>1. Unseen
    BY <1>0, <1>4 DEF Unseen, Live, Born, Alive, TypeOK, Cont, Stopped
  <2> QED BY <1>1, <2>1
<1>5. CASE KillChild
  <2> DEFINE S == IF Alive(child) THEN {child} ELSE {}
  <2>1. S \in SUBSET Live /\ Kill(S) /\ UNCHANGED performed
    BY <1>0, <1>5 DEF KillChild, Live, TypeOK
  <2> HIDE DEF S
  <2> QED BY <1>0, <2>1, KillIsDie
<1>6. CASE TracerExit \/ TracerKilled
  <2> DEFINE S == {p \in options : Alive(p)}
  <2>1. S \in SUBSET Live /\ UNCHANGED performed
    BY <1>0, <1>6 DEF TracerExit, TracerKilled, TracerGone, Live, TypeOK
  <2>2. Live' = Live \ S /\ Born' = Born /\ asked' = [p \in Procs |-> IF p \in S THEN None ELSE asked[p]]
    BY <1>0, <1>6 DEF TracerExit, TracerKilled, TracerGone, Live, Born, Alive, TypeOK, Tasks
  <2>3. CASE S = {}
    BY <1>0, <2>1, <2>2, <2>3 DEF Promise!vars, Live, Born, TypeOK
  <2>4. CASE S # {}
    <3>1. Promise!Die(S)
      BY <2>1, <2>2, <2>4 DEF Promise!Die, Live, Born
    <3> QED BY <2>1, <3>1 DEF Promise!Next, Live
  <2> QED BY <2>3, <2>4
<1> QED BY <1>1, <1>2, <1>3, <1>4, <1>5, <1>6 DEF TracerStep

(* If every handler gives a verdict, tracer, kernel and filter together    *)
(* implement the sandbox the policy describes, whatever is killed when.    *)
THEOREM Implementation ==
  ASSUME HandlersDecide
  PROVE  Spec => ImplementsSandbox
<1>1. Init => Promise!Init
  BY RootAssumption DEF Init, Promise!Init, Alive
<1>2. IInv /\ [Next]_vars => [Promise!Next]_(Promise!vars)
  <2>1. CASE UNCHANGED vars
    BY <2>1 DEF vars, procVars, Promise!vars, Alive
  <2> QED BY <2>1, SystemImplements, TracerImplements DEF Next
<1> QED BY <1>1, <1>2, InductiveInvariant, PTL DEF Spec, ImplementsSandbox, Promise!Spec
=============================================================================

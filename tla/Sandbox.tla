------------------------------- MODULE Sandbox -------------------------------
(***************************************************************************)
(* What a generated sandbox promises, with no filter, no tracer and no     *)
(* stops: a tree of processes that ask for system calls, in which a call   *)
(* is performed only as the policy lets the call that was asked for be     *)
(* performed.  The promise is the one of README.md, "limit the system      *)
(* calls and arguments that each program can call"; Tracer implements it.  *)
(***************************************************************************)
CONSTANTS
  Procs,      \* processes that may ever exist
  Root,       \* the sandboxed program
  Args,       \* system calls, with the arguments a policy tells apart
  None,       \* no call
  Permitted   \* what each call may be performed as: a set of calls, empty if it may not

VARIABLES
  live,       \* processes that can run
  born,       \* processes that exist or have existed
  asked,      \* the call a process is waiting for
  performed   \* pairs of a call asked for and the call performed for it

vars == <<live, born, asked, performed>>

Init ==
  /\ live = {Root}
  /\ born = {Root}
  /\ asked = [p \in Procs |-> None]
  /\ performed = {}

Spawn(p, q) ==
  /\ p \in live
  /\ asked[p] = None
  /\ q \in Procs \ born
  /\ live' = live \cup {q}
  /\ born' = born \cup {q}
  /\ UNCHANGED <<asked, performed>>

Ask(p, a) ==
  /\ p \in live
  /\ asked[p] = None
  /\ asked' = [asked EXCEPT ![p] = a]
  /\ UNCHANGED <<live, born, performed>>

(* The policy decides on what the process asked for, and the process that  *)
(* asked performs what was decided.                                        *)
Perform(p) ==
  /\ p \in live
  /\ asked[p] # None
  /\ \E b \in Permitted[asked[p]] : performed' = performed \cup {<<asked[p], b>>}
  /\ asked' = [asked EXCEPT ![p] = None]
  /\ UNCHANGED <<live, born>>

(* A call may fail instead; nothing is performed for it.                   *)
Refuse(p) ==
  /\ p \in live
  /\ asked' = [asked EXCEPT ![p] = None]
  /\ UNCHANGED <<live, born, performed>>

(* Processes exit or are killed, one or all of them; what they had asked   *)
(* for is never performed.                                                 *)
Die(S) ==
  /\ S # {}
  /\ live' = live \ S
  /\ asked' = [p \in Procs |-> IF p \in S THEN None ELSE asked[p]]
  /\ UNCHANGED <<born, performed>>

Next ==
  \/ \E p, q \in Procs : Spawn(p, q)
  \/ \E p \in Procs, a \in Args : Ask(p, a)
  \/ \E p \in Procs : Perform(p) \/ Refuse(p)
  \/ \E S \in SUBSET live : Die(S)

Spec == Init /\ [][Next]_vars
=============================================================================

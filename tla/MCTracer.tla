------------------------------ MODULE MCTracer -------------------------------
(* A policy with every kind of verdict, for the runs of Tracer.            *)
EXTENDS Tracer, TLC

CONSTANTS p1, p2, p3,
  plain,    \* a call the filter allows
  banned,   \* a call the filter kills for
  checked,  \* handed over under d1, allowed as it is
  secret,   \* handed over under d1, denied
  moved,    \* handed over under d2, allowed with its argument replaced
  bent,     \* handed over under d2, turned into one the filter kills for
  d1, d2

MCFilter ==
  [a \in Args |->
     CASE a = plain -> "allow"
       [] a = banned -> "kill"
       [] a \in {checked, secret} -> d1
       [] a \in {moved, bent} -> d2]

MCHandler ==
  [c \in Data \X Args |->
     CASE c = <<d1, secret>> -> [verdict |-> "deny", arg |-> secret]
       [] c[1] = d1 /\ c[2] # secret -> [verdict |-> "allow", arg |-> c[2]]
       [] c = <<d2, moved>> -> [verdict |-> "allow", arg |-> plain]
       [] c = <<d2, bent>> -> [verdict |-> "allow", arg |-> banned]
       [] c[1] = d2 /\ c[2] \notin {moved, bent} -> [verdict |-> "allow", arg |-> c[2]]]

Children == Permutations(Procs \ {Root})
=============================================================================

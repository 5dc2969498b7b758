------------------------------- MODULE MCDriver --------------------------------
(* One policy of each kind, and two that need the tracer.                  *)
EXTENDS Driver

MCErrors == [p \in Policies |-> CASE p = "misspelt" -> 1 [] p = "hopeless" -> 3
                                  [] p = "argless" -> 2 [] OTHER -> 0]
=============================================================================

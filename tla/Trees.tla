--------------------------------- MODULE Trees ---------------------------------
(***************************************************************************)
(* Expressions of a policy: the tokens of their text and the trees that    *)
(* the grammars of the policy language and of C make of them.              *)
(***************************************************************************)
EXTENDS Integers

Sign(op) == <<"op", op>>
Number(n) == <<"num", n>>
Name(x) == <<"name", x>>
Invoke(f, xs) == <<"call", f, xs>>   \* a whole invocation
Open == <<"(">>
Close == <<")">>

Node(op, l, r) == [e |-> "op", op |-> op, left |-> l, right |-> r]
Negative(l) == [e |-> "neg", left |-> l]
Leaf(token) == [e |-> "leaf", token |-> token]
Error == [e |-> "error"]

Comparisons == {"==", "!=", ">", "<", ">=", "<="}
=============================================================================

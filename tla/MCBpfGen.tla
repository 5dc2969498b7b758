------------------------------- MODULE MCBpfGen ------------------------------
(* Conditions for the runs of BpfGen.                                      *)
EXTENDS BpfGen

MCInputs == {0, 1, 2, 3, 5, 16, 24, 63}

Leaves == {Arg(0), Arg(1), Num(2)}
Ops == {"+", "-", "*", "&", ">>"}
Compares == {"==", "!=", ">", ">=", "<"}
Small == {Op(op, l, r) : op \in Ops, l \in Leaves, r \in {Arg(1), Num(2)}}
Sums == {Op(op, l, Num(3)) : op \in {"+", "&"}, l \in {Arg(0), Arg(1)}}
Medium == {Op(op, l, r) : op \in {"+", "-", "*"}, l \in Sums \cup Leaves, r \in Sums}
Negative == {Minus(e) : e \in {Arg(0), Num(2)} \cup Sums}
Large == {Op("*", l, r) : l \in Medium, r \in Sums \cup {Op("+", s, t) : s \in Sums, t \in Sums}}

(* One comparison of every shape, and two in a row.                        *)
MCConditions ==
  {<<Compare(op, l, r)>> : op \in Compares, l \in Leaves \cup Small, r \in Leaves \cup Sums}
    \cup {<<Compare(">", Op(op, l, r), m)>> : op \in {"+", "*"}, l \in Negative, r \in Negative \cup Sums,
                                              m \in {Num(2)} \cup Negative}
    \cup {<<Compare(op, l, r)>> : op \in {"==", ">"}, l \in Medium \cup Large, r \in {Num(2)} \cup Sums}
    \cup {<<Compare("!=", l, Num(1)), Compare(op, m, r)>> :
            op \in {"==", ">"}, l \in Sums \cup {Op("+", s, t) : s \in Sums, t \in Sums},
            m \in Leaves \cup Sums, r \in {Num(2)} \cup Sums}
=============================================================================

----------------------------- MODULE MCFrontEnd ------------------------------
(* Checks for the runs of CodeGen: some differ in their condition, others  *)
(* in how statements are nested.                                           *)
EXTENDS FrontEnd

MCAtoms == {"a", "b", "h"}
MCHelpers == {"h"}

(* Every condition with at most three operators over three atoms, where    *)
(* operators are nested at most twice, in an if with and without else.     *)
Negated(C) == C \cup {Not(c) : c \in C}
Joined(C, D) == {And(c, d) : c \in C, d \in D} \cup {Or(c, d) : c \in C, d \in D}

Tests == {Test(a) : a \in MCAtoms}
Simple == Negated(Tests)
Conditions == Simple \cup Negated(Joined(Simple, Simple))
                \cup Negated(Joined(Joined(Tests, Simple), Tests))
                \cup Joined(Tests, Negated(Joined(Tests, Tests)))
                \cup Joined(Negated(Joined(Tests, Tests)), Negated(Joined(Tests, Tests)))

MCConditionChecks ==
  {<<If(c, <<Perm("allow")>>, <<<<Perm("deny")>>>>)>> : c \in Conditions}
    \cup {<<If(c, <<Assign("x")>>, <<>>), Perm("deny")>> : c \in Simple \cup Joined(Tests, Tests)}

(* Ifs in the parts of ifs, followed or not by another statement.          *)
Leaves == {Perm("allow"), Perm("deny"), Assign("x")}
Inner ==
  {If(Test("b"), then, els) :
     then \in {<<>>, <<Perm("allow")>>, <<Assign("x")>>},
     els \in {<<>>, <<<<>>>>, <<<<Perm("deny")>>>>, <<<<Assign("y")>>>>}}
Short == {<<>>} \cup {<<s>> : s \in Leaves \cup Inner}
Bodies ==
  Short \cup {<<s, t>> : s \in Inner, t \in Leaves} \cup {<<s, t>> : s \in Leaves, t \in Leaves}
Outer ==
  {If(Test("h"), then, els) : then \in Bodies, els \in {<<>>} \cup {<<b>> : b \in Short}}

MCNestedChecks ==
  {<<>>} \cup {<<s>> : s \in Leaves \cup Outer}
    \cup {<<s, t>> : s \in Outer, t \in {Perm("allow"), Assign("z")}}

MCFrontEndChecks == MCConditionChecks \cup MCNestedChecks
=============================================================================

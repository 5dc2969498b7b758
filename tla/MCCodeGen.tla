------------------------------ MODULE MCCodeGen ------------------------------
(* Checks for the runs of CodeGen: those of MCFrontEnd, and conditions     *)
(* that lead several branches to one block.                                *)
EXTENDS CodeGen, MCFrontEnd

MCScalars == {"y"}

(* Conditions of two tests, so that a part of the if is entered twice.     *)
Twice == {And(Test("a"), Test("h")), Or(Test("a"), Test("h")), Or(Test("h"), Test("b")),
          And(Test("b"), Not(Or(Test("a"), Test("b"))))}
Parts == {<<Perm("allow")>>, <<Assign("x"), Perm("allow")>>, <<Assign("y")>>}
           \cup {<<If(c, <<Assign("x"), Perm("allow")>>, els)>> :
                  c \in Twice, els \in {<<>>, <<<<Perm("deny")>>>>}}
MCSharedChecks ==
  {<<If(c, then, els)>> : c \in Twice, then \in Parts, els \in {<<>>} \cup {<<p>> : p \in Parts}}
    \cup {<<If(c, then, els), Assign("z"), Perm("deny")>> :
             c \in Twice, then \in Parts, els \in {<<>>} \cup {<<p>> : p \in Parts}}

MCChecks == MCFrontEndChecks \cup MCSharedChecks
=============================================================================

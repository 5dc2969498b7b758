------------------------------ MODULE FrontEnd -------------------------------
(***************************************************************************)
(* From the statements of one system-call check to its code: IRGen of the  *)
(* syntax tree (ast.cpp).  IRPasses takes the code to the control-flow     *)
(* graph.                                                                  *)
(*                                                                         *)
(* A comparison, or an expression standing for "expr != 0", is an atom: it *)
(* is one conditional branch, preceded by a call if it invokes a helper.   *)
(* Recursive operators follow the syntax tree, so only TLC reads this      *)
(* module.                                                                 *)
(***************************************************************************)
EXTENDS IRPasses

CONSTANT Helpers   \* the atoms that call a helper function

ASSUME HelpersAssumption == Helpers \subseteq Atoms

-----------------------------------------------------------------------------
(* Syntax trees *)

Test(a) == [op |-> "test", atom |-> a]
Not(c) == [op |-> "not", arg |-> c]
And(c, d) == [op |-> "and", left |-> c, right |-> d]
Or(c, d) == [op |-> "or", left |-> c, right |-> d]

Perm(type) == [kind |-> "perm", type |-> type]
Assign(x) == [kind |-> "assign", var |-> x]
(* els holds one statement list if there is an else part, none otherwise.  *)
If(c, then, els) == [kind |-> "if", cond |-> c, then |-> then, els |-> els]

-----------------------------------------------------------------------------
(* IRGen.  mgr is the state of CodeGenMgr and the code emitted so far.     *)

NewMgr == [code |-> <<>>, label_cnt |-> 0, true_target |-> 0, false_target |-> 0, saved |-> <<>>]

Emit(mgr, inst) == [mgr EXCEPT !.code = Append(@, inst)]

SaveBranchTarget(mgr) ==
  [mgr EXCEPT !.saved = Append(@, <<mgr.true_target, mgr.false_target>>)]

RestoreBranchTarget(mgr) ==
  [mgr EXCEPT !.true_target = Last(mgr.saved)[1], !.false_target = Last(mgr.saved)[2],
              !.saved = Front(@)]

RECURSIVE GenBranchCode(_, _), GenStmts(_, _)

GenTest(c, mgr) ==
  Emit(IF c.atom \in Helpers THEN Emit(mgr, Call(c.atom)) ELSE mgr,
       Branch(c.atom, mgr.true_target, mgr.false_target))

GenAnd(c, mgr) ==
  LET label == mgr.label_cnt + 1
      left == GenBranchCode(c.left, [SaveBranchTarget(mgr) EXCEPT !.label_cnt = label,
                                                                  !.true_target = label])
  IN  GenBranchCode(c.right, Emit(RestoreBranchTarget(left), Label(label)))

GenOr(c, mgr) ==
  LET label == mgr.label_cnt + 1
      left == GenBranchCode(c.left, [SaveBranchTarget(mgr) EXCEPT !.label_cnt = label,
                                                                  !.false_target = label])
  IN  GenBranchCode(c.right, Emit(RestoreBranchTarget(left), Label(label)))

(* Mutant: the targets are swapped without keeping the first.              *)
GenNotOverwritten(c, mgr) == GenBranchCode(c.arg, [mgr EXCEPT !.true_target = mgr.false_target])

(* The targets are swapped and stay so: whoever is above restores them.    *)
GenNot(c, mgr) ==
  GenBranchCode(c.arg, [mgr EXCEPT !.true_target = mgr.false_target,
                                   !.false_target = mgr.true_target])

GenBranchCode(c, mgr) ==
  CASE c.op = "test" -> GenTest(c, mgr)
    [] c.op = "and" -> GenAnd(c, mgr)
    [] c.op = "or" -> GenOr(c, mgr)
    [] c.op = "not" -> GenNot(c, mgr)

GenIf(s, mgr) ==
  LET t == mgr.label_cnt + 1
      f == mgr.label_cnt + 2
      cond == GenBranchCode(s.cond, [mgr EXCEPT !.label_cnt = f, !.true_target = t,
                                                !.false_target = f])
      then == GenStmts(s.then, Emit(cond, Label(t)))
      out == then.label_cnt + 1
      jmp == Emit([then EXCEPT !.label_cnt = out], Jmp(out))
  IN  IF s.els = <<>> THEN Emit(then, Label(f))
      ELSE Emit(GenStmts(s.els[1], Emit(jmp, Label(f))), Label(out))

GenStmt(mgr, s) ==
  CASE s.kind = "perm" -> Emit(mgr, Return(s.type))
    [] s.kind = "assign" -> Emit(mgr, Store(s.var))
    [] s.kind = "if" -> GenIf(s, mgr)

GenStmts(ss, mgr) == FoldLeft(GenStmt, mgr, ss)

(* The value of the constant IRGen.                                        *)
CodeOf(ss) == GenStmts(ss, NewMgr).code

-----------------------------------------------------------------------------
(* What a check means *)

RECURSIVE Truth(_, _), Calls(_, _), Exec(_, _, _)

Truth(c, value) ==
  CASE c.op = "test" -> value[c.atom]
    [] c.op = "not" -> ~Truth(c.arg, value)
    [] c.op = "and" -> Truth(c.left, value) /\ Truth(c.right, value)
    [] c.op = "or" -> Truth(c.left, value) \/ Truth(c.right, value)

(* The calls made by a condition: the right operand of && and || counts    *)
(* only if the left one does not decide.                                   *)
Calls(c, value) ==
  CASE c.op = "test" -> IF c.atom \in Helpers THEN <<Call(c.atom)>> ELSE <<>>
    [] c.op = "not" -> Calls(c.arg, value)
    [] OTHER -> Calls(c.left, value)
                  \o IF Truth(c.left, value) = (c.op = "and") THEN Calls(c.right, value) ELSE <<>>

(* The meaning of statements: in order, until one gives a verdict.         *)
Exec(ss, value, o) ==
  IF ss = <<>> \/ o.verdict # "none" THEN o
  ELSE LET s == Head(ss)
           after ==
             CASE s.kind = "perm" -> [o EXCEPT !.verdict = s.type]
               [] s.kind = "assign" -> [o EXCEPT !.effects = Append(@, Store(s.var))]
               [] s.kind = "if" ->
                    LET called == [o EXCEPT !.effects = @ \o Calls(s.cond, value)]
                    IN  IF Truth(s.cond, value) THEN Exec(s.then, value, called)
                        ELSE IF s.els = <<>> THEN called ELSE Exec(s.els[1], value, called)
       IN  Exec(Tail(ss), value, after)

Meaning == [value \in Values |-> Exec(stmts, value, Started)]

(* Every path through the statements ends in a verdict.                    *)
RECURSIVE Decides(_), ThenPartsDecide(_)
Decides(ss) ==
  \E n \in DOMAIN ss :
    \/ ss[n].kind = "perm"
    \/ ss[n].kind = "if" /\ ss[n].els # <<>> /\ Decides(ss[n].then) /\ Decides(ss[n].els[1])

(* Every then part that is followed by an else part ends in a verdict.     *)
ThenPartsDecide(ss) ==
  \A n \in DOMAIN ss :
    ss[n].kind = "if" =>
      /\ ThenPartsDecide(ss[n].then)
      /\ ss[n].els # <<>> => Decides(ss[n].then) /\ ThenPartsDecide(ss[n].els[1])

-----------------------------------------------------------------------------
(* Properties *)

(* Conditions are compiled to branches whose targets are kept in two       *)
(* fields of CodeGenMgr that &&, || and ! overwrite and only partly        *)
(* restore.  Whatever the condition, the code decides as C would, and      *)
(* calls the helpers C would call, in the same order; and merging labels   *)
(* changes nothing about it.                                               *)
CodeMeansCheck == pass \in {"MergeLabels", "dead"} => Behavior(code) = Meaning

(* EliminateDeadCode deletes every jump over an else part.  A check keeps  *)
(* its meaning if no then part needs that jump.                            *)
DecidedCheckKeepsMeaning ==
  pass \in {"purge", "CFG", "done"} /\ ThenPartsDecide(stmts) => Behavior(code) = Meaning
=============================================================================

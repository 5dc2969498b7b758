------------------------------ MODULE MCAssembly -----------------------------
(* Policies for the runs of Assembly, of up to three checks.               *)
EXTENDS Assembly

LabelItem(l) == [item |-> "label", label |-> l]
BranchItem(k, t, f) == [item |-> "branch", k |-> k, jt |-> t, jf |-> f]
RetItem(v) == [item |-> "ret", verdict |-> v]
TraceItem(l) == [item |-> "trace", label |-> l]
Block(l, v) == [label |-> l, verdict |-> v]

(* Checks that decide in the filter, in the tracer or in both.             *)
Plain(v) == [filter |-> <<RetItem(v)>>, code |-> <<>>]
Test(k) ==
  [filter |-> <<BranchItem(k, 1, 2), LabelItem(1), RetItem("allow"), LabelItem(2), RetItem("deny")>>,
   code |-> <<>>]
Whole == [filter |-> <<TraceItem(0)>>, code |-> <<Block(0, "deny")>>]
Mixed(k) ==
  [filter |-> <<BranchItem(k, 1, 2), LabelItem(1), TraceItem(1), LabelItem(2), RetItem("deny")>>,
   code |-> <<Block(1, "allow")>>]
Twice(k) ==
  [filter |-> <<BranchItem(k, 1, 2), LabelItem(1), TraceItem(1), LabelItem(2), TraceItem(2)>>,
   code |-> <<Block(1, "deny"), Block(2, "allow")>>]

(* And checks that do not decide every call.                               *)
OnlyIf(k) ==
  [filter |-> <<BranchItem(k, 1, 2), LabelItem(1), RetItem("allow"), LabelItem(2)>>, code |-> <<>>]
TracedOnlyIf(k) ==
  [filter |-> <<BranchItem(k, 1, 2), LabelItem(1), TraceItem(1), LabelItem(2), RetItem("deny")>>,
   code |-> <<Block(1, "none")>>]

Checks(bodies) ==
  {[syscall |-> s, filter |-> b.filter, code |-> b.code] : s \in Numbers, b \in bodies}

Listings(bodies, n) == UNION {[1..k -> Checks(bodies)] : k \in 0..n}
PoliciesOf(bodies, n) == [default : {"allow", "deny"}, checks : Listings(bodies, n)]

MCPolicies ==
  PoliciesOf({Plain("allow"), Test(1), Whole, Mixed(0), Twice(2)}, 3)
    \cup PoliciesOf({Plain("allow"), OnlyIf(1), TracedOnlyIf(0), Twice(2)}, 3)

(* tests/chat/client/rules: a second check of the first call's.            *)
MCRepeated ==
  {[default |-> "allow", checks |-> <<[syscall |-> 0] @@ Test(1), [syscall |-> 1] @@ Whole, [syscall |-> 0] @@ Test(1)>>]}

MCOnlyIf ==
  PoliciesOf({Plain("allow"), OnlyIf(1)}, 2)
=============================================================================

------------------------------ MODULE Expressions ------------------------------
(***************************************************************************)
(* Arithmetic of a policy on its way into the tracer: read by the policy's *)
(* grammar (parser.y++), written as C text (LiftExpr), read again by C's   *)
(* grammar, which ranks the operators differently, and evaluated in C with *)
(* the types of the tracer's variables.  Recursive, so only TLC reads it.  *)
(***************************************************************************)
EXTENDS Trees, SequencesExt, Bitwise

CONSTANT Width   \* bits of an int; a long and a register have twice as many

ASSUME WidthAssumption == Width \in Nat \ {0}

-----------------------------------------------------------------------------
(* Reading tokens: of the operators that bind least the last is the root;  *)
(* of several ~, which group to the right, the first.                      *)

(* Precedence in the policy language; comparisons do not associate.        *)
PolicyRank == [op \in Comparisons |-> 1] @@
  ("|" :> 2 @@ "^" :> 2 @@ "&" :> 3 @@ "~" :> 4 @@ "<<" :> 5 @@ ">>" :> 5
     @@ "+" :> 6 @@ "-" :> 6 @@ "*" :> 7 @@ "/" :> 7 @@ "%" :> 7)

(* Precedence in C, where ~ takes one operand.                             *)
CRank ==
  ("|" :> 1 @@ "^" :> 2 @@ "&" :> 3 @@ "==" :> 4 @@ "!=" :> 4
     @@ ">" :> 5 @@ "<" :> 5 @@ ">=" :> 5 @@ "<=" :> 5 @@ "<<" :> 6 @@ ">>" :> 6
     @@ "+" :> 7 @@ "-" :> 7 @@ "*" :> 8 @@ "/" :> 8 @@ "%" :> 8)

IsSign(token) == token[1] = "op"
EndsOperand(token) == ~IsSign(token) /\ token # Open

Depth(tokens, n) ==
  Cardinality({k \in 1..n : tokens[k] = Open}) - Cardinality({k \in 1..n : tokens[k] = Close})

(* Binary operators outside all parentheses.                               *)
Outer(tokens) ==
  {n \in 2..Len(tokens) : IsSign(tokens[n]) /\ EndsOperand(tokens[n - 1]) /\ Depth(tokens, n) = 0}

RECURSIVE Read(_, _, _)
Read(tokens, rank, nonassoc) ==
  LET ops == Outer(tokens)
      last == CHOOSE n \in ops : \A k \in ops :
                \/ rank[tokens[n][2]] < rank[tokens[k][2]]
                \/ rank[tokens[n][2]] = rank[tokens[k][2]]
                   /\ IF tokens[n] = Sign("~") THEN n <= k ELSE k <= n
      l == Read(SubSeq(tokens, 1, last - 1), rank, nonassoc)
      r == Read(SubSeq(tokens, last + 1, Len(tokens)), rank, nonassoc)
      of == Read(Tail(tokens), rank, nonassoc)
      inner == Read(SubSeq(tokens, 2, Len(tokens) - 1), rank, nonassoc)
  IN  IF tokens = <<>> THEN Error
      ELSE IF ops # {} THEN
        IF \/ \E n \in ops : tokens[n][2] \notin DOMAIN rank
           \/ \E n \in ops \ {last} : {tokens[n][2], tokens[last][2]} \subseteq nonassoc
           \/ Error \in {l, r}
        THEN Error ELSE Node(tokens[last][2], l, r)
      ELSE IF tokens[1] = Sign("-") THEN IF of = Error THEN Error ELSE Negative(of)
      ELSE IF tokens[1] = Open THEN inner
      ELSE IF Len(tokens) = 1 THEN Leaf(tokens[1]) ELSE Error

ReadPolicy(tokens) == Read(tokens, PolicyRank, Comparisons)

(* Two minus signs in a row are a decrement in C.                          *)
ReadC(tokens) ==
  IF \E n \in 1..(Len(tokens) - 1) : tokens[n] = Sign("-") /\ tokens[n + 1] = Sign("-")
  THEN Error ELSE Read(tokens, CRank, {})

-----------------------------------------------------------------------------
(* LiftExpr *)

Wrap(v, bits) == v % 2^bits
Signed(v, bits) == IF Wrap(v, bits) >= 2^(bits - 1) THEN Wrap(v, bits) - 2^bits ELSE Wrap(v, bits)

(* A number is read as unsigned int and kept as int.                       *)
Immediate(n) == Signed(n, Width)

NumberText(v) == IF v < 0 THEN <<Sign("-"), Number(-v)>> ELSE <<Number(v)>>

RECURSIVE LiftExpr(_), LiftExprBare(_)

(* Mutant: operations are not put into parentheses.                        *)
LiftExprBare(t) ==
  CASE t.e = "leaf" -> IF t.token[1] = "num" THEN NumberText(Immediate(t.token[2])) ELSE <<t.token>>
    [] t.e = "neg" -> <<Sign("-")>> \o LiftExprBare(t.left)
    [] t.e = "op" -> LiftExprBare(t.left) \o <<Sign(t.op)>> \o LiftExprBare(t.right)

LiftExpr(t) ==
  CASE t.e = "leaf" -> IF t.token[1] = "num" THEN NumberText(Immediate(t.token[2])) ELSE <<t.token>>
    [] t.e = "neg" -> <<Open, Sign("-")>> \o LiftExpr(t.left) \o <<Close>>
    [] t.e = "op" -> <<Open>> \o LiftExpr(t.left) \o <<Sign(t.op)>> \o LiftExpr(t.right) \o <<Close>>

(* The condition of an if has no parentheses of its own.                   *)
LiftCondition(t) == LiftExpr(t.left) \o <<Sign(t.op)>> \o LiftExpr(t.right)

(* The same tree as C knows it: a negative number is a negation.           *)
RECURSIVE InC(_)
InC(t) ==
  CASE t.e = "leaf" -> IF t.token[1] = "num" /\ Immediate(t.token[2]) < 0
                       THEN Negative(Leaf(Number(-Immediate(t.token[2]))))
                       ELSE IF t.token[1] = "num" THEN Leaf(Number(Immediate(t.token[2]))) ELSE t
    [] t.e = "neg" -> Negative(InC(t.left))
    [] t.e = "op" -> Node(t.op, InC(t.left), InC(t.right))

RECURSIVE Subtrees(_)
Subtrees(t) ==
  {t} \cup CASE t.e = "op" -> Subtrees(t.left) \cup Subtrees(t.right)
             [] t.e = "neg" -> Subtrees(t.left)
             [] OTHER -> {}

IsNumber(t) == t.e = "leaf" /\ t.token[1] = "num"
NegativeNumber(t) == IsNumber(t) /\ Immediate(t.token[2]) < 0

(* -2^31 is written as the negation of a number that no int can hold.      *)
LeastNumber(t) == IsNumber(t) /\ Immediate(t.token[2]) = -2^(Width - 1)

(* No binary ~, and no minus sign that meets another.                      *)
LiftsWell(t) ==
  \A s \in Subtrees(t) :
    /\ s.e = "op" => s.op # "~" /\ ~(s.op = "-" /\ NegativeNumber(s.right))
    /\ s.e = "neg" => ~NegativeNumber(s.left)

NamesIn(t) == {s.token[2] : s \in {q \in Subtrees(t) : q.e = "leaf" /\ q.token[1] = "name"}}
CallsIn(t) == {s.token : s \in {q \in Subtrees(t) : q.e = "leaf" /\ q.token[1] = "call"}}
Mentions(t) == NamesIn(t) \cup UNION {Range(c[3]) : c \in CallsIn(t)}

-----------------------------------------------------------------------------
(* Values.  A C type is its bits and whether it has a sign.                *)

CType(bits, signed) == [bits |-> bits, signed |-> signed]
Convert(v, type) == IF type.signed THEN Signed(v, type.bits) ELSE Wrap(v, type.bits)

(* The type of an operation: the wider one; of one width, the unsigned one.*)
Common(s, t) ==
  IF s.bits = t.bits THEN CType(s.bits, s.signed /\ t.signed)
  ELSE IF s.bits > t.bits THEN s ELSE t

Holds(op, a, b) ==
  CASE op = "==" -> a = b
    [] op = "!=" -> a # b
    [] op = ">" -> a > b
    [] op = ">=" -> a >= b
    [] op = "<" -> a < b
    [] op = "<=" -> a <= b

(* Division in C drops the fraction.                                       *)
Magnitude(a) == IF a < 0 THEN -a ELSE a
Quotient(a, b) ==
  LET q == Magnitude(a) \div Magnitude(b) IN IF (a < 0) = (b < 0) THEN q ELSE -q

(* Numbers of the given width; what is undefined in C is 0.                *)
Calculate(op, a, b, bits) ==
  CASE op = "+" -> a + b
    [] op = "-" -> a - b
    [] op = "*" -> a * b
    [] op = "/" -> IF b = 0 THEN 0 ELSE Quotient(a, b)
    [] op = "%" -> IF b = 0 THEN 0 ELSE a - b * Quotient(a, b)
    [] op = "&" -> Wrap(a, bits) & Wrap(b, bits)
    [] op = "|" -> Wrap(a, bits) | Wrap(b, bits)
    [] op = "^" -> Wrap(a, bits) ^^ Wrap(b, bits)
    [] op = "<<" -> IF b \in 0..(bits - 1) THEN a * 2^b ELSE 0
    [] op = ">>" -> IF b \in 0..(bits - 1) THEN a \div 2^b ELSE 0

(* A literal is a long where an int is too small for it.                   *)
LiteralType(n) == CType(IF n < 2^(Width - 1) THEN Width ELSE 2 * Width, TRUE)

(* The value and type of a tree as C reads it: vars and types give the     *)
(* value and the C type of each variable.                                  *)
RECURSIVE TracerValue(_, _, _)
TracerValue(t, vars, types) ==
  CASE t.e = "leaf" /\ t.token[1] = "num" -> [v |-> t.token[2], type |-> LiteralType(t.token[2])]
    [] t.e = "leaf" /\ t.token[1] = "name" -> [v |-> vars[t.token[2]], type |-> types[t.token[2]]]
    [] t.e = "neg" -> LET l == TracerValue(t.left, vars, types)
                      IN  [v |-> Convert(-l.v, l.type), type |-> l.type]
    [] t.e = "op" ->
         LET l == TracerValue(t.left, vars, types)
             r == TracerValue(t.right, vars, types)
             type == IF t.op \in {"<<", ">>"} THEN l.type ELSE Common(l.type, r.type)
         IN  [v |-> Convert(Calculate(t.op, Convert(l.v, type), Convert(r.v, type), type.bits), type),
              type |-> type]

TracerHolds(t, vars, types) ==
  LET l == TracerValue(t.left, vars, types)
      r == TracerValue(t.right, vars, types)
      type == Common(l.type, r.type)
  IN  Holds(t.op, Convert(l.v, type), Convert(r.v, type))

(* The value in unbounded arithmetic.                                      *)
RECURSIVE Exact(_, _)
Exact(t, regs) ==
  CASE t.e = "leaf" /\ t.token[1] = "num" -> t.token[2]
    [] t.e = "leaf" /\ t.token[1] = "name" -> regs[t.token[2]]
    [] t.e = "neg" -> -Exact(t.left, regs)
    [] t.e = "op" -> Calculate(t.op, Exact(t.left, regs), Exact(t.right, regs), 2 * Width)
=============================================================================

------------------------------- MODULE MCSection -------------------------------
(* Checks for the run of Section.  Every entry of the table with every     *)
(* parameter tested, assigned and passed to a helper; and expressions of   *)
(* up to two operators over arguments of different types.                  *)
EXTENDS SectionValues

MCWidth == 3
MCRegisters == {0, 1, 2, 3, 4, 5, 7, 8, 11, 31, 32, 60, 63}

Parameters == <<"p", "q", "r", "s", "t", "u">>
Check(name, args, kind, dst, tokens) ==
  [name |-> name, args |-> args, kind |-> kind, dst |-> dst, tokens |-> tokens]

Uses(name, args, x) ==
  {Check(name, args, "test", "", <<Name(x)>>),
   Check(name, args, "test", "", <<Invoke("h", args)>>),
   Check(name, args, "assign", x, <<Number(1)>>),
   Check(name, args, "assign", x, <<Invoke("h", <<x>>)>>),
   Check(name, args, "assign", x, <<Name("p")>>)}

(* The number of parameters is the table's, or one more.                   *)
TableInputs ==
  UNION {Uses(e.name, SubSeq(Parameters, 1, n), Parameters[k]) :
           <<e, n, k>> \in {<<f, m, j>> \in Range(Entries) \X (1..6) \X (1..6) :
                              m \in {f.num_args, f.num_args + 1} /\ j <= m}}

(* Names that are not there, and parameters of one name.                   *)
OddInputs ==
  Uses("pread", <<"p", "q">>, "q") \cup Uses("open", <<"p", "q", "q">>, "q")
    \cup Uses("write", <<"p", "q", "q">>, "q") \cup Uses("close", <<"p">>, "z")
    \cup Uses("setsockopt", <<"p", "q", "r", "q", "s">>, "q")

Operators == DOMAIN PolicyRank \ Comparisons
Two(x, y) ==
  {<<Name(x), Sign(op), z>> : op \in Operators, z \in {Name(y), Number(2), Number(4), Number(5)}}
    \cup {<<Sign("-"), Name(x), Sign(op), Name(y)>> : op \in {"+", "-", "*", "&"}}
    \cup {<<Sign("-"), Number(5)>>, <<Name(x)>>}
Three(x, y) ==
  UNION {{<<Name(x), Sign(f), Number(n), Sign(g), Name(y)>>,
          <<Open, Name(x), Sign(f), Number(n), Close, Sign(g), Name(y)>>,
          <<Name(x), Sign(f), Open, Number(n), Sign(g), Name(y), Close>>} :
            f \in Operators, g \in Operators, n \in {1, 6}}

(* What BPFCodeGen has room for: computed operands on the left, and on the *)
(* right where the order does not matter.                                  *)
Numeric == Operators \ {"~"}
Symmetric == {"+", "*", "&", "|", "^"}
Fitting(x, y) ==
  {<<Name(x), Sign(f), Number(n), Sign(cmp), Name(y), Sign(g), Number(2)>> :
     f \in Numeric, g \in Numeric, n \in {1, 6}, cmp \in {"==", "!="}}
    \cup {<<Name(x), Sign(f), Number(n), Sign(g), Number(2), Sign(cmp), Number(1)>> :
            f \in Numeric, g \in Numeric, n \in {1, 4}, cmp \in {"!=", ">", ">="}}
    \cup {<<Open, Name(x), Sign(f), Number(n), Close, Sign(g), Open, Name(y), Sign(h), Number(2), Close,
            Sign(cmp), Number(1)>> :
            f \in {"+", "&", "-"}, h \in {"+", "&", "<<"}, g \in Symmetric, n \in {1, 7},
            cmp \in {"==", ">", ">="}}

Asked(name, args, x, y) ==
  {Check(name, args, "test", "", e) : e \in Two(x, y) \cup Three(x, y) \cup Fitting(x, y)}
    \cup {Check(name, args, "test", "", e \o <<Sign(cmp), Number(n)>>) :
            e \in Two(x, y), cmp \in Comparisons, n \in {3, 4, 6}}
    \cup {Check(name, args, "test", "", <<Name(x), Sign(f), Name(y), Sign(g), Number(1)>>) :
            f \in Comparisons, g \in DOMAIN PolicyRank}
Assigned(name, args, x, y) ==
  {Check(name, args, "assign", dst, e) : dst \in {x, y}, e \in Two(x, y)}
    \cup {Check(name, args, "assign", args[3], e) : e \in Three(x, y)}

MCInputs ==
  TableInputs \cup OddInputs
    \cup Asked("madvise", <<"p", "q", "r">>, "r", "q") \cup Asked("ioctl", <<"p", "q", "r">>, "p", "q")
    \cup Asked("mmap", <<"p", "q", "r">>, "q", "r")
    \cup Assigned("madvise", <<"p", "q", "r">>, "r", "q")
    \cup Assigned("pread64", <<"p", "q", "r", "s">>, "s", "r")
=============================================================================

------------------------------- MODULE MCMemCopy -------------------------------
(* Memory of seven bytes and strings of at most four: words of two bytes.  *)
(* For values the contents of memory do not matter.                        *)
EXTENDS MemCopy

MCByte == {0, 1}
MCUnset == -1
MCSizes == 0..6
MCMemories ==
  {m \in [0..(Mapped - 1) -> MCByte] : Cardinality({a \in DOMAIN m : m[a] = 0}) \in {0, 1}}

OfLength(n) == [k \in 0..n |-> IF k = n THEN 0 ELSE 2]
MCNewStrings == {OfLength(n) : n \in 0..5}
=============================================================================

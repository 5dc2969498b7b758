-------------------------------- MODULE MemCopy --------------------------------
(***************************************************************************)
(* The tracer's copies of an argument that is a pointer                    *)
(* (ptrace_template.c:38-119): out of the stopped thread's memory word by  *)
(* word, through the hands of the handler, and back.  The other threads of *)
(* the process run on and write to the same memory.                        *)
(***************************************************************************)
EXTENDS Integers, FiniteSets

CONSTANTS
  W,            \* bytes in a word, sizeof(void*)
  MaxString,    \* MAX_STRING_LEN
  Mapped,       \* the tracee's memory is mapped at 0..Mapped - 1
  Byte,         \* values of a byte; 0 ends a string
  Garbage,      \* a byte of the word -1 that a failing PEEK returns
  Unset,        \* a byte of the heap nobody has written
  Memories,     \* contents of the tracee's memory
  NewStrings,   \* strings a helper may return, as functions from 0 up
  Sizes,        \* sizes of a value, or of a read's or write's buffer
  MaxAssigned,  \* bound on the assignments of a handler
  MaxStored     \* bound on the writes of the other threads

ASSUME WordAssumption == W \in Nat \ {0}
ASSUME StringAssumption == MaxString \in Nat \ {0} /\ MaxString % W = 0
ASSUME MemoryAssumption ==
  /\ Mapped \in Nat
  /\ 0 \in Byte /\ Byte \subseteq Nat /\ Garbage \in Nat \ {0} /\ Unset \notin Nat
  /\ Memories \subseteq [0..(Mapped - 1) -> Byte]
ASSUME InputAssumption ==
  /\ Sizes \subseteq Nat /\ MaxAssigned \in Nat /\ MaxStored \in Nat
  /\ \A s \in NewStrings : DOMAIN s \subseteq Nat /\ \E n \in DOMAIN s :
       DOMAIN s = 0..n /\ s[n] = 0 /\ \A k \in 0..(n - 1) : s[k] \in Nat \ {0}

VARIABLES
  mem,       \* the tracee's memory
  theirs,    \* what its own threads would have left there
  stored,    \* addresses other threads have written to
  left,      \* writes left to them
  kind,      \* "string", "value" (sized by its type) or "buffer" (by a register)
  addr,      \* where the argument points
  size,      \* copy_size
  resized,   \* the handler has assigned the register that holds the size
  pc,        \* "out", "handler", "back" or "done"
  cnt,       \* words copied
  buf,       \* the tracer's copy
  freed,     \* it has been freed
  assigned,  \* assignments to the argument
  reach,     \* bytes from addr on that write-backs may touch
  faults     \* what the handler did that C leaves undefined

tracee == <<mem, theirs, stored, left>>
argument == <<kind, addr>>
tracer == <<size, resized, pc, cnt, buf, freed, assigned, reach, faults>>
vars == <<tracee, argument, tracer>>

-----------------------------------------------------------------------------
(* Words *)

(* Mutant: a word that crosses the end is read as far as it goes.          *)
PeekPart(a) == [k \in 0..(W - 1) |-> IF a + k < Mapped THEN mem[a + k] ELSE Garbage]

PeekWord(a) == [k \in 0..(W - 1) |-> IF a + W <= Mapped THEN mem[a + k] ELSE Garbage]

(* A word over the end of the mapping is written as far as it goes.        *)
PokeWord(a, word) == [x \in DOMAIN mem |-> IF x - a \in 0..(W - 1) THEN word[x - a] ELSE mem[x]]

(* The number of words, one more unless it is itself a multiple of W.      *)
Words(n) == IF (n \div W) % W # 0 THEN n \div W + 1 ELSE n \div W

StrLen(s) == CHOOSE n \in DOMAIN s : s[n] = 0 /\ \A k \in 0..(n - 1) : s[k] # 0

Malloc(n) == [k \in 0..(n - 1) |-> Unset]

Init ==
  /\ mem \in Memories /\ theirs = mem /\ stored = {} /\ left = MaxStored
  /\ kind \in {"string", "value", "buffer"} /\ addr \in 0..(Mapped - 1)
  /\ size \in IF kind = "string" THEN {0} ELSE Sizes
  /\ buf = IF kind = "string" THEN Malloc(MaxString + 1) ELSE Malloc(Words(size) * W)
  /\ pc = "out" /\ cnt = 0
  /\ resized = FALSE /\ freed = FALSE /\ assigned = 0 /\ reach = 0 /\ faults = {}

-----------------------------------------------------------------------------
(* ptrace_copy_out_string and ptrace_copy_out_mem *)

InWord(k) == k - cnt * W \in 0..(W - 1)
Received == [k \in DOMAIN buf |-> IF InWord(k) THEN PeekWord(addr + cnt * W)[k - cnt * W] ELSE buf[k]]

(* Mutant: a string that fills the buffer is not closed.                   *)
CloseNever(s) == s

Close(s) == [s EXCEPT ![MaxString] = 0]

PeekString ==
  /\ pc = "out" /\ kind = "string"
  /\ LET ends == \/ \E k \in 0..(W - 1) : PeekWord(addr + cnt * W)[k] = 0
                 \/ (cnt + 1) * W >= MaxString
     IN  /\ buf' = IF ends THEN Close(Received) ELSE Received
         /\ pc' = IF ends THEN "handler" ELSE "out"
  /\ cnt' = cnt + 1
  /\ UNCHANGED <<tracee, argument, size, resized, freed, assigned, reach, faults>>

PeekMem ==
  /\ pc = "out" /\ kind # "string" /\ cnt < Words(size)
  /\ buf' = Received
  /\ cnt' = cnt + 1
  /\ UNCHANGED <<tracee, argument, size, resized, pc, freed, assigned, reach, faults>>

MemIsOut ==
  /\ pc = "out" /\ kind # "string" /\ cnt = Words(size)
  /\ pc' = "handler"
  /\ UNCHANGED <<tracee, argument, size, resized, cnt, buf, freed, assigned, reach, faults>>

-----------------------------------------------------------------------------
(* The handler *)

Fault(condition, what) == IF condition THEN {what} ELSE {}
InBuffer(n) == \A k \in 0..(n - 1) : k \in DOMAIN buf

(* What a helper meets that is given the argument.                         *)
UseFaults == Fault(freed, "freed") \cup Fault(kind # "string" /\ ~InBuffer(size), "short")

Use ==
  /\ pc = "handler"
  /\ faults' = faults \cup UseFaults
  /\ UNCHANGED <<tracee, argument, size, resized, pc, cnt, buf, freed, assigned, reach>>

Assign ==
  /\ pc = "handler" /\ assigned < MaxAssigned
  /\ pc' = "back" /\ cnt' = 0
  /\ assigned' = assigned + 1
  /\ UNCHANGED <<tracee, argument, size, resized>>

(* The string a helper returns is new, or the old buffer with a new text.  *)
AssignString ==
  /\ Assign /\ kind = "string"
  /\ \E s \in NewStrings, reads \in BOOLEAN, same \in BOOLEAN :
       LET length == StrLen(s) + 1
           upto == ((length + W - 1) \div W) * W
       IN  /\ same => reads /\ InBuffer(length)
           /\ buf' = IF same THEN [k \in DOMAIN buf |-> IF k \in DOMAIN s THEN s[k] ELSE buf[k]] ELSE s
           /\ freed' = (same /\ freed)
           /\ faults' = IF reads THEN faults \cup UseFaults ELSE faults
           /\ reach' = IF upto > reach THEN upto ELSE reach

(* A value is changed where it is.                                         *)
AssignMem ==
  /\ Assign /\ kind # "string"
  /\ \E b \in Byte : buf' = [k \in DOMAIN buf |-> IF k < size THEN b ELSE buf[k]]
  /\ faults' = faults \cup UseFaults
  /\ reach' = IF Words(size) * W > reach THEN Words(size) * W ELSE reach
  /\ UNCHANGED freed

AssignSize ==
  /\ pc = "handler" /\ kind = "buffer"
  /\ size' \in Sizes
  /\ resized' = TRUE
  /\ UNCHANGED <<tracee, argument, pc, cnt, buf, freed, assigned, reach, faults>>

Permit ==
  /\ pc = "handler"
  /\ pc' = "done"
  /\ UNCHANGED <<tracee, argument, size, resized, cnt, buf, freed, assigned, reach, faults>>

-----------------------------------------------------------------------------
(* ptrace_copy_back_string and ptrace_copy_back_mem *)

(* Mutant: the buffer is read one word ahead.                              *)
BufWordNext ==
  [k \in 0..(W - 1) |-> IF (cnt + 1) * W + k \in DOMAIN buf THEN buf[(cnt + 1) * W + k] ELSE Garbage]

BufWord == [k \in 0..(W - 1) |-> IF cnt * W + k \in DOMAIN buf THEN buf[cnt * W + k] ELSE Garbage]

PokeString ==
  /\ pc = "back" /\ kind = "string" /\ (cnt + 1) * W <= StrLen(buf) + 1
  /\ mem' = PokeWord(addr + cnt * W, BufWord)
  /\ cnt' = cnt + 1
  /\ UNCHANGED <<theirs, stored, left, argument, size, resized, pc, buf, freed, assigned, reach, faults>>

(* Mutant: the bytes after the last whole word are forgotten.              *)
RestForgotten(remain) == mem

(* The rest goes out as a word filled up with zeros.                       *)
RestWritten(remain) ==
  IF remain = 0 THEN mem
  ELSE PokeWord(addr + cnt * W, [k \in 0..(W - 1) |-> IF k < remain THEN BufWord[k] ELSE 0])

(* Mutant: the buffer is kept.                                             *)
NoFree(before) == before

Free(before) == TRUE

StringIsBack ==
  /\ pc = "back" /\ kind = "string" /\ (cnt + 1) * W > StrLen(buf) + 1
  /\ mem' = RestWritten((StrLen(buf) + 1) % W)
  /\ faults' = faults \cup Fault(freed, "freed")
  /\ freed' = Free(freed)
  /\ pc' = "handler"
  /\ UNCHANGED <<theirs, stored, left, argument, size, resized, cnt, buf, assigned, reach>>

PokeMem ==
  /\ pc = "back" /\ kind # "string" /\ cnt < Words(size)
  /\ mem' = PokeWord(addr + cnt * W, BufWord)
  /\ faults' = faults \cup Fault(~InBuffer((cnt + 1) * W), "over")
  /\ cnt' = cnt + 1
  /\ UNCHANGED <<theirs, stored, left, argument, size, resized, pc, buf, freed, assigned, reach>>

MemIsBack ==
  /\ pc = "back" /\ kind # "string" /\ cnt = Words(size)
  /\ pc' = "handler"
  /\ UNCHANGED <<tracee, argument, size, resized, cnt, buf, freed, assigned, reach, faults>>

(* Only the calling thread is stopped.                                     *)
OtherThread ==
  /\ pc # "done" /\ left > 0
  /\ \E a \in DOMAIN mem, b \in Byte :
       /\ mem' = [mem EXCEPT ![a] = b]
       /\ theirs' = [theirs EXCEPT ![a] = b]
       /\ stored' = stored \cup {a}
  /\ left' = left - 1
  /\ UNCHANGED <<argument, tracer>>

Next ==
  \/ PeekString \/ PeekMem \/ MemIsOut
  \/ Use \/ AssignString \/ AssignMem \/ AssignSize \/ Permit
  \/ PokeString \/ StringIsBack \/ PokeMem \/ MemIsBack
  \/ OtherThread

Spec == Init /\ [][Next]_vars

-----------------------------------------------------------------------------
(* Properties *)

Fetched == pc = "handler" /\ assigned = 0
Ends(n) == addr + n \in DOMAIN mem /\ mem[addr + n] = 0
CopiedWhole(n) == n % W = 0 \/ (n \div W) % W # 0
Same(n) == \A k \in 0..(n - 1) : buf[k] = mem[addr + k]
IsLength(n) == Ends(n) /\ \A k \in 0..(n - 1) : ~Ends(k)

(* Memory keeps its bytes, a copy never holds more than bytes, and a       *)
(* string that is used is closed.                                          *)
TypeOK ==
  /\ mem \in [0..(Mapped - 1) -> Nat] /\ theirs \in [0..(Mapped - 1) -> Byte]
  /\ stored \subseteq 0..(Mapped - 1) /\ left \in 0..MaxStored
  /\ kind \in {"string", "value", "buffer"} /\ addr \in 0..(Mapped - 1) /\ size \in Nat
  /\ pc \in {"out", "handler", "back", "done"}
  /\ cnt \in Nat /\ assigned \in 0..MaxAssigned /\ reach \in Nat
  /\ resized \in BOOLEAN /\ freed \in BOOLEAN
  /\ faults \subseteq {"freed", "short", "over"}
  /\ \A k \in DOMAIN buf : buf[k] \in Nat \cup {Unset}
  /\ kind = "string" /\ pc # "out" => \E n \in DOMAIN buf : buf[n] = 0

(* A string shorter than the limit is what the handler sees if and only if *)
(* the words that hold it are mapped whole: when the last one crosses into *)
(* a page that is not, its bytes are lost with it (ptrace_template.c:76).  *)
(* A longer one is cut at the limit.  A mapped value is copied whole if    *)
(* and only if its size is a multiple of the word, or the extra word is    *)
(* added: an int is not copied at all (ptrace_template.c:40).              *)
ArgumentCopied ==
  Fetched /\ stored = {} =>
    /\ kind = "string" => \A n \in 0..(Mapped - 1) : IsLength(n) =>
         IF n < MaxString THEN StrLen(buf) = n /\ Same(n) <=> addr + (n \div W + 1) * W <= Mapped
         ELSE StrLen(buf) = MaxString /\ Same(MaxString)
    /\ kind # "string" /\ ~resized /\ addr + size + W <= Mapped =>
         (InBuffer(size) /\ Same(size) <=> CopiedWhole(size))

(* After an assignment the call finds the new string, as far as memory is  *)
(* mapped, unless another thread has written there or the handler used     *)
(* what was freed.                                                         *)
StringArrives ==
  pc = "handler" /\ assigned > 0 /\ kind = "string" /\ stored = {} /\ faults = {} =>
    \A k \in 0..StrLen(buf) : addr + k < Mapped => mem[addr + k] = buf[k]

(* Beyond the longest string assigned and the zeros that fill its last     *)
(* word the process finds its own bytes (ptrace_template.c:115).  Beyond a *)
(* value it does so except in the word that is copied without need: there  *)
(* a write of another thread that came between copying out and back is     *)
(* lost, and the bytes of a word that could not be read are overwritten    *)
(* (ptrace_template.c:53).                                                 *)
NeighboursKept ==
  \A a \in DOMAIN mem : mem[a] # theirs[a] =>
    /\ kind = "string" => a - addr \in 0..(reach - 1)
    /\ kind # "string" /\ ~resized /\ a - addr \notin 0..(size - 1) =>
         /\ a - addr \in 0..(reach - 1)
         /\ a \in stored \/ addr + ((a - addr) \div W + 1) * W > Mapped

(* Once assigned, a string is never the handler's again: whatever it calls *)
(* next with it reads freed memory, and only then (ptrace_template.c:118). *)
(* A copy is too short only for sizes that are not copied whole or that    *)
(* the handler changed, and is read past only after a change.              *)
FaultsExplained ==
  /\ kind = "string" /\ pc \in {"handler", "done"} => (freed <=> assigned > 0)
  /\ "freed" \in faults => kind = "string" /\ assigned > 0
  /\ "short" \in faults => resized \/ ~CopiedWhole(size)
  /\ "over" \in faults => kind = "buffer" /\ resized
=============================================================================

---------------------------- MODULE MemoryUtils -----------------------------
(***************************************************************************)
(* The memory and string functions of kernel/mm/memory_utils.c as          *)
(* functions of the memory they are called on.  A memory m is              *)
(* [byte |-> what each address holds, read, write |-> the addresses that   *)
(* security_validate_memory_access lets through], which MemoryMap models.  *)
(* The functions that write return the bytes they leave; loops are recur-  *)
(* sive functions in the loop's own order, since source and destination    *)
(* may overlap.                                                            *)
(***************************************************************************)
EXTENDS MemoryMap

CONSTANTS
  Cells,       \* addresses 0 .. Cells - 1
  Chars,       \* values of a byte, 0 the terminator
  HighBit,     \* 0x80
  CharSigned,  \* plain char is signed, as it is on x86 and not on ARM
  MaxLength    \* 10000: the longest string strlen and strcmp follow

ASSUME UtilsAssumption ==
  /\ Cells \in Nat \ {0} /\ MaxLength \in Nat
  /\ HighBit \in Nat \ {0} /\ CharSigned \in BOOLEAN
  /\ 0 \in Chars /\ Chars \subseteq 0 .. 2 * HighBit - 1

Cell == 0 .. Cells - 1
Nowhere == -1    \* NULL

\* The validator counts an access of no bytes as one of the first.
Span(a, n) == a .. a + (IF n = 0 THEN 0 ELSE n - 1)

-----------------------------------------------------------------------------
(* Copies.                                                                 *)

\* d[i] = s[i] for each i of offsets in turn.
CopyLoop(byte, d, s, offsets) ==
  LET after[k \in 0 .. Len(offsets)] ==
        IF k = 0 THEN byte
        ELSE [after[k - 1] EXCEPT ![d + offsets[k]] = after[k - 1][s + offsets[k]]]
  IN after[Len(offsets)]

Upward(n) == [k \in 1 .. n |-> k - 1]
Downward(n) == [k \in 1 .. n |-> n - k]

\* Nothing is written when either range is refused.
Gated(m, d, s, n, offsets) ==
  IF Span(d, n) \subseteq m.write /\ Span(s, n) \subseteq m.read
  THEN CopyLoop(m.byte, d, s, offsets) ELSE m.byte

memcpy(m, d, s, n) == Gated(m, d, s, n, Upward(n))

(* Mutant: the branches of the overlap test exchanged.                     *)
Mut_memmove(m, d, s, n) ==
  Gated(m, d, s, n, IF d < s THEN Downward(n) ELSE Upward(n))

memmove(m, d, s, n) ==
  Gated(m, d, s, n, IF d < s THEN Upward(n)
                    ELSE IF d > s THEN Downward(n) ELSE <<>>)

-----------------------------------------------------------------------------
(* Strings.                                                                *)

strlen(m, s) ==
  LET from[n \in 0 .. Cells] ==
        IF s + n \notin m.read \/ m.byte[s + n] = 0 THEN n
        ELSE IF n + 1 > MaxLength THEN 0
        ELSE from[n + 1]
  IN from[0]

\* A byte read through a char pointer.
PlainChar(b) == IF CharSigned /\ b >= HighBit THEN b - 2 * HighBit ELSE b

strcmp(m, s1, s2) ==
  LET from[i \in 0 .. Cells] ==
        IF {s1 + i, s2 + i} \subseteq m.read
        THEN IF m.byte[s1 + i] # m.byte[s2 + i]
             THEN PlainChar(m.byte[s1 + i]) - PlainChar(m.byte[s2 + i])
             ELSE IF m.byte[s1 + i] = 0 \/ i + 1 > MaxLength THEN 0
             ELSE from[i + 1]
        ELSE 0
  IN from[0]

\* A source strlen gives up on is copied up to its first byte only.
strcpy(m, d, s) == memcpy(m, d, s, strlen(m, s) + 1)

\* Stops at the end of the haystack, which the inner loop does not gate.
MatchesAt(m, h, needle, len) ==
  \A i \in 0 .. len - 1 : m.byte[h + i] # 0 /\ m.byte[h + i] = m.byte[needle + i]

strstr(m, haystack, needle) ==
  LET len == strlen(m, needle)
      from[h \in 0 .. Cells] ==
        IF m.byte[h] = 0 THEN Nowhere
        ELSE IF MatchesAt(m, h, needle, len) THEN h
        ELSE IF h + 1 \notin m.read THEN Nowhere
        ELSE from[h + 1]
  IN IF ~ {haystack, needle} \subseteq m.read THEN Nowhere
     ELSE IF len = 0 THEN haystack ELSE from[haystack]

-----------------------------------------------------------------------------
(* What the callers of these functions, written for the C library's,       *)
(* expect of them.                                                         *)

\* The memory after n bytes at s, as they were, are put at d.
Moved(byte, d, s, n) ==
  [a \in Cell |-> IF a \in d .. d + n - 1 THEN byte[s + (a - d)] ELSE byte[a]]

\* A string: readable to its terminator, and short enough.
Ends(m, s) ==
  {n \in 0 .. MaxLength : Span(s, n + 1) \subseteq m.read /\ m.byte[s + n] = 0}
IsString(m, s) == Ends(m, s) # {}
Str(m, s) ==
  LET n == CHOOSE n \in Ends(m, s) : \A k \in Ends(m, s) : n <= k
  IN [i \in 1 .. n |-> m.byte[s + i - 1]]

\* The place where two strings part, the terminator included: one or none.
CharAt(x, k) == IF k < Len(x) THEN x[k + 1] ELSE 0
Parting(x, y) ==
  {k \in 0 .. Len(x) : /\ k <= Len(y) /\ SubSeq(x, 1, k) = SubSeq(y, 1, k)
                       /\ CharAt(x, k) # CharAt(y, k)}

\* The C library's order, by the values of the bytes.
Precedes(x, y) == \E k \in Parting(x, y) : CharAt(x, k) < CharAt(y, k)

\* Of the bytes in which they part, only one has its high bit set.
Straddles(x, y) ==
  \E k \in Parting(x, y) : (CharAt(x, k) < HighBit) # (CharAt(y, k) < HighBit)

Occurrences(x, y) ==
  {k \in 0 .. Len(x) - Len(y) : SubSeq(x, k + 1, k + Len(y)) = y}

Ranges == {r \in Cell \X (0 .. Cells) : r[1] + r[2] <= Cells}

MovesRight(m) ==
  \A r \in Ranges : \A s \in Cell : s + r[2] <= Cells =>
    LET d == r[1]
        n == r[2]
        allowed == Span(d, n) \subseteq m.write /\ Span(s, n) \subseteq m.read
        expected == IF allowed THEN Moved(m.byte, d, s, n) ELSE m.byte
    IN /\ memmove(m, d, s, n) = expected
       /\ (d <= s \/ s + n <= d) => memcpy(m, d, s, n) = expected

StringsRight(m) ==
  \A s, t \in Cell : IsString(m, s) /\ IsString(m, t) =>
    LET x == Str(m, s)
        y == Str(m, t)
        found == {s + k : k \in Occurrences(x, y)}
    IN /\ strlen(m, s) = Len(x)
       /\ strcmp(m, s, t) = 0 <=> x = y
       /\ strcmp(m, s, t) < 0 <=> (Precedes(x, y) # (CharSigned /\ Straddles(x, y)))
       /\ strstr(m, s, t) = IF found = {} THEN Nowhere
                            ELSE CHOOSE a \in found : \A b \in found : a <= b

CopiesRight(m) ==
  \A s, d \in Cell : IsString(m, s) /\ d + Len(Str(m, s)) < Cells =>
    LET n == Len(Str(m, s)) + 1
        after == [m EXCEPT !.byte = strcpy(m, d, s)]
    IN Span(d, n) \subseteq m.write /\ (d + n <= s \/ s + n <= d)
         => after.byte = Moved(m.byte, d, s, n) /\ Len(Str([after EXCEPT !.read = Cell], d)) = n - 1

UtilsRight(m) == MovesRight(m) /\ StringsRight(m) /\ CopiesRight(m)

-----------------------------------------------------------------------------
(* On the kernel's own memory map.                                        *)

(* The cells from address w on, as the region table lets them be used.     *)
Window(w, b) ==
  [byte |-> b,
   read |-> {c \in Cell : security_validate_memory_access(w + c, 1, FALSE)},
   write |-> {c \in Cell : security_validate_memory_access(w + c, 1, TRUE)}]

(* From the guard over text to data, and at the end of the address space.  *)
Windows == 0 .. Data[1] \union {AddrMax - Cells + 1}

(* Where the region table lets a call through, the kernel's own memory and *)
(* string functions (memory_utils.c) do what the C library's do, whatever  *)
(* the memory holds: with overlapping operands, strings that share their   *)
(* tails, empty needles, and operands that run up to the guard, to kernel  *)
(* text or to the last address; and a refused copy writes nothing.  There  *)
(* is one difference: where plain char is signed, strcmp orders a byte     *)
(* from 0x80 on before one below it, the opposite of the library's order;  *)
(* in every other case the sign is the library's, and 0 always means equal *)
(* strings.  What lies beyond the limit of 10000 is not a string here:     *)
(* strlen answers 0 for it.  security_init builds the table and nothing    *)
(* changes it later.                                                       *)
UtilsAreStandard ==
  booted = 1 =>
    \A w \in Windows : \A b \in [Cell -> Chars] : UtilsRight(Window(w, b))

=============================================================================

---------------------------- MODULE AuditProofs -----------------------------
(***************************************************************************)
(* Proofs about Audit: tables, rings and matrices of any size, and bytes   *)
(* of any width that holds the reasons of a refusal.                       *)
(***************************************************************************)
EXTENDS Audit, Integers, TLAPS, SequenceTheorems

-----------------------------------------------------------------------------
(* Division, and the digits of a number.                                   *)

(* A remainder and a quotient are determined by their sum.                 *)
LEMMA ModUnique ==
  ASSUME NEW n \in Nat \ {0}, NEW q \in Int, NEW r \in 0 .. n - 1
  PROVE  (q * n + r) % n = r /\ (q * n + r) \div n = q
  OBVIOUS

(* Quotient and remainder.                                                 *)
LEMMA ModSplit ==
  ASSUME NEW n \in Nat \ {0}, NEW x \in Int
  PROVE  /\ x % n \in 0 .. n - 1
         /\ x \div n \in Int
         /\ x = (x \div n) * n + (x % n)
  OBVIOUS

(* Dividing by m and then by n.                                            *)
LEMMA DivDiv ==
  ASSUME NEW m \in Nat \ {0}, NEW n \in Nat \ {0}, NEW x \in Int
  PROVE  /\ m * n \in Nat \ {0}
         /\ x \div (m * n) = (x \div m) \div n
         /\ x % (m * n) = ((x \div m) % n) * m + (x % m)
<1>. DEFINE y == x \div m  r == x % m  z == y \div n  s == y % n
<1>1. r \in 0 .. m - 1 /\ y \in Int /\ x = y * m + r
  BY ModSplit
<1>2. s \in 0 .. n - 1 /\ z \in Int /\ y = z * n + s
  BY <1>1, ModSplit
<1>. HIDE DEF y, r, z, s
<1>3. m * n \in Nat \ {0}
  OBVIOUS
<1>4. s * m + r \in 0 .. m * n - 1
  <2>1. s * m \in Nat /\ s * m <= (n - 1) * m
    BY <1>2
  <2>2. (n - 1) * m = m * n - m
    OBVIOUS
  <2>. QED  BY <1>1, <1>2, <1>3, <2>1, <2>2
<1>5. x = z * (m * n) + (s * m + r)
  <2>1. x = (z * n + s) * m + r
    BY <1>1, <1>2
  <2>. QED  BY <1>1, <1>2, <2>1
<1>6. (z * (m * n) + (s * m + r)) % (m * n) = s * m + r /\ (z * (m * n) + (s * m + r)) \div (m * n) = z
  BY Zenon, <1>2, <1>3, <1>4, ModUnique
<1>. QED  BY Zenon, <1>3, <1>5, <1>6 DEF y, r, z, s

(* The last three digits of v in base b.                                   *)
LEMMA ThreeDigits ==
  ASSUME NEW b \in Nat \ {0}, NEW v \in Int
  PROVE  /\ b * b * b \in Nat \ {0}
         /\ (v % b) + b * ((v \div b) % b) + b * b * ((v \div (b * b)) % b) = v % (b * b * b)
<1>1. /\ b * b \in Nat \ {0} /\ v % (b * b) = ((v \div b) % b) * b + (v % b)
  BY Zenon, DivDiv
<1>2. /\ b * b * b \in Nat \ {0}
      /\ v % (b * b * b) = ((v \div (b * b)) % b) * (b * b) + (v % (b * b))
  BY Zenon, <1>1, DivDiv
<1>3. v \div b \in Int /\ v \div (b * b) \in Int
  BY <1>1, ModSplit
<1>. DEFINE r0 == v % b  r1 == (v \div b) % b  r2 == (v \div (b * b)) % b
<1>4. r0 \in Int /\ r1 \in Int /\ r2 \in Int
  BY <1>3, ModSplit
<1>5. v % (b * b * b) = r2 * (b * b) + (r1 * b + r0)
  BY Zenon, <1>1, <1>2
<1>. HIDE DEF r0, r1, r2
<1>6. r2 * (b * b) + (r1 * b + r0) = r0 + b * r1 + b * b * r2
  BY <1>4
<1>. QED  BY Zenon, <1>2, <1>5, <1>6 DEF r0, r1, r2

(* The last four digits.                                                   *)
LEMMA FourDigits ==
  ASSUME NEW b \in Nat \ {0}, NEW v \in Int
  PROVE  /\ b * b * b * b \in Nat \ {0}
         /\ (v % b) + b * ((v \div b) % b) + b * b * ((v \div (b * b)) % b)
             + b * b * b * ((v \div (b * b * b)) % b) = v % (b * b * b * b)
<1>. DEFINE low == (v % b) + b * ((v \div b) % b) + b * b * ((v \div (b * b)) % b)
            r3 == (v \div (b * b * b)) % b
<1>1. b * b * b \in Nat \ {0} /\ low = v % (b * b * b)
  BY Zenon, ThreeDigits
<1>2. /\ b * b * b * b \in Nat \ {0}
      /\ v % (b * b * b * b) = r3 * (b * b * b) + (v % (b * b * b))
  BY Zenon, <1>1, DivDiv
<1>3. low \in Int /\ r3 \in Int
  BY <1>1, ModSplit
<1>. HIDE DEF low, r3
<1>4. v % (b * b * b * b) = r3 * (b * b * b) + low
  BY Zenon, <1>1, <1>2
<1>5. r3 * (b * b * b) + low = low + b * b * b * r3
  BY <1>3
<1>. QED  BY Zenon, <1>2, <1>4, <1>5 DEF low, r3

-----------------------------------------------------------------------------
(* What the readers read back.                                             *)

LEMMA Widths ==
  /\ Byte \in Nat \ {0} /\ Byte >= 4
  /\ Byte * Byte \in Nat \ {0} /\ Byte * Byte * Byte \in Nat \ {0}
  /\ Word \in Nat \ {0} /\ Word >= 256
<1>1. Nibble \in Nat /\ Nibble >= 2 /\ Byte = Nibble * Nibble
  BY RecordsAssumption
<1>2. Byte \in Nat /\ Byte >= 4
  BY <1>1
<1>3. Byte * Byte \in Nat /\ Byte * Byte >= 16
  BY <1>2
<1>4. Byte * Byte * Byte \in Nat /\ Byte * Byte * Byte >= 64
  <2>1. Byte * Byte * Byte = (Byte * Byte) * Byte
    OBVIOUS
  <2>. DEFINE q == Byte * Byte
  <2>. HIDE DEF q
  <2>2. q * Byte >= 64 /\ q * Byte \in Nat
    BY <1>2, <1>3 DEF q
  <2>. QED  BY <2>2 DEF q
<1>5. Word \in Nat /\ Word >= 256
  <2>. DEFINE q == Byte * Byte * Byte
  <2>1. q \in Nat /\ q >= 64
    BY <1>4
  <2>. HIDE DEF q
  <2>2. q * Byte >= 256 /\ q * Byte \in Nat
    BY <1>2, <2>1
  <2>. QED  BY <2>2 DEF q, Word
<1>. QED  BY <1>2, <1>3, <1>4, <1>5

LEMMA ZerothByte == \A v \in Int : ByteOf(v, 0) = v % Byte
BY DEF ByteOf, Weights

(* Four bytes of a word, read back: the value as far as a word holds it.   *)
LEMMA BytesOfWord ==
  ASSUME NEW v \in Int
  PROVE  ByteOf(v, 0) + Byte * ByteOf(v, 1) + Byte * Byte * ByteOf(v, 2)
           + Byte * Byte * Byte * ByteOf(v, 3) = v % Word
<1>1. /\ ByteOf(v, 0) = v % Byte /\ ByteOf(v, 1) = (v \div Byte) % Byte
      /\ ByteOf(v, 2) = (v \div (Byte * Byte)) % Byte
      /\ ByteOf(v, 3) = (v \div (Byte * Byte * Byte)) % Byte
  BY DEF ByteOf, Weights
<1>. QED  BY Zenon, <1>1, Widths, FourDigits DEF Word

LEMMA WordsRead ==
  ASSUME NEW vals, \A i \in 1 .. 4 : vals[i] \in Int
  PROVE  /\ unpack_le32(Packed(vals), 0) = vals[1] % Word
         /\ unpack_le32(Packed(vals), 4) = vals[2] % Word
         /\ unpack_le32(Packed(vals), 8) = vals[3] % Word
         /\ unpack_le32(Packed(vals), 12) = vals[4] % Word
<1>. DEFINE hash == Packed(vals)
<1>1. /\ hash[0] = ByteOf(vals[1], 0) /\ hash[1] = ByteOf(vals[1], 1)
      /\ hash[2] = ByteOf(vals[1], 2) /\ hash[3] = ByteOf(vals[1], 3)
  BY DEF Packed
<1>2. /\ hash[4] = ByteOf(vals[2], 0) /\ hash[5] = ByteOf(vals[2], 1)
      /\ hash[6] = ByteOf(vals[2], 2) /\ hash[7] = ByteOf(vals[2], 3)
  BY DEF Packed
<1>3. /\ hash[8] = ByteOf(vals[3], 0) /\ hash[9] = ByteOf(vals[3], 1)
      /\ hash[10] = ByteOf(vals[3], 2) /\ hash[11] = ByteOf(vals[3], 3)
  BY DEF Packed
<1>4. /\ hash[12] = ByteOf(vals[4], 0) /\ hash[13] = ByteOf(vals[4], 1)
      /\ hash[14] = ByteOf(vals[4], 2) /\ hash[15] = ByteOf(vals[4], 3)
  BY DEF Packed
<1>. HIDE DEF hash
<1>5. /\ unpack_le32(hash, 0) = hash[0] + Byte * hash[1] + Byte * Byte * hash[2]
                                  + Byte * Byte * Byte * hash[3]
      /\ unpack_le32(hash, 4) = hash[4] + Byte * hash[5] + Byte * Byte * hash[6]
                                  + Byte * Byte * Byte * hash[7]
      /\ unpack_le32(hash, 8) = hash[8] + Byte * hash[9] + Byte * Byte * hash[10]
                                  + Byte * Byte * Byte * hash[11]
      /\ unpack_le32(hash, 12) = hash[12] + Byte * hash[13] + Byte * Byte * hash[14]
                                   + Byte * Byte * Byte * hash[15]
  BY DEF unpack_le32
<1>6. vals[1] \in Int /\ vals[2] \in Int /\ vals[3] \in Int /\ vals[4] \in Int
  OBVIOUS
<1>. QED  BY ZenonT(60), <1>1, <1>2, <1>3, <1>4, <1>5, <1>6, BytesOfWord DEF hash

LEMMA FitsWord ==
  /\ \A v \in 0 .. Word - 1 : v % Word = v
  /\ (-1) % Word = Word - 1
<1>1. \A v \in 0 .. Word - 1 : v % Word = v
  <2>. SUFFICES ASSUME NEW v \in 0 .. Word - 1  PROVE v % Word = v
    OBVIOUS
  <2>1. (0 * Word + v) % Word = v
    BY Widths, ModUnique
  <2>. QED  BY <2>1, Widths
<1>2. (-1) % Word = Word - 1
  <2>1. ((-1) * Word + (Word - 1)) % Word = Word - 1
    BY Widths, ModUnique
  <2>2. (-1) * Word + (Word - 1) = -1
    BY Widths
  <2>. QED  BY <2>1, <2>2
<1>. QED  BY <1>1, <1>2


LEMMA FitsByte ==
  /\ \A v \in 0 .. Byte - 1 : v \in Int /\ Low(v) = v /\ v \in 0 .. Word - 1
  /\ \A v \in Int : Low(v) \in 0 .. Byte - 1 /\ Low(Low(v)) = Low(v)
  /\ \A c \in Channels : c \in 0 .. Byte - 1 /\ c \in 0 .. Word - 1 /\ c # Byte - 1
<1>1. \A v \in 0 .. Byte - 1 : v \in Int /\ Low(v) = v
  <2>. SUFFICES ASSUME NEW v \in 0 .. Byte - 1  PROVE v \in Int /\ v % Byte = v
    BY Zenon DEF Low
  <2>1. 0 \in Int /\ v \in Int
    BY Widths
  <2>2. (0 * Byte + v) % Byte = v
    BY Zenon, <2>1, Widths, ModUnique
  <2>. QED  BY <2>1, <2>2, Widths
<1>2. \A v \in Int : Low(v) \in 0 .. Byte - 1
  BY Zenon, Widths, ModSplit DEF Low
<1>3. \A c \in Channels : c \in 0 .. Byte - 1 /\ c # Byte - 1
  BY AuditAssumption, Widths DEF Channels
<1>4. \A v \in 0 .. Byte - 1 : v \in 0 .. Word - 1
  <2>1. Byte * Byte * Byte * Byte >= Byte
    <3>. DEFINE q == Byte * Byte * Byte
    <3>1. q \in Nat \ {0}
      BY Widths
    <3>. HIDE DEF q
    <3>2. q * Byte >= Byte
      BY <3>1, Widths
    <3>. QED  BY <3>2 DEF q
  <2>. QED  BY <2>1, Widths DEF Word
<1>. QED  BY Zenon, <1>1, <1>2, <1>3, <1>4

(* The three bytes of a stamp.                                             *)
LEMMA ThreeBytes ==
  ASSUME NEW a \in 0 .. Byte - 1, NEW b \in 0 .. Byte - 1, NEW c \in 0 .. Byte - 1
  PROVE  LET v == a + Byte * b + Byte * Byte * c
         IN  /\ v \in 0 .. Byte * Byte * Byte - 1
             /\ ByteOf(v, 0) = a /\ ByteOf(v, 1) = b /\ ByteOf(v, 2) = c
<1>. DEFINE v == a + Byte * b + Byte * Byte * c
<1>1. a \in Int /\ b \in Int /\ c \in Int /\ b + Byte * c \in Int /\ v \in Int
  BY Widths
<1>2. v = (b + Byte * c) * Byte + a
  BY <1>1, Widths
<1>3. v % Byte = a /\ v \div Byte = b + Byte * c
  <2>. HIDE DEF v
  <2>. QED  BY Zenon, <1>1, <1>2, Widths, ModUnique
<1>4. b + Byte * c = c * Byte + b
  BY <1>1, Widths
<1>5. (b + Byte * c) % Byte = b /\ (b + Byte * c) \div Byte = c
  BY Zenon, <1>1, <1>4, Widths, ModUnique
<1>6. v \div (Byte * Byte) = (v \div Byte) \div Byte
  <2>. HIDE DEF v
  <2>. QED  BY Zenon, <1>1, Widths, DivDiv
<1>7. c % Byte = c
  BY Zenon, FitsByte DEF Low
<1>8. v \in 0 .. Byte * Byte * Byte - 1
  <2>1. Byte * b \in Nat /\ Byte * b <= Byte * (Byte - 1)
    BY Widths
  <2>2. Byte * Byte * c \in Nat /\ Byte * Byte * c <= Byte * Byte * (Byte - 1)
    <3>. DEFINE q == Byte * Byte
    <3>1. q \in Nat
      BY Widths
    <3>. HIDE DEF q
    <3>2. q * c \in Nat /\ q * c <= q * (Byte - 1)
      BY <3>1, Widths
    <3>. QED  BY <3>2 DEF q
  <2>3. Byte * (Byte - 1) = Byte * Byte - Byte /\ Byte * Byte * (Byte - 1) = Byte * Byte * Byte - Byte * Byte
    BY Widths
  <2>. QED  BY <2>1, <2>2, <2>3, Widths
<1>. HIDE DEF v
<1>9. ByteOf(v, 0) = v % Byte /\ ByteOf(v, 1) = (v \div Byte) % Byte
      /\ ByteOf(v, 2) = (v \div (Byte * Byte)) % Byte
  BY <1>1 DEF ByteOf, Weights
<1>. QED  BY Zenon, <1>3, <1>5, <1>6, <1>7, <1>8, <1>9 DEF v

LEMMA FourBits ==
  ASSUME NEW a \in {0, 1}, NEW b \in {0, 2}, NEW c \in {0, 4}, NEW d \in {0, 8}
  PROVE  /\ a + b + c + d \in 0 .. 15
         /\ ((a + b + c + d) \div 1) % 2 = 1 <=> a = 1
         /\ ((a + b + c + d) \div 2) % 2 = 1 <=> b = 2
         /\ ((a + b + c + d) \div 4) % 2 = 1 <=> c = 4
         /\ ((a + b + c + d) \div 8) % 2 = 1 <=> d = 8
OBVIOUS

LEMMA CapsAre ==
  /\ Caps[1] = "SEND" /\ Caps[2] = "RECV" /\ Caps[3] = "CROSS" /\ Caps[4] = "PRIVILEGED"
  /\ Bits[1] = 1 /\ Bits[2] = 2 /\ Bits[3] = 4 /\ Bits[4] = 8
BY DEF Caps, Bits

(* A mask survives being packed into a word.                               *)
LEMMA MaskRead ==
  ASSUME NEW caps \in Masks
  PROVE  CapWord(caps) \in 0 .. Word - 1 /\ CapsIn(CapWord(caps)) = caps
<1>. DEFINE a == Bit(caps, 1)  b == Bit(caps, 2)  c == Bit(caps, 3)  d == Bit(caps, 4)
            w == CapWord(caps)
<1>1. a \in {0, 1} /\ b \in {0, 2} /\ c \in {0, 4} /\ d \in {0, 8}
  BY Zenon, CapsAre DEF Bit
<1>2. /\ a = 1 <=> "SEND" \in caps
      /\ b = 2 <=> "RECV" \in caps
      /\ c = 4 <=> "CROSS" \in caps
      /\ d = 8 <=> "PRIVILEGED" \in caps
  <2>1. 0 # 1 /\ 0 # 2 /\ 0 # 4 /\ 0 # 8
    OBVIOUS
  <2>. QED  BY Zenon, <2>1, CapsAre DEF Bit
<1>3. w = a + b + c + d
  BY Zenon DEF CapWord
<1>. HIDE DEF a, b, c, d, w
<1>4. /\ w \in 0 .. 15
      /\ (w \div 1) % 2 = 1 <=> a = 1
      /\ (w \div 2) % 2 = 1 <=> b = 2
      /\ (w \div 4) % 2 = 1 <=> c = 4
      /\ (w \div 8) % 2 = 1 <=> d = 8
  BY <1>1, <1>3, FourBits
<1>5. \A x : x \in CapsIn(w) <=> \/ x = "SEND" /\ (w \div 1) % 2 = 1
                                 \/ x = "RECV" /\ (w \div 2) % 2 = 1
                                 \/ x = "CROSS" /\ (w \div 4) % 2 = 1
                                 \/ x = "PRIVILEGED" /\ (w \div 8) % 2 = 1
  <2>1. \A x : x \in CapsIn(w) <=> \E i \in 1 .. 4 : x = Caps[i] /\ (w \div Bits[i]) % 2 = 1
    BY Zenon DEF CapsIn
  <2>2. 1 \in 1 .. 4 /\ 2 \in 1 .. 4 /\ 3 \in 1 .. 4 /\ 4 \in 1 .. 4
    OBVIOUS
  <2>3. ASSUME NEW i \in 1 .. 4, (w \div Bits[i]) % 2 = 1
        PROVE  \/ Caps[i] = "SEND" /\ (w \div 1) % 2 = 1
               \/ Caps[i] = "RECV" /\ (w \div 2) % 2 = 1
               \/ Caps[i] = "CROSS" /\ (w \div 4) % 2 = 1
               \/ Caps[i] = "PRIVILEGED" /\ (w \div 8) % 2 = 1
    <3>1. i = 1 \/ i = 2 \/ i = 3 \/ i = 4
      OBVIOUS
    <3>. QED  BY Zenon, <2>3, <3>1, CapsAre
  <2>4. /\ (w \div 1) % 2 = 1 => "SEND" \in CapsIn(w)
        /\ (w \div 2) % 2 = 1 => "RECV" \in CapsIn(w)
        /\ (w \div 4) % 2 = 1 => "CROSS" \in CapsIn(w)
        /\ (w \div 8) % 2 = 1 => "PRIVILEGED" \in CapsIn(w)
    BY Zenon, <2>1, <2>2, CapsAre
  <2>5. ASSUME NEW x \in CapsIn(w)
        PROVE  \/ x = "SEND" /\ (w \div 1) % 2 = 1
               \/ x = "RECV" /\ (w \div 2) % 2 = 1
               \/ x = "CROSS" /\ (w \div 4) % 2 = 1
               \/ x = "PRIVILEGED" /\ (w \div 8) % 2 = 1
    <3>1. PICK i \in 1 .. 4 : x = Caps[i] /\ (w \div Bits[i]) % 2 = 1
      BY Zenon, <2>1
    <3>. QED  BY Zenon, <2>3, <3>1
  <2>. QED  BY Zenon, <2>4, <2>5
<1>6. CapsIn(w) = caps
  <2>1. \A x \in caps : x \in {"SEND", "RECV", "CROSS", "PRIVILEGED"}
    BY DEF Masks
  <2>. QED  BY ZenonT(60), <1>2, <1>4, <1>5, <2>1
<1>7. w \in 0 .. Word - 1
  BY <1>4, Widths
<1>. QED  BY Zenon, <1>6, <1>7 DEF w

LEMMA ChannelRead ==
  ASSUME NEW c \in Channels, NEW task \in Callers, NEW dom \in Domains, NEW caps \in CapSets,
         NEW p \in Protocols
  PROVE  ReadChannel(Created(c, task, dom, caps, p))
           = [channel |-> c, owner |-> task.task_id, cap_mask |-> CapWord(caps), domain |-> dom]
<1>. DEFINE vals == <<dom, 0, 0, 0>>  id == task.task_id  w == CapWord(caps)
<1>1. ReadChannel(Created(c, task, dom, caps, p))
        = [channel |-> Low(c), owner |-> id % Word, cap_mask |-> w % Word,
           domain |-> unpack_le32(Packed(vals), 0)]
  BY Zenon DEF ReadChannel, Created, emit_chan_create_record, Record
<1>2. dom \in 0 .. Word - 1 /\ id \in 0 .. Word - 1 /\ w \in 0 .. Word - 1 /\ c \in 0 .. Byte - 1
  BY Zenon, AuditAssumption, CallersAssumption, MasksAssumption, MaskRead, FitsByte
<1>3. (\A i \in 1 .. 4 : vals[i] \in Int) /\ vals[1] = dom
  BY <1>2, Widths
<1>. HIDE DEF vals, id, w
<1>4. unpack_le32(Packed(vals), 0) = dom % Word
  BY Zenon, <1>3, WordsRead
<1>5. Low(c) = c /\ id % Word = id /\ w % Word = w /\ dom % Word = dom
  BY Zenon, <1>2, FitsByte, FitsWord
<1>. QED  BY Zenon, <1>1, <1>4, <1>5 DEF id, w

LEMMA ConnectRead ==
  ASSUME NEW c \in Channels, NEW d \in Channels
  PROVE  ReadConnect(Connected(c, d)).src = c /\ ReadConnect(Connected(c, d)).dst = d
<1>1. ReadConnect(Connected(c, d)).src = Low(c) /\ ReadConnect(Connected(c, d)).dst = d % Word
  BY Zenon DEF ReadConnect, Connected, emit_chan_connect_record, Record
<1>. QED  BY Zenon, <1>1, FitsByte, FitsWord

LEMMA EdgeRead ==
  ASSUME NEW a \in Matrix, NEW b \in Matrix
  PROVE  ReadEdge(emit_domain_edge_record(a, b, 1)) = <<a, b>>
<1>1. ReadEdge(emit_domain_edge_record(a, b, 1)) = <<a % Word, b % Word>>
  BY Zenon DEF ReadEdge, emit_domain_edge_record, Record
<1>2. a \in 0 .. Word - 1 /\ b \in 0 .. Word - 1
  BY Zenon, AuditAssumption
<1>. QED  BY Zenon, <1>1, <1>2, FitsWord

MsgRecord(m) == emit_msg_record(m.padding, 0, m.operation, 0, Zeros)

LEMMA MsgRead ==
  ASSUME NEW m, NEW c \in Channels, NEW dom \in Domains, NEW p \in Protocols,
         m.padding = Stamp(c, dom, p), m.operation \in {0, 1}
  PROVE  /\ MsgRecord(m).channel_id = c /\ MsgRecord(m).src_domain = Low(dom)
         /\ MsgRecord(m).operation = m.operation
<1>. DEFINE v == m.padding
<1>1. /\ MsgRecord(m).channel_id = Low(ByteOf(v, 0)) /\ MsgRecord(m).src_domain = Low(ByteOf(v, 1))
      /\ MsgRecord(m).operation = m.operation % Word
  BY Zenon DEF MsgRecord, emit_msg_record, Record
<1>2. c \in Int /\ dom \in Int /\ p \in Int
  BY AuditAssumption, Widths DEF Channels
<1>3. Low(c) \in 0 .. Byte - 1 /\ Low(dom) \in 0 .. Byte - 1 /\ Low(p) \in 0 .. Byte - 1
  BY Zenon, <1>2, FitsByte
<1>4. ByteOf(v, 0) = Low(c) /\ ByteOf(v, 1) = Low(dom)
  <2>. DEFINE x == Low(c)  y == Low(dom)  z == Low(p)
  <2>1. v = x + Byte * y + Byte * Byte * z
    BY Zenon DEF Stamp
  <2>2. x \in 0 .. Byte - 1 /\ y \in 0 .. Byte - 1 /\ z \in 0 .. Byte - 1
    BY Zenon, <1>3
  <2>. HIDE DEF x, y, z, v
  <2>3. ByteOf(v, 0) = x /\ ByteOf(v, 1) = y
    BY <2>1, <2>2, ThreeBytes
  <2>. QED  BY Zenon, <2>3 DEF x, y
<1>5. 0 \in 0 .. Word - 1 /\ 1 \in 0 .. Word - 1
  BY Widths
<1>. HIDE DEF v
<1>. QED  BY Zenon, <1>1, <1>2, <1>4, <1>5, FitsByte, FitsWord

(* The last word of a DENY record: three bytes of the parent's id and two  *)
(* nibbles.                                                                *)
LEMMA LastWord ==
  ASSUME NEW info, info.parent_task_id \in Int,
         info.lineage_depth \in 0 .. Nibble - 1, info.sibling_count \in 0 .. Nibble - 1
  PROVE  LET v == (info.parent_task_id % (Byte * Byte * Byte))
                    + Byte * Byte * Byte * ((info.lineage_depth % Nibble) * Nibble
                                              + (info.sibling_count % Nibble))
         IN  /\ v \in Int
             /\ ByteOf(v, 0) + Byte * ByteOf(v, 1) + Byte * Byte * ByteOf(v, 2)
                  = info.parent_task_id % (Byte * Byte * Byte)
             /\ ByteOf(v, 3) \div Nibble = info.lineage_depth
             /\ ByteOf(v, 3) % Nibble = info.sibling_count
<1>. DEFINE par == info.parent_task_id  depth == info.lineage_depth  sibs == info.sibling_count
            v == (par % (Byte * Byte * Byte))
                   + Byte * Byte * Byte * ((depth % Nibble) * Nibble + (sibs % Nibble))
            cube == Byte * Byte * Byte  low == par % cube  two == depth * Nibble + sibs
<1>1. cube \in Nat \ {0} /\ Nibble \in Nat \ {0} /\ depth \in Int /\ sibs \in Int
  BY Widths, RecordsAssumption
<1>2. low \in 0 .. cube - 1
  <2>. HIDE DEF cube
  <2>. QED  BY Zenon, <1>1, ModSplit
<1>3. depth % Nibble = depth /\ sibs % Nibble = sibs
  <2>1. 0 \in Int
    OBVIOUS
  <2>2. (0 * Nibble + depth) % Nibble = depth /\ (0 * Nibble + sibs) % Nibble = sibs
    BY Zenon, <1>1, <2>1, ModUnique
  <2>3. 0 * Nibble + depth = depth /\ 0 * Nibble + sibs = sibs
    BY <1>1
  <2>. QED  BY Zenon, <2>2, <2>3
<1>4. two \in 0 .. Byte - 1
  <2>1. depth * Nibble \in Nat /\ depth * Nibble <= (Nibble - 1) * Nibble
    BY <1>1
  <2>2. (Nibble - 1) * Nibble = Byte - Nibble
    BY <1>1, RecordsAssumption
  <2>. QED  BY <1>1, <2>1, <2>2, Widths
<1>5. two \div Nibble = depth /\ two % Nibble = sibs
  BY Zenon, <1>1, ModUnique
<1>6. v = low + cube * two
  BY Zenon, <1>3
<1>. HIDE DEF low, cube, two, v, par, depth, sibs
<1>7. low \in Int /\ two \in Int /\ v \in Int /\ v = two * cube + low
  BY <1>1, <1>2, <1>4, <1>6, Widths
<1>8. v % cube = low /\ v \div cube = two
  BY Zenon, <1>1, <1>2, <1>7, ModUnique
<1>9. /\ ByteOf(v, 0) = v % Byte /\ ByteOf(v, 1) = (v \div Byte) % Byte
      /\ ByteOf(v, 2) = (v \div (Byte * Byte)) % Byte
      /\ ByteOf(v, 3) = (v \div (Byte * Byte * Byte)) % Byte
  BY <1>7 DEF ByteOf, Weights
<1>10. ByteOf(v, 0) + Byte * ByteOf(v, 1) + Byte * Byte * ByteOf(v, 2) = v % cube
  BY ZenonT(60), <1>7, <1>9, Widths, ThreeDigits DEF cube
<1>11. ByteOf(v, 3) = two
  BY Zenon, <1>4, <1>8, <1>9, FitsByte DEF cube, Low
<1>. QED  BY Zenon, <1>5, <1>7, <1>8, <1>10, <1>11 DEF low, cube, v, par, depth, sibs

(* The lineages there are.                                                 *)
Parents == 0 .. Byte * Byte * Byte - 2

LEMMA ParentRead ==
  ASSUME NEW par, par \in Parents \/ par = TASK_PARENT_NONE
  PROVE  /\ par \in Int
         /\ LET p == par % (Byte * Byte * Byte)
            IN  par = IF p = Byte * Byte * Byte - 1 THEN TASK_PARENT_NONE ELSE p
<1>. DEFINE cube == Byte * Byte * Byte  p == par % cube
<1>1. cube \in Nat \ {0} /\ cube - 1 \in 0 .. cube - 1
  BY Widths
<1>2. CASE par \in Parents
  <2>1. par \in 0 .. cube - 1 /\ par # cube - 1 /\ par \in Int /\ 0 \in Int
    BY <1>1, <1>2 DEF Parents
  <2>2. 0 * cube + par = par
    BY <1>1, <2>1
  <2>. HIDE DEF cube
  <2>3. p = par
    BY Zenon, <1>1, <2>1, <2>2, ModUnique
  <2>. QED  BY Zenon, <2>1, <2>3 DEF cube
<1>3. CASE par = TASK_PARENT_NONE
  <2>1. TASK_PARENT_NONE = (Byte - 1) * cube + (cube - 1) /\ Byte - 1 \in Int
    BY Widths DEF TASK_PARENT_NONE, Word
  <2>2. TASK_PARENT_NONE \in Int
    BY Widths DEF TASK_PARENT_NONE
  <2>. HIDE DEF cube
  <2>3. p = cube - 1
    BY Zenon, <1>1, <1>3, <2>1, ModUnique
  <2>. QED  BY Zenon, <1>3, <2>2, <2>3 DEF cube
<1>. QED  BY Zenon, <1>2, <1>3

(* A refusal as its reader has it, from what it is made of.                *)
DenyFits(info) ==
  /\ info.reason \in 0 .. Byte - 1 /\ info.dst_domain \in 0 .. Byte - 1
  /\ info.dst_channel \in 0 .. Byte - 1
  /\ info.granted_caps \in 0 .. Word - 1 /\ info.required_caps \in 0 .. Word - 1
  /\ info.parent_task_id \in Parents \/ info.parent_task_id = TASK_PARENT_NONE
  /\ info.lineage_depth \in 0 .. Nibble - 1 /\ info.sibling_count \in 0 .. Nibble - 1

LEMMA DenyRead ==
  ASSUME NEW info, DenyFits(info)
  PROVE  LET d == ReadDeny(auditor_deny(info))
         IN  /\ auditor_deny(info).channel_id = Low(info.src_channel)
             /\ d.reason = info.reason /\ d.dst_channel = info.dst_channel
             /\ d.granted = info.granted_caps /\ d.required = info.required_caps
             /\ d.dst_ch32 = IF info.dst_channel = Byte - 1 THEN Word - 1 ELSE info.dst_channel
             /\ d.parent = info.parent_task_id /\ d.depth = info.lineage_depth
             /\ d.sibs = info.sibling_count
<1>. DEFINE r == auditor_deny(info)  d == ReadDeny(r)
            dst == IF info.dst_channel = Byte - 1 THEN Word - 1 ELSE info.dst_channel
            last == (info.parent_task_id % (Byte * Byte * Byte))
                      + Byte * Byte * Byte * ((info.lineage_depth % Nibble) * Nibble
                                                + (info.sibling_count % Nibble))
            sum == info.reason + Byte * info.dst_domain + Byte * Byte * info.dst_channel
            vals == <<info.granted_caps, info.required_caps, dst, last>>
            hash == Packed(vals)
<1>1. /\ r.channel_id = Low(info.src_channel) /\ r.checksum = sum % Word /\ r.payload_hash = hash
  BY Zenon DEF auditor_deny, Record
<1>2. sum \in 0 .. Word - 1 /\ ByteOf(sum, 0) = info.reason /\ ByteOf(sum, 2) = info.dst_channel
  <2>1. /\ sum \in 0 .. Byte * Byte * Byte - 1
        /\ ByteOf(sum, 0) = info.reason /\ ByteOf(sum, 2) = info.dst_channel
    BY ThreeBytes DEF DenyFits
  <2>. DEFINE cube == Byte * Byte * Byte
  <2>2. cube \in Nat
    BY Widths
  <2>. HIDE DEF sum
  <2>3. sum \in 0 .. cube - 1 /\ Word = cube * Byte
    BY Zenon, <2>1 DEF Word
  <2>. HIDE DEF cube
  <2>4. cube * Byte >= cube
    BY <2>2, Widths
  <2>5. sum \in 0 .. Word - 1
    BY <2>2, <2>3, <2>4, Widths
  <2>. QED  BY Zenon, <2>1, <2>5
<1>3. /\ last \in Int
      /\ ByteOf(last, 0) + Byte * ByteOf(last, 1) + Byte * Byte * ByteOf(last, 2)
           = info.parent_task_id % (Byte * Byte * Byte)
      /\ ByteOf(last, 3) \div Nibble = info.lineage_depth
      /\ ByteOf(last, 3) % Nibble = info.sibling_count
  <2>1. info.parent_task_id \in Int
    BY Zenon, ParentRead DEF DenyFits
  <2>. QED  BY Zenon, <2>1, LastWord DEF DenyFits
<1>4. dst \in 0 .. Word - 1
  <2>1. Word - 1 \in 0 .. Word - 1
    BY Widths
  <2>. QED  BY Zenon, <2>1, FitsByte DEF DenyFits
<1>. HIDE DEF last, dst, sum
<1>5. /\ \A i \in 1 .. 4 : vals[i] \in Int
      /\ vals[1] = info.granted_caps /\ vals[2] = info.required_caps
      /\ vals[3] = dst /\ vals[4] = last
  BY <1>3, <1>4, Widths DEF DenyFits
<1>6. /\ hash[12] = ByteOf(vals[4], 0) /\ hash[13] = ByteOf(vals[4], 1)
      /\ hash[14] = ByteOf(vals[4], 2) /\ hash[15] = ByteOf(vals[4], 3)
  <2>. HIDE DEF vals
  <2>. QED  BY DEF Packed
<1>. HIDE DEF vals
<1>7. /\ unpack_le32(hash, 0) = info.granted_caps /\ unpack_le32(hash, 4) = info.required_caps
      /\ unpack_le32(hash, 8) = dst
  BY Zenon, <1>4, <1>5, WordsRead, FitsWord DEF DenyFits
<1>. HIDE DEF hash, r
<1>8. sum % Word = sum /\ ByteOf(sum, 0) = sum % Byte
  BY <1>2, FitsWord, ZerothByte
<1>9. /\ d.reason = info.reason /\ d.dst_channel = info.dst_channel
      /\ d.granted = info.granted_caps /\ d.required = info.required_caps /\ d.dst_ch32 = dst
      /\ d.depth = info.lineage_depth /\ d.sibs = info.sibling_count
  BY Zenon, <1>1, <1>2, <1>3, <1>5, <1>6, <1>7, <1>8 DEF ReadDeny
<1>10. d.parent = info.parent_task_id
  <2>. DEFINE p == r.payload_hash[12] + Byte * r.payload_hash[13] + Byte * Byte * r.payload_hash[14]
  <2>1. d.parent = IF p = Byte * Byte * Byte - 1 THEN TASK_PARENT_NONE ELSE p
    BY Zenon DEF ReadDeny
  <2>2. p = info.parent_task_id % (Byte * Byte * Byte)
    BY Zenon, <1>1, <1>3, <1>5, <1>6
  <2>. HIDE DEF p, d
  <2>. QED  BY Zenon, <2>1, <2>2, ParentRead DEF DenyFits
<1>. HIDE DEF d
<1>. QED  BY Zenon, <1>1, <1>9, <1>10 DEF d, r, dst

LEMMA CreateDenyRead ==
  ASSUME NEW task \in Callers, NEW dom \in Domains, NEW caps \in CapSets, NEW p \in Protocols,
         NEW reason \in {5, 6}
  PROVE  LET d == ReadDeny(emit_create_deny(task, caps, dom, reason, p))
         IN  /\ Lineage(task) = [parent |-> d.parent, depth |-> d.depth, sibs |-> d.sibs]
             /\ CapsIn(d.granted) = task.cap_mask /\ CapsIn(d.required) = caps
             /\ d.reason = reason /\ d.dst_ch32 = Word - 1
<1>. DEFINE info == [src_domain |-> task.domain, dst_domain |-> Low(dom),
                     src_channel |-> Byte - 1, dst_channel |-> Byte - 1,
                     protocol |-> p, reason |-> reason, priority |-> 0, operation |-> 0,
                     granted_caps |-> CapWord(task.cap_mask), required_caps |-> CapWord(caps),
                     parent_task_id |-> task.parent_task_id,
                     lineage_depth |-> task.lineage_depth,
                     sibling_count |-> task.sibling_count]
            d == ReadDeny(emit_create_deny(task, caps, dom, reason, p))
<1>1. /\ info.reason = reason /\ info.dst_domain = Low(dom) /\ info.dst_channel = Byte - 1
      /\ info.granted_caps = CapWord(task.cap_mask) /\ info.required_caps = CapWord(caps)
      /\ info.parent_task_id = task.parent_task_id /\ info.lineage_depth = task.lineage_depth
      /\ info.sibling_count = task.sibling_count
  BY Zenon
<1>2. emit_create_deny(task, caps, dom, reason, p) = auditor_deny(info)
  BY Zenon DEF emit_create_deny
<1>. HIDE DEF info
<1>3. reason \in 0 .. Byte - 1 /\ Byte - 1 \in 0 .. Byte - 1 /\ dom \in Int
  BY MasksAssumption, AuditAssumption, Widths
<1>4. task.cap_mask \in Masks /\ caps \in Masks
  BY Zenon, MasksAssumption
<1>5. DenyFits(info)
  BY Zenon, <1>1, <1>3, <1>4, CallersAssumption, MaskRead, FitsByte DEF DenyFits, Parents
<1>6. /\ d.reason = reason /\ d.dst_ch32 = Word - 1
      /\ d.granted = CapWord(task.cap_mask) /\ d.required = CapWord(caps)
      /\ d.parent = task.parent_task_id /\ d.depth = task.lineage_depth
      /\ d.sibs = task.sibling_count
  BY ZenonT(60), <1>1, <1>2, <1>5, DenyRead
<1>. HIDE DEF d
<1>. QED  BY Zenon, <1>4, <1>6, MaskRead DEF Lineage, d

(* What the fields of a channel are.                                       *)
Opened == [serial : Nat \ {0}, domain : Domains, cap_mask : CapSets, protocol : Protocols,
           owner_task_id : 0 .. Word - 1]

(* What the record of a refusal on channel c tells its reader.             *)
DenyTells(task, c, e, op, reason) ==
  LET r == emit_deny(task, c, e, op, reason)
      d == ReadDeny(r)
  IN  /\ Lineage(task) = [parent |-> d.parent, depth |-> d.depth, sibs |-> d.sibs]
      /\ CapsIn(d.granted) = channels[c].cap_mask
      /\ CapsIn(d.required) = required_caps_for_op(op)
      /\ d.reason = reason /\ r.channel_id = c
      /\ e \in Channels => d.dst_channel = e /\ d.dst_ch32 = e
      /\ e = NoChannel => d.dst_ch32 = Word - 1

LEMMA ChannelDenyRead ==
  ASSUME channels \in [Channels -> {Free} \union Opened],
         NEW task \in Callers, NEW c \in Channels, in_use(c),
         NEW e \in Channels \union {NoChannel}, e \in Channels => in_use(e),
         NEW op \in {0, 1}, NEW reason \in 1 .. 4
  PROVE  DenyTells(task, c, e, op, reason)
<1>. DEFINE info == [src_domain |-> Low(channels[c].domain),
                     dst_domain |-> IF e \in Channels THEN Low(channels[e].domain) ELSE Byte - 1,
                     src_channel |-> c, dst_channel |-> IF e \in Channels THEN e ELSE Byte - 1,
                     protocol |-> channels[c].protocol, reason |-> reason,
                     priority |-> 0, operation |-> op,
                     granted_caps |-> CapWord(channels[c].cap_mask),
                     required_caps |-> CapWord(required_caps_for_op(op)),
                     parent_task_id |-> task.parent_task_id,
                     lineage_depth |-> task.lineage_depth,
                     sibling_count |-> task.sibling_count]
            r == emit_deny(task, c, e, op, reason)
            d == ReadDeny(r)
<1>1. /\ info.reason = reason /\ info.src_channel = c
      /\ info.dst_domain = IF e \in Channels THEN Low(channels[e].domain) ELSE Byte - 1
      /\ info.dst_channel = IF e \in Channels THEN e ELSE Byte - 1
      /\ info.granted_caps = CapWord(channels[c].cap_mask)
      /\ info.required_caps = CapWord(required_caps_for_op(op))
      /\ info.parent_task_id = task.parent_task_id /\ info.lineage_depth = task.lineage_depth
      /\ info.sibling_count = task.sibling_count
  BY Zenon
<1>2. r = auditor_deny(info)
  BY Zenon DEF emit_deny
<1>. HIDE DEF info, r
<1>3. reason \in 0 .. Byte - 1 /\ Byte - 1 \in 0 .. Byte - 1 /\ NoChannel \notin Channels
  BY MasksAssumption, AuditAssumption, Widths DEF NoChannel, Channels
<1>4. channels[c] \in Opened /\ (e \in Channels => channels[e] \in Opened)
  BY Zenon DEF in_use
<1>5. channels[c].cap_mask \in CapSets /\ (e \in Channels => channels[e].domain \in Domains)
  BY <1>4 DEF Opened
<1>6. channels[c].cap_mask \in Masks /\ required_caps_for_op(op) \in Masks
  <2>1. required_caps_for_op(op) \in Masks
    BY DEF Masks, required_caps_for_op
  <2>. QED  BY Zenon, <1>5, <2>1, MasksAssumption
<1>7. \A x \in Domains : x \in Int
  BY AuditAssumption, Widths
<1>8. DenyFits(info)
  BY ZenonT(60), <1>1, <1>3, <1>5, <1>6, <1>7, CallersAssumption, MaskRead, FitsByte DEF DenyFits, Parents
<1>9. /\ d.reason = reason /\ r.channel_id = Low(c)
      /\ d.granted = CapWord(channels[c].cap_mask)
      /\ d.required = CapWord(required_caps_for_op(op))
      /\ d.parent = task.parent_task_id /\ d.depth = task.lineage_depth
      /\ d.sibs = task.sibling_count
      /\ d.dst_channel = info.dst_channel
      /\ d.dst_ch32 = IF info.dst_channel = Byte - 1 THEN Word - 1 ELSE info.dst_channel
  BY Zenon, <1>1, <1>2, <1>8, DenyRead
<1>. HIDE DEF d
<1>10. e \in Channels => d.dst_channel = e /\ d.dst_ch32 = e
  BY Zenon, <1>1, <1>9, FitsByte
<1>11. e = NoChannel => d.dst_ch32 = Word - 1
  BY Zenon, <1>1, <1>3, <1>9
<1>12. Lineage(task) = [parent |-> d.parent, depth |-> d.depth, sibs |-> d.sibs]
  BY Zenon, <1>9 DEF Lineage
<1>13. CapsIn(d.granted) = channels[c].cap_mask /\ CapsIn(d.required) = required_caps_for_op(op)
  BY Zenon, <1>6, <1>9, MaskRead
<1>. QED  BY Zenon, <1>9, <1>10, <1>11, <1>12, <1>13, FitsByte DEF DenyTells, d, r

-----------------------------------------------------------------------------
(* The inductive invariant.                                                *)

(* No two channels ever have the same serial number.                       *)
ChannelsInv ==
  /\ created \in Nat
  /\ channels \in [Channels -> {Free} \union Opened]
  /\ \A c \in Channels : Who(c) <= created
  /\ \A c, d \in Channels : in_use(c) /\ Who(c) = Who(d) => c = d

(* The reader knows every channel in use as it is.                         *)
Described(c) ==
  [who |-> Who(c),
   is |-> [channel |-> c, owner |-> channels[c].owner_task_id,
           cap_mask |-> CapWord(channels[c].cap_mask), domain |-> channels[c].domain]]

SeenInv ==
  /\ DOMAIN seen = Channels
  /\ \A c \in Channels : in_use(c) => seen[c] = Described(c)

(* Links are between channels that were created, so the channel that gets  *)
(* an id next has none, as its CHAN_CREATE says.                           *)
LinksInv ==
  /\ \A l \in links : l[1] \in 1 .. created /\ l[2] \in 1 .. created
  /\ \A c, d \in {c \in Channels : in_use(c)} :
       <<Who(c), Who(d)>> \in links <=> <<c, d>> \in live_edges
  /\ live_edges \subseteq chan_edges

MatrixInv == domain_edges = {<<a, a>> : a \in Matrix} \cup edges_seen

(* A message in the ring has the stamp of a channel the reader knows.  The *)
(* channel is as it was when the message was sent, or its sender is gone.  *)
SentBy(m, c) ==
  /\ in_use(c) /\ Who(c) = m.who
  /\ required_caps_for_op(m.operation) \subseteq channels[c].cap_mask

Waiting(m) ==
  /\ m.who \in 1 .. created /\ m.operation \in {0, 1}
  /\ \E c \in Channels, dom \in Domains, p \in Protocols :
       /\ m.padding = Stamp(c, dom, p)
       /\ seen[c].is # Unseen
       /\ \/ SentBy(m, c) /\ channels[c].domain = dom
          \/ \A d \in Channels : Who(d) # m.who

Stamps == [who : Nat, operation : {0, 1}, padding : Nat]

RingInv == ring \in Seq(Stamps) /\ \A i \in 1 .. Len(ring) : Waiting(ring[i])

AuditInv == ChannelsInv /\ SeenInv /\ LinksInv /\ MatrixInv /\ RingInv

LEMMA ChannelIs ==
  ASSUME ChannelsInv, NEW c \in Channels
  PROVE  /\ Who(c) \in 0 .. created
         /\ in_use(c) <=> Who(c) # 0
         /\ in_use(c) => /\ channels[c] \in Opened /\ Who(c) \in 1 .. created
                         /\ channels[c].domain \in Domains /\ channels[c].cap_mask \in CapSets
                         /\ channels[c].protocol \in Protocols
                         /\ channels[c].cap_mask \in Masks
<1>1. CASE channels[c] = Free
  BY <1>1 DEF ChannelsInv, in_use, Who, Free, Nobody
<1>2. CASE channels[c] # Free
  <2>1. channels[c] \in Opened
    BY Zenon, <1>2 DEF ChannelsInv
  <2>2. /\ Who(c) \in Nat \ {0} /\ channels[c].domain \in Domains
        /\ channels[c].cap_mask \in CapSets /\ channels[c].protocol \in Protocols
    BY <2>1 DEF Opened, Who
  <2>3. Who(c) \in 1 .. created /\ Who(c) # 0 /\ Who(c) \in 0 .. created
    BY <2>2 DEF ChannelsInv
  <2>. QED  BY Zenon, <1>2, <2>1, <2>2, <2>3, MasksAssumption DEF in_use
<1>. QED  BY Zenon, <1>1, <1>2

(* What a create does, once the reader has read its record.                *)
LEMMA CreateIs ==
  ASSUME ChannelsInv, SeenInv, NEW task \in Callers, NEW dom \in Domains, NEW caps \in CapSets,
         NEW p \in Protocols, ipc_create_channel(task, dom, caps, p)
  PROVE  \E c \in Channels :
           /\ ~in_use(c) /\ in_use(c)' /\ Who(c)' = created + 1 /\ (channels[c] \in Opened)'
           /\ (seen[c] = Described(c))' /\ seen'[c].is # Unseen
           /\ channels' = [d \in Channels |-> channels'[d]] /\ DOMAIN seen' = Channels
           /\ \A d \in Channels \ {c} : channels'[d] = channels[d] /\ seen'[d] = seen[d]
           /\ live_edges' = {e \in live_edges : c \notin {e[1], e[2]}}
<1>1. PICK c \in Channels :
        LET is == ReadChannel(Created(c, task, dom, caps, p)) IN
        /\ FirstFree(c)
        /\ channels' = [channels EXCEPT ![c] =
             [serial |-> created + 1, domain |-> dom, cap_mask |-> caps, protocol |-> p,
              owner_task_id |-> task.task_id]]
        /\ seen' = [seen EXCEPT ![is.channel] = [who |-> created + 1, is |-> is]]
        /\ live_edges' = {e \in live_edges : is.channel \notin {e[1], e[2]}}
  BY Zenon DEF ipc_create_channel
<1>. DEFINE new == [serial |-> created + 1, domain |-> dom, cap_mask |-> caps, protocol |-> p,
                    owner_task_id |-> task.task_id]
            is == [channel |-> c, owner |-> task.task_id, cap_mask |-> CapWord(caps),
                   domain |-> dom]
            known == [who |-> created + 1, is |-> is]
<1>2. is = ReadChannel(Created(c, task, dom, caps, p)) /\ is.channel = c
  BY ZenonT(60), ChannelRead
<1>3. DOMAIN channels = Channels /\ DOMAIN seen = Channels /\ created \in Nat
  BY Zenon DEF ChannelsInv, SeenInv
<1>4. /\ new.serial = created + 1 /\ new.owner_task_id = task.task_id
      /\ new.cap_mask = caps /\ new.domain = dom /\ new \in Opened
  BY <1>3, CallersAssumption DEF Opened
<1>5. new # Free
  <2>1. Free.serial = 0 /\ created + 1 # 0
    BY <1>3 DEF Free, Nobody
  <2>. QED  BY Zenon, <1>4, <2>1
<1>6. is # Unseen /\ known.is = is
  <2>1. Unseen.channel = Byte - 1 /\ c # Byte - 1
    BY AuditAssumption, Widths DEF Unseen, Channels
  <2>. QED  BY Zenon, <1>2, <2>1
<1>. HIDE DEF new, is, known
<1>7. /\ channels' = [channels EXCEPT ![c] = new] /\ seen' = [seen EXCEPT ![c] = known]
      /\ live_edges' = {e \in live_edges : c \notin {e[1], e[2]}}
  BY Zenon, <1>1, <1>2 DEF new, known
<1>8. /\ channels'[c] = new /\ seen'[c] = known
      /\ channels' = [d \in Channels |-> channels'[d]] /\ DOMAIN seen' = Channels
      /\ \A d \in Channels \ {c} : channels'[d] = channels[d] /\ seen'[d] = seen[d]
  BY Zenon, <1>3, <1>7
<1>9. in_use(c)' /\ Who(c)' = created + 1 /\ (channels[c] \in Opened)' /\ ~in_use(c)
  BY Zenon, <1>1, <1>4, <1>5, <1>8 DEF in_use, Who, Opened, Free, FirstFree
<1>10. (seen[c] = Described(c))'
  BY ZenonT(60), <1>4, <1>8, <1>9 DEF Described, known, is, CapWord, Bit
<1>. QED  BY Zenon, <1>6, <1>7, <1>8, <1>9, <1>10

LEMMA CloseIs ==
  ASSUME ChannelsInv, NEW c \in Channels, ipc_close_channel(c)
  PROVE  /\ in_use(c) /\ ~in_use(c)' /\ Who(c)' = 0 /\ channels'[c] = Free
         /\ DOMAIN channels' = Channels
         /\ \A d \in Channels \ {c} : channels'[d] = channels[d]
<1>1. DOMAIN channels = Channels
  BY Zenon DEF ChannelsInv
<1>2. channels'[c] = Free /\ Free.serial = 0
  BY Zenon, <1>1 DEF ipc_close_channel, Free, Nobody
<1>. QED  BY Zenon, <1>1, <1>2 DEF ipc_close_channel, in_use, Who, Free

(* A step that is neither a create nor a close leaves the channels alone.  *)
Quiet == UNCHANGED <<channels, created, seen>>

LEMMA QuietSteps ==
  /\ \A a, b : domain_edge_set(a, b) => Quiet
  /\ domain_edges_seal => Quiet
  /\ \A c, d : ipc_connect(c, d) => Quiet
  /\ \A c, op : ipc_send(c, op) \/ SYS_IPC_SEND(c, op) => Quiet
  /\ auditor_tick => Quiet
BY Zenon DEF Quiet, domain_edge_set, domain_edges_seal, ipc_connect, ipc_send, SYS_IPC_SEND,
             auditor_tick, reader

LEMMA QuietKeeps ==
  ASSUME Quiet
  PROVE  /\ ChannelsInv => ChannelsInv'
         /\ SeenInv => SeenInv'
         /\ \A m : Waiting(m) => Waiting(m)'
         /\ \A c : (in_use(c) <=> in_use(c)') /\ Who(c)' = Who(c)
<1>1. channels' = channels /\ created' = created /\ seen' = seen
  BY Zenon DEF Quiet
<1>2. ChannelsInv => ChannelsInv'
  BY Zenon, <1>1 DEF ChannelsInv, in_use, Who, Opened, Free
<1>3. SeenInv => SeenInv'
  BY ZenonT(60), <1>1 DEF SeenInv, Described, in_use, Who, CapWord, Bit, Free
<1>4. \A m : Waiting(m) => Waiting(m)'
  BY ZenonT(60), <1>1 DEF Waiting, SentBy, in_use, Who, Free, Stamp, required_caps_for_op, Unseen
<1>5. \A c : (in_use(c) <=> in_use(c)') /\ Who(c)' = Who(c)
  BY Zenon, <1>1 DEF in_use, Who, Free
<1>. QED  BY Zenon, <1>2, <1>3, <1>4, <1>5

LEMMA SameChannel ==
  ASSUME NEW d, channels'[d] = channels[d]
  PROVE  Described(d)' = Described(d) /\ Who(d)' = Who(d) /\ (in_use(d)' <=> in_use(d))
<1>1. Who(d)' = Who(d) /\ (in_use(d)' <=> in_use(d))
  BY Zenon DEF Who, in_use, Free
<1>2. Described(d)' = Described(d)
  BY Zenon, <1>1 DEF Described, CapWord, Bit
<1>. QED  BY Zenon, <1>1, <1>2

LEMMA ChannelsStep ==
  ASSUME ChannelsInv, SeenInv, Next
  PROVE  ChannelsInv'
<1>1. ASSUME NEW task \in Callers, NEW dom \in Domains, NEW caps \in CapSets, NEW p \in Protocols,
             ipc_create_channel(task, dom, caps, p)
      PROVE  ChannelsInv'
  <2>1. PICK c \in Channels :
          /\ ~in_use(c) /\ in_use(c)' /\ Who(c)' = created + 1 /\ (channels[c] \in Opened)'
          /\ channels' = [d \in Channels |-> channels'[d]]
          /\ \A d \in Channels \ {c} : channels'[d] = channels[d]
    BY Zenon, <1>1, CreateIs
  <2>2. created' = created + 1 /\ created \in Nat
    BY Zenon, <1>1 DEF ipc_create_channel, ChannelsInv
  <2>3. \A d \in Channels \ {c} : Who(d)' = Who(d) /\ Who(d) \in 0 .. created /\ (in_use(d)' <=> in_use(d))
    BY Zenon, <2>1, ChannelIs DEF Who, in_use, Free
  <2>4. channels' \in [Channels -> {Free} \union Opened]
    <3>1. \A d \in Channels : channels'[d] \in {Free} \union Opened
      BY Zenon, <2>1 DEF ChannelsInv, Opened
    <3>. QED  BY Zenon, <2>1, <3>1
  <2>5. \A d \in Channels : Who(d)' <= created'
    BY <2>1, <2>2, <2>3
  <2>6. \A d, e \in Channels : in_use(d)' /\ Who(d)' = Who(e)' => d = e
    <3>. SUFFICES ASSUME NEW d \in Channels, NEW e \in Channels, in_use(d)', Who(d)' = Who(e)', d # e
                  PROVE  FALSE
      OBVIOUS
    <3>1. CASE d # c /\ e # c
      BY Zenon, <2>3, <3>1 DEF ChannelsInv
    <3>2. CASE d = c \/ e = c
      BY <2>1, <2>2, <2>3, <3>2
    <3>. QED  BY Zenon, <3>1, <3>2
  <2>. QED  BY <2>2, <2>4, <2>5, <2>6 DEF ChannelsInv, Opened, Free
<1>2. ASSUME NEW c \in Channels, ipc_close_channel(c)
      PROVE  ChannelsInv'
  <2>1. /\ channels'[c] = Free /\ Who(c)' = 0 /\ ~in_use(c)'
        /\ \A d \in Channels \ {c} : channels'[d] = channels[d]
    BY Zenon, <1>2, CloseIs
  <2>2. created' = created /\ channels' = [channels EXCEPT ![c] = Free] /\ created \in Nat
    BY Zenon, <1>2 DEF ipc_close_channel, ChannelsInv
  <2>3. channels' \in [Channels -> {Free} \union Opened]
    BY Zenon, <2>2 DEF ChannelsInv
  <2>4. \A d \in Channels \ {c} : Who(d)' = Who(d) /\ Who(d) \in 0 .. created
                                  /\ (in_use(d)' <=> in_use(d)) /\ (in_use(d) => Who(d) # 0)
    BY Zenon, <2>1, ChannelIs DEF Who, in_use, Free
  <2>5. \A d \in Channels : Who(d)' <= created'
    BY <2>1, <2>2, <2>4
  <2>6. \A d, e \in Channels : in_use(d)' /\ Who(d)' = Who(e)' => d = e
    BY Zenon, <2>1, <2>4 DEF ChannelsInv
  <2>. QED  BY Zenon, <2>2, <2>3, <2>5, <2>6 DEF ChannelsInv, Opened, Free
<1>3. ASSUME Quiet
      PROVE  ChannelsInv'
  BY Zenon, <1>3, QuietKeeps
<1>. QED  BY Zenon, <1>1, <1>2, <1>3, QuietSteps DEF Next

LEMMA SeenStep ==
  ASSUME ChannelsInv, SeenInv, Next
  PROVE  SeenInv'
<1>1. ASSUME NEW task \in Callers, NEW dom \in Domains, NEW caps \in CapSets, NEW p \in Protocols,
             ipc_create_channel(task, dom, caps, p)
      PROVE  SeenInv'
  <2>1. PICK c \in Channels :
          /\ (seen[c] = Described(c))' /\ DOMAIN seen' = Channels
          /\ \A d \in Channels \ {c} : channels'[d] = channels[d] /\ seen'[d] = seen[d]
    BY Zenon, <1>1, CreateIs
  <2>2. \A d \in Channels \ {c} : in_use(d)' => seen'[d] = Described(d)'
    BY Zenon, <2>1, SameChannel DEF SeenInv
  <2>. QED  BY Zenon, <2>1, <2>2 DEF SeenInv
<1>2. ASSUME NEW c \in Channels, ipc_close_channel(c)
      PROVE  SeenInv'
  <2>1. ~in_use(c)' /\ \A d \in Channels \ {c} : channels'[d] = channels[d]
    BY Zenon, <1>2, CloseIs
  <2>2. seen' = seen
    BY Zenon, <1>2 DEF ipc_close_channel, reader
  <2>. QED  BY Zenon, <2>1, <2>2, SameChannel DEF SeenInv
<1>3. ASSUME Quiet
      PROVE  SeenInv'
  BY Zenon, <1>3, QuietKeeps
<1>. QED  BY Zenon, <1>1, <1>2, <1>3, QuietSteps DEF Next

LEMMA LinksStep ==
  ASSUME ChannelsInv, SeenInv, LinksInv, Next
  PROVE  LinksInv'
<1>. DEFINE Same == UNCHANGED <<links, chan_edges, live_edges>>
<1>1. ASSUME NEW task \in Callers, NEW dom \in Domains, NEW caps \in CapSets, NEW p \in Protocols,
             ipc_create_channel(task, dom, caps, p)
      PROVE  LinksInv'
  <2>1. PICK c \in Channels :
          /\ ~in_use(c) /\ Who(c)' = created + 1
          /\ \A d \in Channels \ {c} : channels'[d] = channels[d]
          /\ live_edges' = {e \in live_edges : c \notin {e[1], e[2]}}
    BY Zenon, <1>1, CreateIs
  <2>2. /\ created' = created + 1 /\ created \in Nat /\ links' = links /\ chan_edges' = chan_edges
    BY Zenon, <1>1 DEF ipc_create_channel, ChannelsInv
  <2>3. /\ \A l \in links' : l[1] \in 1 .. created' /\ l[2] \in 1 .. created'
        /\ \A l \in links' : l[1] # created + 1 /\ l[2] # created + 1
    BY <2>2 DEF LinksInv
  <2>4. live_edges' \subseteq chan_edges'
    BY Zenon, <2>1, <2>2 DEF LinksInv
  <2>5. ASSUME NEW d \in Channels, NEW e \in Channels, in_use(d)', in_use(e)'
        PROVE  <<Who(d)', Who(e)'>> \in links' <=> <<d, e>> \in live_edges'
    <3>1. /\ <<Who(d)', Who(e)'>>[1] = Who(d)' /\ <<Who(d)', Who(e)'>>[2] = Who(e)'
          /\ <<d, e>>[1] = d /\ <<d, e>>[2] = e
      OBVIOUS
    <3>2. CASE d # c /\ e # c
      <4>1. in_use(d) /\ in_use(e) /\ Who(d)' = Who(d) /\ Who(e)' = Who(e)
        BY Zenon, <2>1, <2>5, <3>2, SameChannel
      <4>2. <<d, e>> \in live_edges' <=> <<d, e>> \in live_edges
        BY Zenon, <2>1, <3>1, <3>2
      <4>. QED  BY Zenon, <2>2, <4>1, <4>2 DEF LinksInv
    <3>3. CASE d = c \/ e = c
      <4>1. <<Who(d)', Who(e)'>> \notin links'
        BY Zenon, <2>1, <2>3, <3>1, <3>3
      <4>2. <<d, e>> \notin live_edges'
        BY Zenon, <2>1, <3>1, <3>3
      <4>. QED  BY Zenon, <4>1, <4>2
    <3>. QED  BY Zenon, <3>2, <3>3
  <2>. QED  BY Zenon, <2>3, <2>4, <2>5 DEF LinksInv, in_use, Who, Free
<1>2. ASSUME NEW c \in Channels, ipc_close_channel(c)
      PROVE  LinksInv'
  <2>1. in_use(c) /\ ~in_use(c)' /\ \A d \in Channels \ {c} : channels'[d] = channels[d]
    BY Zenon, <1>2, CloseIs
  <2>2. /\ created' = created /\ chan_edges' = chan_edges /\ live_edges' = live_edges
        /\ links' = {l \in links : Who(c) \notin {l[1], l[2]}}
    BY Zenon, <1>2 DEF ipc_close_channel, reader
  <2>3. ASSUME NEW d \in Channels, NEW e \in Channels, in_use(d)', in_use(e)'
        PROVE  <<Who(d)', Who(e)'>> \in links' <=> <<d, e>> \in live_edges'
    <3>1. /\ in_use(d) /\ in_use(e) /\ Who(d)' = Who(d) /\ Who(e)' = Who(e)
          /\ Who(d) # Who(c) /\ Who(e) # Who(c)
      BY Zenon, <2>1, <2>3, SameChannel DEF ChannelsInv
    <3>2. <<Who(d), Who(e)>>[1] = Who(d) /\ <<Who(d), Who(e)>>[2] = Who(e)
      OBVIOUS
    <3>3. <<Who(d), Who(e)>> \in links' <=> <<Who(d), Who(e)>> \in links
      BY Zenon, <2>2, <3>1, <3>2
    <3>. QED  BY Zenon, <2>2, <3>1, <3>3 DEF LinksInv
  <2>. QED  BY Zenon, <2>2, <2>3 DEF LinksInv, in_use, Who, Free
<1>3. ASSUME NEW c \in Channels, NEW d \in Channels, ipc_connect(c, d)
      PROVE  LinksInv'
  <2>1. /\ in_use(c) /\ in_use(d) /\ created' = created
        /\ links' = links \cup {<<Who(c), Who(d)>>}
        /\ chan_edges' = chan_edges \cup {<<c, d>>} /\ live_edges' = live_edges \cup {<<c, d>>}
    BY Zenon, <1>3, ConnectRead DEF ipc_connect
  <2>2. \A b : (in_use(b) <=> in_use(b)') /\ Who(b)' = Who(b)
    BY Zenon, <1>3, QuietSteps, QuietKeeps
  <2>3. Who(c) \in 1 .. created /\ Who(d) \in 1 .. created
    BY Zenon, <2>1, ChannelIs
  <2>4. <<Who(c), Who(d)>>[1] = Who(c) /\ <<Who(c), Who(d)>>[2] = Who(d)
    OBVIOUS
  <2>5. ASSUME NEW a \in Channels, NEW b \in Channels, in_use(a), in_use(b)
        PROVE  <<Who(a), Who(b)>> = <<Who(c), Who(d)>> <=> <<a, b>> = <<c, d>>
    <3>1. (Who(a) = Who(c) <=> a = c) /\ (Who(b) = Who(d) <=> b = d)
      BY Zenon, <2>5 DEF ChannelsInv
    <3>. QED  BY Zenon, <3>1
  <2>6. /\ \A l \in links' : l[1] \in 1 .. created /\ l[2] \in 1 .. created
        /\ live_edges' \subseteq chan_edges'
    BY Zenon, <2>1, <2>3, <2>4 DEF LinksInv
  <2>7. ASSUME NEW a \in Channels, NEW b \in Channels, in_use(a), in_use(b)
        PROVE  <<Who(a), Who(b)>> \in links' <=> <<a, b>> \in live_edges'
    <3>1. <<Who(a), Who(b)>> \in links <=> <<a, b>> \in live_edges
      BY Zenon, <2>7 DEF LinksInv
    <3>. QED  BY Zenon, <2>1, <2>5, <2>7, <3>1
  <2>. QED  BY Zenon, <2>1, <2>2, <2>6, <2>7 DEF LinksInv
<1>4. ASSUME Quiet, Same
      PROVE  LinksInv'
  <2>1. \A b : (in_use(b) <=> in_use(b)') /\ Who(b)' = Who(b)
    BY Zenon, <1>4, QuietKeeps
  <2>. QED  BY Zenon, <1>4, <2>1 DEF LinksInv, Quiet
<1>5. /\ \A a, b : domain_edge_set(a, b) => Same
      /\ domain_edges_seal => Same
      /\ \A c, op : ipc_send(c, op) \/ SYS_IPC_SEND(c, op) => Same
      /\ auditor_tick => Same
  BY Zenon DEF domain_edge_set, domain_edges_seal, ipc_send, SYS_IPC_SEND, auditor_tick, reader
<1>. HIDE DEF Same
<1>. QED  BY Zenon, <1>1, <1>2, <1>3, <1>4, <1>5, QuietSteps DEF Next

LEMMA MatrixStep ==
  ASSUME MatrixInv, Next
  PROVE  MatrixInv'
<1>1. ASSUME NEW a \in Matrix, NEW b \in Matrix, domain_edge_set(a, b)
      PROVE  MatrixInv'
  <2>1. domain_edges' = domain_edges \cup {<<a, b>>} /\ edges_seen' = edges_seen \cup {<<a, b>>}
    BY Zenon, <1>1, EdgeRead DEF domain_edge_set
  <2>. QED  BY Zenon, <2>1 DEF MatrixInv
<1>2. ASSUME UNCHANGED <<domain_edges, edges_seen>>
      PROVE  MatrixInv'
  BY Zenon, <1>2 DEF MatrixInv
<1>. QED  BY ZenonT(60), <1>1, <1>2 DEF Next, domain_edges_seal, ipc_create_channel, ipc_close_channel,
            ipc_connect, ipc_send, SYS_IPC_SEND, auditor_tick, reader, matrix

LEMMA StampNat ==
  \A c \in Channels, dom \in Domains, p \in Protocols : Stamp(c, dom, p) \in Nat
<1>. SUFFICES ASSUME NEW c \in Channels, NEW dom \in Domains, NEW p \in Protocols
              PROVE  Stamp(c, dom, p) \in Nat
  OBVIOUS
<1>. DEFINE x == Low(c)  y == Low(dom)  z == Low(p)
<1>1. c \in Int /\ dom \in Int /\ p \in Int
  BY AuditAssumption, Widths DEF Channels
<1>2. x \in 0 .. Byte - 1 /\ y \in 0 .. Byte - 1 /\ z \in 0 .. Byte - 1
  BY Zenon, <1>1, FitsByte
<1>3. Stamp(c, dom, p) = x + Byte * y + Byte * Byte * z
  BY Zenon DEF Stamp
<1>. HIDE DEF x, y, z
<1>4. x \in Nat /\ Byte * y \in Nat /\ Byte * Byte \in Nat
  BY <1>2, Widths
<1>5. Byte * Byte * z \in Nat
  BY <1>2, <1>4
<1>. QED  BY <1>3, <1>4, <1>5

(* A message that waits goes on doing so, whatever happens to channels.    *)
LEMMA StillWaiting ==
  ASSUME ChannelsInv, SeenInv, Next, NEW m, Waiting(m)
  PROVE  Waiting(m)'
<1>. USE DEF ChannelsInv
<1>1. PICK s \in Channels, dom \in Domains, p \in Protocols :
        /\ m.padding = Stamp(s, dom, p)
        /\ seen[s].is # Unseen
        /\ \/ SentBy(m, s) /\ channels[s].domain = dom
           \/ \A d \in Channels : Who(d) # m.who
  BY Zenon DEF Waiting
<1>2. m.who \in 1 .. created /\ m.operation \in {0, 1}
  BY Zenon DEF Waiting
<1>3. ASSUME m.who \in 1 .. created', seen'[s].is # Unseen,
             \/ SentBy(m, s)' /\ channels'[s].domain = dom
             \/ \A d \in Channels : Who(d)' # m.who
      PROVE  Waiting(m)'
  BY Zenon, <1>1, <1>2, <1>3 DEF Waiting, Unseen, Stamp
<1>4. ASSUME NEW task \in Callers, NEW to \in Domains, NEW caps \in CapSets, NEW q \in Protocols,
             ipc_create_channel(task, to, caps, q)
      PROVE  Waiting(m)'
  <2>1. PICK c \in Channels :
          /\ ~in_use(c) /\ Who(c)' = created + 1 /\ seen'[c].is # Unseen
          /\ \A d \in Channels \ {c} : channels'[d] = channels[d] /\ seen'[d] = seen[d]
    BY Zenon, <1>4, CreateIs
  <2>2. created' = created + 1 /\ created \in Nat
    BY Zenon, <1>4 DEF ipc_create_channel
  <2>3. m.who \in 1 .. created' /\ m.who # created + 1
    BY <1>2, <2>2
  <2>4. seen'[s].is # Unseen
    BY Zenon, <1>1, <2>1
  <2>5. ASSUME SentBy(m, s), channels[s].domain = dom
        PROVE  SentBy(m, s)' /\ channels'[s].domain = dom
    <3>1. channels'[s] = channels[s]
      BY Zenon, <2>1, <2>5 DEF SentBy
    <3>. QED  BY Zenon, <2>5, <3>1, SameChannel DEF SentBy, required_caps_for_op
  <2>6. ASSUME \A d \in Channels : Who(d) # m.who
        PROVE  \A d \in Channels : Who(d)' # m.who
    BY Zenon, <2>1, <2>3, <2>6, SameChannel
  <2>. QED  BY Zenon, <1>1, <1>3, <2>3, <2>4, <2>5, <2>6
<1>5. ASSUME NEW c \in Channels, ipc_close_channel(c)
      PROVE  Waiting(m)'
  <2>1. Who(c)' = 0 /\ \A d \in Channels \ {c} : channels'[d] = channels[d]
    BY Zenon, <1>5, CloseIs
  <2>2. created' = created /\ seen' = seen
    BY Zenon, <1>5 DEF ipc_close_channel, reader
  <2>3. m.who # 0
    BY <1>2
  <2>4. ASSUME \A d \in Channels \ {c} : Who(d) # m.who
        PROVE  \A d \in Channels : Who(d)' # m.who
    BY Zenon, <2>1, <2>3, <2>4, SameChannel
  <2>5. ASSUME SentBy(m, s), s = c
        PROVE  \A d \in Channels : Who(d)' # m.who
    BY Zenon, <2>4, <2>5 DEF SentBy
  <2>6. ASSUME SentBy(m, s), channels[s].domain = dom, s # c
        PROVE  SentBy(m, s)' /\ channels'[s].domain = dom
    <3>1. channels'[s] = channels[s]
      BY Zenon, <2>1, <2>6
    <3>. QED  BY Zenon, <2>6, <3>1, SameChannel DEF SentBy, required_caps_for_op
  <2>. QED  BY Zenon, <1>1, <1>2, <1>3, <2>2, <2>4, <2>5, <2>6
<1>6. ASSUME Quiet
      PROVE  Waiting(m)'
  BY Zenon, <1>6, QuietKeeps
<1>. QED  BY Zenon, <1>4, <1>5, <1>6, QuietSteps DEF Next

LEMMA PushedWaits ==
  ASSUME AuditInv, NEW c \in Channels, NEW op \in {0, 1}, MaySend(c, op)
  PROVE  /\ Pushed(c, op) \in Seq(Stamps)
         /\ \A i \in 1 .. Len(Pushed(c, op)) : Waiting(Pushed(c, op)[i])
<1>. DEFINE m == Stamped(c, op)
<1>1. /\ in_use(c) /\ required_caps_for_op(op) \subseteq channels[c].cap_mask
      /\ Who(c) \in 1 .. created
      /\ channels[c].domain \in Domains /\ channels[c].protocol \in Protocols
  BY Zenon, ChannelIs DEF AuditInv, MaySend
<1>2. /\ m.who = Who(c) /\ m.operation = op
      /\ m.padding = Stamp(c, channels[c].domain, channels[c].protocol)
  BY Zenon DEF Stamped
<1>3. m \in Stamps
  <2>1. Who(c) \in Nat /\ Stamp(c, channels[c].domain, channels[c].protocol) \in Nat
    BY <1>1, StampNat DEF AuditInv, ChannelsInv
  <2>. QED  BY Zenon, <2>1 DEF Stamped, Stamps
<1>4. Waiting(m)
  <2>1. seen[c].is # Unseen
    <3>1. seen[c] = Described(c) /\ Described(c).is.channel = c
      <4>1. Described(c).is.channel = c
        BY Zenon DEF Described
      <4>. QED  BY Zenon, <1>1, <4>1 DEF AuditInv, SeenInv
    <3>2. Unseen.channel = Byte - 1 /\ c # Byte - 1
      BY AuditAssumption, Widths DEF Unseen, Channels
    <3>. QED  BY Zenon, <3>1, <3>2
  <2>2. SentBy(m, c)
    BY Zenon, <1>1, <1>2 DEF SentBy
  <2>. HIDE DEF m
  <2>. QED  BY Zenon, <1>1, <1>2, <2>1, <2>2 DEF Waiting
<1>. HIDE DEF m
<1>5. ring \in Seq(Stamps) /\ \A i \in 1 .. Len(ring) : Waiting(ring[i])
  BY Zenon DEF AuditInv, RingInv
<1>6. /\ Append(ring, m) \in Seq(Stamps) /\ Len(Append(ring, m)) = Len(ring) + 1
      /\ \A i \in 1 .. Len(ring) : Append(ring, m)[i] = ring[i]
      /\ Append(ring, m)[Len(ring) + 1] = m
  BY <1>3, <1>5, AppendProperties
<1>7. \A i \in 1 .. Len(ring) + 1 : i \in 1 .. Len(ring) \/ i = Len(ring) + 1
  BY <1>5
<1>8. \A i \in 1 .. Len(Append(ring, m)) : Waiting(Append(ring, m)[i])
  BY Zenon, <1>4, <1>5, <1>6, <1>7
<1>. QED  BY Zenon, <1>5, <1>6, <1>8 DEF Pushed, m

LEMMA DrainedWaits ==
  ASSUME NEW q \in Seq(Stamps), \A i \in 1 .. Len(q) : Waiting(q[i])
  PROVE  /\ Drained(q) \in Seq(Stamps)
         /\ \A i \in 1 .. Len(Drained(q)) : Waiting(Drained(q)[i])
<1>. DEFINE a == DrainBatch + 1  n == Len(q)
<1>1. a \in Int /\ n \in Int /\ a >= 1 /\ n >= 0
  BY AuditAssumption
<1>2. \A i \in a .. n : q[i] \in Stamps /\ Waiting(q[i])
  BY <1>1
<1>3. Drained(q) = SubSeq(q, a, n)
  BY Zenon DEF Drained
<1>. HIDE DEF a, n
<1>4. /\ Drained(q) \in Seq(Stamps) /\ Len(Drained(q)) = IF a <= n THEN n - a + 1 ELSE 0
      /\ \A i \in 1 .. n - a + 1 : Drained(q)[i] = q[a + i - 1]
  BY <1>1, <1>2, <1>3, SubSeqProperties
<1>5. ASSUME NEW i \in 1 .. Len(Drained(q))
      PROVE  a + i - 1 \in a .. n /\ i \in 1 .. n - a + 1
  BY <1>1, <1>4
<1>. QED  BY Zenon, <1>2, <1>4, <1>5

LEMMA RingIs ==
  ASSUME NEW q, ring' = q, q \in Seq(Stamps), \A i \in 1 .. Len(q) : Waiting(q[i]),
         \A m : Waiting(m) => Waiting(m)'
  PROVE  RingInv'
<1>1. ASSUME NEW i \in 1 .. Len(q)
      PROVE  Waiting(q[i])'
  BY Zenon
<1>2. ASSUME NEW i \in 1 .. Len(q)
      PROVE  Waiting(ring[i])'
  BY ZenonT(60), <1>1 DEF Waiting, SentBy, required_caps_for_op, Stamp, Unseen
<1>3. (ring \in Seq(Stamps))'
  BY Zenon DEF Stamps
<1>. QED  BY Zenon, <1>2, <1>3 DEF RingInv

LEMMA RingStep ==
  ASSUME AuditInv, Next
  PROVE  RingInv'
<1>1. ASSUME NEW q, ring' = q, q \in Seq(Stamps), \A i \in 1 .. Len(q) : Waiting(q[i])
      PROVE  RingInv'
  <2>1. \A m : Waiting(m) => Waiting(m)'
    BY Zenon, StillWaiting DEF AuditInv
  <2>. QED  BY Zenon, <1>1, <2>1, RingIs
<1>2. ring \in Seq(Stamps) /\ \A i \in 1 .. Len(ring) : Waiting(ring[i])
  BY Zenon DEF AuditInv, RingInv
<1>3. ASSUME NEW c \in Channels, NEW op \in {0, 1}, ipc_send(c, op) \/ SYS_IPC_SEND(c, op)
      PROVE  RingInv'
  BY Zenon, <1>1, <1>3, PushedWaits, DrainedWaits DEF ipc_send, SYS_IPC_SEND
<1>4. ASSUME auditor_tick
      PROVE  RingInv'
  BY Zenon, <1>1, <1>2, <1>4, DrainedWaits DEF auditor_tick
<1>5. ASSUME ring' = ring
      PROVE  RingInv'
  BY Zenon, <1>1, <1>2, <1>5
<1>6. /\ \A a, b : domain_edge_set(a, b) => ring' = ring
      /\ domain_edges_seal => ring' = ring
      /\ \A task, dom, caps, p : ipc_create_channel(task, dom, caps, p) => ring' = ring
      /\ \A c : ipc_close_channel(c) => ring' = ring
      /\ \A c, d : ipc_connect(c, d) => ring' = ring
  BY ZenonT(60) DEF domain_edge_set, domain_edges_seal, ipc_create_channel, ipc_close_channel, ipc_connect
<1>. QED  BY Zenon, <1>3, <1>4, <1>5, <1>6 DEF Next

LEMMA InitAudit == Init => AuditInv
<1>. SUFFICES ASSUME Init PROVE AuditInv
  OBVIOUS
<1>1. \A c \in Channels : ~in_use(c) /\ Who(c) = 0
  BY Zenon DEF Init, in_use, Who, Free, Nobody
<1>2. ChannelsInv
  <2>1. created = 0 /\ channels \in [Channels -> {Free} \union Opened]
    BY Zenon DEF Init
  <2>2. 0 \in Nat /\ 0 <= 0
    OBVIOUS
  <2>. QED  BY Zenon, <1>1, <2>1, <2>2 DEF ChannelsInv
<1>3. SeenInv /\ LinksInv /\ MatrixInv
  BY Zenon, <1>1 DEF Init, SeenInv, LinksInv, MatrixInv
<1>4. RingInv
  <2>1. ring \in Seq(Stamps) /\ Len(ring) = 0
    BY DEF Init
  <2>. QED  BY <2>1 DEF RingInv
<1>. QED  BY Zenon, <1>2, <1>3, <1>4 DEF AuditInv

LEMMA AuditStep == AuditInv /\ [Next]_vars => AuditInv'
<1>. SUFFICES ASSUME AuditInv, [Next]_vars PROVE AuditInv'
  OBVIOUS
<1>1. CASE Next
  BY Zenon, <1>1, ChannelsStep, SeenStep, LinksStep, MatrixStep, RingStep DEF AuditInv
<1>2. CASE UNCHANGED vars
  <2>1. /\ Quiet /\ ring' = ring /\ links' = links /\ chan_edges' = chan_edges
        /\ live_edges' = live_edges
        /\ domain_edges' = domain_edges /\ edges_seen' = edges_seen
    BY Zenon, <1>2 DEF vars, matrix, reader, Quiet
  <2>2. ChannelsInv' /\ SeenInv'
    BY Zenon, <2>1, QuietKeeps DEF AuditInv
  <2>3. LinksInv' /\ MatrixInv'
    BY Zenon, <2>1 DEF AuditInv, LinksInv, MatrixInv, Quiet, in_use, Who, Free
  <2>4. RingInv'
    BY Zenon, <2>1, QuietKeeps, RingIs DEF AuditInv, RingInv
  <2>. QED  BY Zenon, <2>2, <2>3, <2>4 DEF AuditInv
<1>. QED  BY Zenon, <1>1, <1>2 DEF vars

LEMMA AuditInvHolds == Spec => []AuditInv
BY InitAudit, AuditStep, PTL DEF Spec

-----------------------------------------------------------------------------

(* The records of ipc_create_channel, ipc_connect and domain_edge_set say  *)
(* what the kernel's graph is, for channel tables of any size below a byte *)
(* and for any number of channels made and closed: a reader that drops an  *)
(* id's links at its next CHAN_CREATE has exactly the links there are, and *)
(* scripts/reconstruct_graph.py, which keeps them, has these among others. *)
THEOREM GraphStaysCurrent == Spec => []GraphIsCurrent
<1>1. AuditInv => GraphIsCurrent
  BY Zenon DEF AuditInv, SeenInv, Described, LinksInv, MatrixInv, GraphIsCurrent
<1>. QED  BY <1>1, AuditInvHolds, PTL

(* A message that ipc_send put into ipc_ring is reported under a channel   *)
(* the reader knows, which is its sender unless that was closed, however   *)
(* many ticks it takes auditor_tick to come to it.                         *)
THEOREM MsgsNameSenders == Spec => []MsgNamesSender
<1>1. ASSUME AuditInv
      PROVE  MsgNamesSender
  <2>. SUFFICES ASSUME NEW i \in DOMAIN ring
                PROVE  LET r == MsgRecord(ring[i])
                           known == seen[r.channel_id]
                       IN  /\ known.is # Unseen
                           /\ \/ /\ known.who = ring[i].who
                                 /\ r.src_domain = Low(known.is.domain)
                                 /\ required_caps_for_op(r.operation) \subseteq CapsIn(known.is.cap_mask)
                              \/ \A c \in Channels : Who(c) # ring[i].who
    BY Zenon DEF MsgNamesSender, MsgRecord
  <2>. DEFINE m == ring[i]  r == MsgRecord(m)
  <2>1. DOMAIN ring = 1 .. Len(ring)
    BY <1>1 DEF AuditInv, RingInv
  <2>2. Waiting(m)
    BY Zenon, <1>1, <2>1 DEF AuditInv, RingInv
  <2>. HIDE DEF m
  <2>3. PICK c \in Channels, dom \in Domains, p \in Protocols :
          /\ m.padding = Stamp(c, dom, p) /\ seen[c].is # Unseen
          /\ \/ SentBy(m, c) /\ channels[c].domain = dom
             \/ \A d \in Channels : Who(d) # m.who
    BY Zenon, <2>2 DEF Waiting
  <2>4. m.operation \in {0, 1}
    BY Zenon, <2>2 DEF Waiting
  <2>5. r.channel_id = c /\ r.src_domain = Low(dom) /\ r.operation = m.operation
    BY ZenonT(60), <2>3, <2>4, MsgRead
  <2>. HIDE DEF r
  <2>6. ASSUME SentBy(m, c), channels[c].domain = dom
        PROVE  /\ seen[c].who = m.who /\ r.src_domain = Low(seen[c].is.domain)
               /\ required_caps_for_op(m.operation) \subseteq CapsIn(seen[c].is.cap_mask)
    <3>1. /\ Described(c).who = Who(c) /\ Described(c).is.domain = channels[c].domain
          /\ Described(c).is.cap_mask = CapWord(channels[c].cap_mask)
      BY Zenon DEF Described
    <3>2. seen[c] = Described(c) /\ channels[c].cap_mask \in Masks
      BY Zenon, <1>1, <2>6, ChannelIs DEF AuditInv, SeenInv, SentBy
    <3>. QED  BY Zenon, <2>5, <2>6, <3>1, <3>2, MaskRead DEF SentBy
  <2>. QED  BY Zenon, <2>3, <2>5, <2>6 DEF m, r
<1>. QED  BY <1>1, AuditInvHolds, PTL

(* What is missing is the least that makes a mask cover what is wanted, or *)
(* have one capability.                                                    *)
Completes(missing, mask, wanted) ==
  /\ wanted \subseteq mask \cup missing
  /\ \A fewer \in (SUBSET missing) \ {missing} : ~(wanted \subseteq mask \cup fewer)

Supplies(missing, mask, cap) ==
  /\ cap \in mask \cup missing
  /\ \A fewer \in (SUBSET missing) \ {missing} : cap \notin mask \cup fewer

LEMMA FewestCaps ==
  ASSUME NEW wanted, NEW mask, NEW missing, missing = wanted \ mask
  PROVE  Completes(missing, mask, wanted)
<1>1. ASSUME NEW fewer \in SUBSET missing, wanted \subseteq mask \cup fewer
      PROVE  fewer = missing
  BY Zenon, <1>1
<1>. QED  BY Zenon, <1>1 DEF Completes

LEMMA OneCap ==
  ASSUME NEW cap, NEW mask, cap \notin mask, NEW missing, missing = {cap} \ mask
  PROVE  Supplies(missing, mask, cap)
<1>1. missing = {cap}
  BY Zenon
<1>2. ASSUME NEW fewer \in SUBSET {cap}, cap \in fewer
      PROVE  fewer = {cap}
  BY Zenon, <1>2
<1>. QED  BY Zenon, <1>1, <1>2 DEF Supplies

(* The reason tells what to look for in a record.                          *)
LEMMA MissingIs ==
  ASSUME NEW d
  PROVE  /\ d.reason = 2 => Missing(d) = {"RECV"} \ CapsIn(d.granted)
         /\ d.reason \in {4, 6} => Missing(d) = {"CROSS"} \ CapsIn(d.granted)
         /\ d.reason \in {1, 3, 5} => Missing(d) = CapsIn(d.required) \ CapsIn(d.granted)
BY DEF Missing

(* A DENY record tells which check refused a call, and what would have     *)
(* passed it, in every state and for every caller whose lineage fits:      *)
(* emit_deny and emit_create_deny lose nothing of it in the packing.       *)
THEOREM DenialsExplain == Spec => [](RefusalsExplained /\ DenyExplains)
<1>1. ASSUME AuditInv
      PROVE  RefusalsExplained /\ DenyExplains
  <2>1. channels \in [Channels -> {Free} \union Opened]
    BY Zenon, <1>1 DEF AuditInv, ChannelsInv
  <2>2. /\ 5 \in {5, 6} /\ 6 \in {5, 6} /\ 5 # 6 /\ 4 \in 1 .. 4 /\ 3 \in 1 .. 4 /\ 2 \in 1 .. 4
        /\ 1 \in 1 .. 4 /\ 1 # 3 /\ NoChannel \notin Channels
        /\ 0 \in {0, 1} /\ required_caps_for_op(0) = {"SEND"} /\ NoChannel \in Channels \union {NoChannel}
    BY AuditAssumption DEF NoChannel, Channels, required_caps_for_op
  <2>3. ASSUME NEW task \in Callers, NEW dom \in Domains, NEW caps \in CapSets, NEW p \in Protocols
        PROVE  CreateExplained(task, dom, caps, p)
    <3>. SUFFICES ASSUME NEW r \in CreateDenials(task, dom, caps, p)
                  PROVE  LET d == ReadDeny(r) IN
                         /\ d.reason \in {5, 6} /\ d.dst_ch32 = Word - 1
                         /\ d.reason = 5 => Explains(r, task, task.cap_mask, caps, LAMBDA mask : caps \subseteq mask)
                         /\ d.reason = 6 => /\ caps \subseteq task.cap_mask
                                            /\ Explains(r, task, task.cap_mask, caps,
                                                 LAMBDA mask : MayReach(mask, task.domain, dom))
      BY Zenon DEF CreateExplained
    <3>. DEFINE d == ReadDeny(r)  mask == task.cap_mask
    <3>1. CASE r = emit_create_deny(task, caps, dom, 5, p) /\ ~(caps \subseteq task.cap_mask)
      <4>1. /\ Lineage(task) = [parent |-> d.parent, depth |-> d.depth, sibs |-> d.sibs]
            /\ CapsIn(d.granted) = mask /\ CapsIn(d.required) = caps
            /\ d.reason = 5 /\ d.dst_ch32 = Word - 1
        BY <2>2, <3>1, CreateDenyRead
      <4>. HIDE DEF d
      <4>2. Missing(d) = caps \ mask
        BY Zenon, <4>1, MissingIs
      <4>3. Completes(Missing(d), task.cap_mask, caps)
        BY Zenon, <4>2, FewestCaps
      <4>4. Explains(r, task, task.cap_mask, caps, LAMBDA m : caps \subseteq m)
        BY Zenon, <4>1, <4>3 DEF Explains, Completes, d
      <4>. QED  BY Zenon, <2>2, <4>1, <4>4 DEF d
    <3>2. CASE /\ r = emit_create_deny(task, caps, dom, 6, p) /\ caps \subseteq task.cap_mask
               /\ ~MayReach(task.cap_mask, task.domain, dom)
      <4>1. /\ Lineage(task) = [parent |-> d.parent, depth |-> d.depth, sibs |-> d.sibs]
            /\ CapsIn(d.granted) = mask /\ CapsIn(d.required) = caps
            /\ d.reason = 6 /\ d.dst_ch32 = Word - 1
        BY <2>2, <3>2, CreateDenyRead
      <4>. HIDE DEF d
      <4>2. Missing(d) = {"CROSS"} \ mask
        BY Zenon, <4>1, MissingIs
      <4>3. "CROSS" \notin mask /\ task.domain # dom /\ ~domain_edge_allowed(task.domain, dom)
        BY Zenon, <3>2 DEF MayReach
      <4>4. Supplies(Missing(d), task.cap_mask, "CROSS")
        BY Zenon, <4>2, <4>3, OneCap
      <4>5. Explains(r, task, task.cap_mask, caps, LAMBDA m : MayReach(m, task.domain, dom))
        BY Zenon, <4>1, <4>3, <4>4 DEF Explains, Supplies, MayReach, d
      <4>. QED  BY Zenon, <2>2, <3>2, <4>1, <4>5 DEF d
    <3>. QED  BY Zenon, <3>1, <3>2 DEF CreateDenials
  <2>4. ASSUME NEW task \in Callers, NEW c \in Channels, NEW e \in Channels, in_use(c), in_use(e)
        PROVE  ConnectExplained(task, c, e)
    <3>. DEFINE mask == channels[c].cap_mask  a == channels[c].domain  b == channels[e].domain
    <3>. SUFFICES ASSUME NEW r \in ConnectDenials(task, c, e)
                  PROVE  LET d == ReadDeny(r) IN
                         /\ d.reason = 4 /\ r.channel_id = c /\ d.dst_channel = e /\ d.dst_ch32 = e
                         /\ Explains(r, task, mask, {"SEND"}, LAMBDA m : MayReach(m, a, b))
      BY Zenon DEF ConnectExplained
    <3>1. r = emit_deny(task, c, e, 0, 4) /\ ~MayReach(mask, a, b)
      BY Zenon DEF ConnectDenials, MayConnect
    <3>. DEFINE d == ReadDeny(r)
    <3>2. /\ d.reason = 4 /\ r.channel_id = c /\ d.dst_channel = e /\ d.dst_ch32 = e
          /\ Lineage(task) = [parent |-> d.parent, depth |-> d.depth, sibs |-> d.sibs]
          /\ CapsIn(d.granted) = mask /\ CapsIn(d.required) = {"SEND"}
      <4>1. DenyTells(task, c, e, 0, 4)
        BY Zenon, <2>1, <2>2, <2>4, ChannelDenyRead
      <4>. QED  BY Zenon, <2>2, <2>4, <3>1, <4>1 DEF DenyTells
    <3>. HIDE DEF d, mask, a, b
    <3>3. Missing(d) = {"CROSS"} \ mask
      BY Zenon, <3>2, MissingIs
    <3>4. "CROSS" \notin mask /\ a # b /\ ~domain_edge_allowed(a, b)
      BY Zenon, <3>1 DEF MayReach
    <3>5. Supplies(Missing(d), mask, "CROSS")
      BY Zenon, <3>3, <3>4, OneCap
    <3>6. Explains(r, task, mask, {"SEND"}, LAMBDA m : MayReach(m, a, b))
      BY Zenon, <3>2, <3>4, <3>5 DEF Explains, Supplies, MayReach, d
    <3>. QED  BY Zenon, <3>2, <3>6 DEF d
  <2>5. ASSUME NEW task \in Callers, NEW c \in Channels, in_use(c), NEW op \in {0, 1}
        PROVE  SendExplained(task, c, op)
    <3>. DEFINE mask == channels[c].cap_mask  req == required_caps_for_op(op)
    <3>. SUFFICES ASSUME NEW r \in SendDenials(task, c, op)
                  PROVE  LET d == ReadDeny(r) IN
                         /\ d.reason \in {1, 3} /\ r.channel_id = c /\ d.dst_ch32 = Word - 1
                         /\ d.reason = 1 => Missing(d) = {"SEND"}
                         /\ Explains(r, task, mask, req, LAMBDA m : req \subseteq m)
      BY Zenon DEF SendExplained
    <3>. DEFINE d == ReadDeny(r)  reason == IF op = 1 THEN 3 ELSE 1
    <3>1. r = emit_deny(task, c, NoChannel, op, reason) /\ ~(req \subseteq mask)
      BY Zenon DEF SendDenials
    <3>2. reason \in 1 .. 4 /\ reason \in {1, 3} /\ (reason = 1 => req = {"SEND"})
      BY Zenon, <2>2 DEF required_caps_for_op
    <3>. HIDE DEF reason
    <3>3. /\ d.reason = reason /\ r.channel_id = c /\ d.dst_ch32 = Word - 1
          /\ Lineage(task) = [parent |-> d.parent, depth |-> d.depth, sibs |-> d.sibs]
          /\ CapsIn(d.granted) = mask /\ CapsIn(d.required) = req
      <4>0. reason \in 1 .. 4
        BY Zenon, <3>2
      <4>1. DenyTells(task, c, NoChannel, op, reason)
        <5>1. NoChannel \in Channels \union {NoChannel} /\ NoChannel \notin Channels
          BY Zenon, <2>2
        <5>. QED  BY Zenon, <2>1, <2>5, <4>0, <5>1, ChannelDenyRead
      <4>. QED  BY Zenon, <2>2, <3>1, <4>1 DEF DenyTells
    <3>. HIDE DEF d, mask, req
    <3>4. Missing(d) = req \ mask
      BY Zenon, <3>2, <3>3, MissingIs
    <3>5. reason = 1 => req \ mask = {"SEND"}
      BY Zenon, <3>1, <3>2
    <3>6. Completes(Missing(d), mask, req)
      BY Zenon, <3>4, FewestCaps
    <3>7. Explains(r, task, mask, req, LAMBDA m : req \subseteq m)
      BY Zenon, <3>3, <3>6 DEF Explains, Completes, d
    <3>. QED  BY Zenon, <3>2, <3>3, <3>4, <3>5, <3>7 DEF d
  <2>6. ASSUME NEW task \in Callers, NEW c \in Channels, in_use(c)
        PROVE  RecvExplained(task, c)
    <3>. DEFINE mask == channels[c].cap_mask
    <3>. SUFFICES ASSUME NEW r \in RecvDenials(task, c)
                  PROVE  LET d == ReadDeny(r) IN
                         /\ d.reason = 2 /\ r.channel_id = c /\ d.dst_ch32 = Word - 1
                         /\ Explains(r, task, mask, {"SEND"}, LAMBDA m : "RECV" \in m)
      BY Zenon DEF RecvExplained
    <3>1. r = emit_deny(task, c, NoChannel, 0, 2) /\ "RECV" \notin mask
      BY Zenon DEF RecvDenials
    <3>. DEFINE d == ReadDeny(r)
    <3>2. /\ d.reason = 2 /\ r.channel_id = c /\ d.dst_ch32 = Word - 1
          /\ Lineage(task) = [parent |-> d.parent, depth |-> d.depth, sibs |-> d.sibs]
          /\ CapsIn(d.granted) = mask /\ CapsIn(d.required) = {"SEND"}
      <4>1. DenyTells(task, c, NoChannel, 0, 2)
        BY Zenon, <2>1, <2>2, <2>6, ChannelDenyRead
      <4>. QED  BY Zenon, <2>2, <3>1, <4>1 DEF DenyTells
    <3>. HIDE DEF d, mask
    <3>3. Missing(d) = {"RECV"} \ mask
      BY Zenon, <3>2, MissingIs
    <3>4. Supplies(Missing(d), mask, "RECV")
      BY Zenon, <3>1, <3>3, OneCap
    <3>5. Explains(r, task, mask, {"SEND"}, LAMBDA m : "RECV" \in m)
      BY Zenon, <3>2, <3>4 DEF Explains, Supplies, d
    <3>. QED  BY Zenon, <3>2, <3>5 DEF d
  <2>. QED  BY Zenon, <2>3, <2>4, <2>5, <2>6 DEF RefusalsExplained, DenyExplains
<1>. QED  BY <1>1, AuditInvHolds, PTL
=============================================================================

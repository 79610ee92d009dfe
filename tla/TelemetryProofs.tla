-------------------------- MODULE TelemetryProofs ---------------------------
(***************************************************************************)
(* Proofs that the ring, the log and the auditor of module Telemetry lose  *)
(* nothing silently and reorder nothing, for every capacity, batch size    *)
(* and counter width.                                                      *)
(***************************************************************************)
EXTENDS Telemetry, Integers, TLAPS

-----------------------------------------------------------------------------
(* Arithmetic modulo n.                                                    *)

(* A remainder is determined by any quotient.                              *)
LEMMA ModUnique ==
  ASSUME NEW n \in Nat \ {0}, NEW q \in Int, NEW r \in 0 .. n - 1
  PROVE  (q * n + r) % n = r
  OBVIOUS

(* Quotient and remainder.                                                 *)
LEMMA ModSplit ==
  ASSUME NEW n \in Nat \ {0}, NEW x \in Int
  PROVE  /\ x % n \in 0 .. n - 1
         /\ x \div n \in Int
         /\ x = (x \div n) * n + (x % n)
  OBVIOUS

(* What & (size - 1) does to an index that has moved past the end once.    *)
LEMMA ModLow ==
  ASSUME NEW n \in Nat \ {0}, NEW x \in 0 .. n - 1
  PROVE  x % n = x
  OBVIOUS

LEMMA ModHigh ==
  ASSUME NEW n \in Nat \ {0}, NEW x \in n .. 2 * n - 1
  PROVE  x % n = x - n
  OBVIOUS

(* The distance from a tail t to a head h in a ring of n places.           *)
LEMMA DistanceIs ==
  ASSUME NEW n \in Nat \ {0, 1}, NEW h \in 0 .. n - 1, NEW t \in 0 .. n - 1
  PROVE  /\ (h + n - t) % n = IF h >= t THEN h - t ELSE h + n - t
         /\ (h + 1) % n = IF h + 1 = n THEN 0 ELSE h + 1
<1>1. CASE h >= t  BY <1>1, ModHigh, h + n - t \in n .. 2 * n - 1
<1>2. CASE h < t   BY <1>2, ModLow, h + n - t \in 0 .. n - 1
<1>3. CASE h + 1 = n  BY <1>3, ModHigh, h + 1 \in n .. 2 * n - 1
<1>4. CASE h + 1 # n  BY <1>4, ModLow, h + 1 \in 0 .. n - 1
<1> QED BY <1>1, <1>2, <1>3, <1>4

(* The head is that far from the tail.                                     *)
LEMMA HeadIs ==
  ASSUME NEW n \in Nat \ {0, 1}, NEW h \in 0 .. n - 1, NEW t \in 0 .. n - 1
  PROVE  (t + ((h + n - t) % n)) % n = h
<1> DEFINE d == (h + n - t) % n
<1>1. d = IF h >= t THEN h - t ELSE h + n - t
  BY DistanceIs
<1> HIDE DEF d
<1>2. CASE h >= t  BY <1>1, <1>2, ModLow DEF d
<1>3. CASE h < t   BY <1>1, <1>3, ModHigh DEF d
<1> QED BY <1>2, <1>3

(* Places less than n apart are different places.                          *)
LEMMA ModApart ==
  ASSUME NEW n \in Nat \ {0}, NEW x \in Int, NEW y \in Int, x < y, y - x < n
  PROVE  x % n # y % n
  <1> DEFINE a == x \div n  b == y \div n  r == x % n
  <1>1. SUFFICES ASSUME x % n = y % n PROVE FALSE
    OBVIOUS
  <1>2. a \in Int /\ b \in Int /\ r \in Int /\ x = a * n + r /\ y = b * n + r
    BY <1>1, ModSplit
  <1> HIDE DEF a, b, r
  <1>3. CASE a >= b  BY <1>2, <1>3
  <1>4. CASE b >= a + 1
    <2>1. b * n >= (a + 1) * n  BY <1>2, <1>4
    <2>2. (a + 1) * n = a * n + n  BY <1>2
    <2>3. a * n \in Int /\ b * n \in Int /\ (a + 1) * n \in Int  BY <1>2
    <2> QED BY <1>2, <2>1, <2>2, <2>3
  <1> QED BY <1>2, <1>3, <1>4

(* Taking a remainder by a multiple of n first changes nothing: an index   *)
(* survives the wrap of its counter.                                       *)
LEMMA ModMod ==
  ASSUME NEW n \in Nat \ {0}, NEW m \in Nat \ {0}, m % n = 0, NEW x \in Int,
         NEW k \in Int
  PROVE  ((x % m) + k) % n = (x + k) % n
  <1> DEFINE p == m \div n  q == x \div m  y == x % m  z == (x + k) \div n
             r == (x + k) % n
  <1>1. p \in Int /\ m = p * n  BY ModSplit
  <1>2. q \in Int /\ y \in Int /\ x = q * m + y  BY ModSplit
  <1>3. z \in Int /\ r \in 0 .. n - 1 /\ x + k = z * n + r  BY ModSplit
  <1> DEFINE c == q * p  u == z * n  v == c * n
  <1> HIDE DEF p, q, y, z, r
  <1>4. c \in Int /\ q * m = v  BY <1>1, <1>2
  <1>5. z - c \in Int /\ (z - c) * n = u - v  BY <1>3, <1>4
  <1>6. u \in Int /\ v \in Int  BY <1>3, <1>4
  <1> HIDE DEF c, u, v
  <1>7. y + k = (z - c) * n + r
    <2>1. x = v + y /\ x + k = u + r  BY <1>2, <1>3, <1>4 DEF u
    <2>2. y + k = (u - v) + r  BY <2>1, <1>2, <1>3, <1>6
    <2> QED BY <2>2, <1>5
  <1>8. (y + k) % n = r  BY <1>3, <1>5, <1>7, ModUnique
  <1> QED BY <1>8 DEF y, r

-----------------------------------------------------------------------------
(* The invariant.                                                          *)

LEMMA InitIInv == Init => IInv
<1> SUFFICES ASSUME Init PROVE IInv
  OBVIOUS
<1> USE TelemetryAssumption
<1>1. ring_len = 0 /\ depth = 0
  <2>1. (0 + Capacity - 0) % Capacity = 0  BY DistanceIs
  <2>2. (0 + CounterRange - 0) % CounterRange = 0  BY DistanceIs
  <2> QED BY <2>1, <2>2 DEF Init, ring_len, depth
<1>2. TypeOK  BY DEF Init, TypeOK, NotTicking
<1> QED BY <1>1, <1>2 DEF Init, IInv, RingHolds, Accounted, LogKeepsNewest

(* How the number of messages in the ring answers to a push and a pop.     *)
LEMMA RingLength ==
  ASSUME TypeOK
  PROVE  /\ ring_len \in 0 .. Capacity - 1
         /\ (tail + ring_len) % Capacity = head
         /\ Full <=> ring_len = Capacity - 1
         /\ Pending <=> ring_len # 0
         /\ (head + 1) % Capacity \in 0 .. Capacity - 1
         /\ (tail + 1) % Capacity \in 0 .. Capacity - 1
         /\ ~Full => (((head + 1) % Capacity) + Capacity - tail) % Capacity
                       = ring_len + 1
         /\ Pending => (head + Capacity - ((tail + 1) % Capacity)) % Capacity
                         = ring_len - 1
<1>1. /\ Capacity \in Nat \ {0, 1} /\ head \in 0 .. Capacity - 1
      /\ tail \in 0 .. Capacity - 1
  BY TelemetryAssumption DEF TypeOK
<1> DEFINE d == (head + Capacity - tail) % Capacity
           h1 == (head + 1) % Capacity  t1 == (tail + 1) % Capacity
<1>2. d = IF head >= tail THEN head - tail ELSE head + Capacity - tail
  BY <1>1, DistanceIs
<1>3. h1 = IF head + 1 = Capacity THEN 0 ELSE head + 1
  BY <1>1, DistanceIs
<1>4. t1 = IF tail + 1 = Capacity THEN 0 ELSE tail + 1
  BY <1>1, DistanceIs
<1>5. (tail + d) % Capacity = head
  BY <1>1, HeadIs
<1> HIDE DEF d, h1, t1
<1>6. /\ d \in 0 .. Capacity - 1 /\ h1 \in 0 .. Capacity - 1
      /\ t1 \in 0 .. Capacity - 1
  BY <1>1, <1>2, <1>3, <1>4
<1>7. (h1 + Capacity - tail) % Capacity
        = IF h1 >= tail THEN h1 - tail ELSE h1 + Capacity - tail
  BY <1>1, <1>6, DistanceIs
<1>8. (head + Capacity - t1) % Capacity
        = IF head >= t1 THEN head - t1 ELSE head + Capacity - t1
  BY <1>1, <1>6, DistanceIs
<1>9. /\ (h1 = tail) <=> (d = Capacity - 1)
      /\ (head # tail) <=> (d # 0)
      /\ (h1 # tail) => ((h1 + Capacity - tail) % Capacity = d + 1)
      /\ (head # tail) => ((head + Capacity - t1) % Capacity = d - 1)
  BY <1>1, <1>2, <1>3, <1>4, <1>6, <1>7, <1>8
<1> QED BY <1>5, <1>6, <1>9 DEF ring_len, Full, Pending, d, h1, t1

(* The ring's part of the invariant, when a message is accepted.           *)
LEMMA AcceptKeepsRing ==
  ASSUME TypeOK, RingHolds, ~Full,
         accepted' = accepted + 1,
         buf' = [buf EXCEPT ![head] = accepted + 1],
         head' = (head + 1) % Capacity,
         tail' = tail, sent' = sent
  PROVE  /\ RingHolds' /\ ring_len' = ring_len + 1 /\ head' \in 0 .. Capacity - 1
<1> DEFINE L == ring_len
<1>0. /\ Capacity \in Nat \ {0, 1} /\ head \in 0 .. Capacity - 1
      /\ tail \in 0 .. Capacity - 1 /\ sent \in Nat /\ accepted \in Nat
      /\ DOMAIN buf = 0 .. Capacity - 1
  BY TelemetryAssumption DEF TypeOK
<1>1. /\ L \in 0 .. Capacity - 2 /\ (tail + L) % Capacity = head
      /\ head' \in 0 .. Capacity - 1
      /\ (head' + Capacity - tail) % Capacity = L + 1
  <2>1. L \in 0 .. Capacity - 2
    <3>1. L \in 0 .. Capacity - 1 /\ L # Capacity - 1  BY RingLength
    <3> QED BY <1>0, <3>1
  <2>2. (tail + L) % Capacity = head  BY RingLength
  <2>3. head' \in 0 .. Capacity - 1  BY RingLength
  <2>4. (head' + Capacity - tail) % Capacity = L + 1  BY RingLength
  <2> QED BY <2>1, <2>2, <2>3, <2>4
<1>b. ring_len' = L + 1
  BY <1>1 DEF ring_len
<1> HIDE DEF L
<1>2. ASSUME NEW i \in 0 .. L
      PROVE  buf'[(tail + i) % Capacity] = sent + i + 1
  <2>1. CASE i = L
    BY <1>0, <1>1, <2>1 DEF RingHolds, L
  <2>2. CASE i < L
    <3> DEFINE x == tail + i  y == tail + L
    <3>1. x \in Int /\ y \in Int /\ x < y /\ y - x < Capacity
      BY <1>0, <1>1, <2>2
    <3>2. x % Capacity # y % Capacity
      BY Zenon, <1>0, <3>1, ModApart
    <3>3. x % Capacity \in 0 .. Capacity - 1
      BY <1>0, <3>1, ModSplit
    <3>4. buf[x % Capacity] = sent + i + 1
      BY <1>1, <2>2 DEF RingHolds, L
    <3> QED BY Zenon, <1>0, <1>1, <3>2, <3>3, <3>4
  <2> QED BY <1>1, <2>1, <2>2
<1> QED BY <1>0, <1>1, <1>b, <1>2 DEF RingHolds, L

(* The ring's part of the invariant, when a message is taken out.          *)
LEMMA PopKeepsRing ==
  ASSUME TypeOK, RingHolds, Pending,
         tail' = (tail + 1) % Capacity, sent' = Popped,
         head' = head, buf' = buf, accepted' = accepted
  PROVE  /\ RingHolds' /\ ring_len' = ring_len - 1 /\ sent' = sent + 1
         /\ ring_len > 0 /\ tail' \in 0 .. Capacity - 1
<1> DEFINE L == ring_len
<1>0. /\ Capacity \in Nat \ {0, 1} /\ head \in 0 .. Capacity - 1
      /\ tail \in 0 .. Capacity - 1 /\ sent \in Nat /\ accepted \in Nat
  BY TelemetryAssumption DEF TypeOK
<1>1. /\ L \in 1 .. Capacity - 1 /\ tail' \in 0 .. Capacity - 1
      /\ (head + Capacity - tail') % Capacity = L - 1
  BY <1>0, RingLength
<1>b. ring_len' = L - 1
  BY <1>1 DEF ring_len
<1> HIDE DEF L
<1>2. sent' = sent + 1
  <2>1. tail + 0 = tail /\ tail % Capacity = tail  BY <1>0, ModLow
  <2>2. buf[(tail + 0) % Capacity] = sent + 0 + 1  BY <1>1 DEF RingHolds, L
  <2> QED BY <1>0, <2>1, <2>2 DEF Popped
<1>3. ASSUME NEW i \in 0 .. L - 2
      PROVE  buf'[(tail' + i) % Capacity] = sent' + i + 1
  <2>1. (((tail + 1) % Capacity) + i) % Capacity = ((tail + 1) + i) % Capacity
    <3>1. Capacity % Capacity = 0
      BY <1>0, ModHigh, Capacity \in Capacity .. 2 * Capacity - 1
    <3>2. tail + 1 \in Int /\ i \in Int /\ Capacity \in Nat \ {0}
      BY <1>0, <1>1
    <3> QED BY <3>1, <3>2, ModMod, ZenonT(60)
  <2>2. i + 1 \in 0 .. L - 1 /\ (tail + 1) + i = tail + (i + 1)
    BY <1>0, <1>1
  <2>3. buf[(tail + (i + 1)) % Capacity] = sent + (i + 1) + 1
    BY <2>2 DEF RingHolds, L
  <2> QED BY <1>0, <1>1, <1>2, <2>1, <2>2, <2>3
<1>4. accepted' = sent' + ring_len'
  BY <1>0, <1>1, <1>b, <1>2 DEF RingHolds, L
<1> QED BY <1>0, <1>1, <1>b, <1>2, <1>3, <1>4 DEF RingHolds, L

(* How the depth of the log answers to a write and a drop.                 *)
LEMMA LogDepth ==
  ASSUME TypeOK
  PROVE  LET h1 == (txn_log_head + 1) % CounterRange
             t1 == (txn_log_tail + 1) % CounterRange
         IN  /\ depth \in 0 .. CounterRange - 1
             /\ (txn_log_tail + depth) % CounterRange = txn_log_head
             /\ h1 \in 0 .. CounterRange - 1 /\ t1 \in 0 .. CounterRange - 1
             /\ (depth < CounterRange - 1)
                  => ((h1 + CounterRange - txn_log_tail) % CounterRange = depth + 1)
             /\ (depth > 0)
                  => ((h1 + CounterRange - t1) % CounterRange = depth)
<1> DEFINE h == txn_log_head  t == txn_log_tail
           d == (h + CounterRange - t) % CounterRange
           h1 == (h + 1) % CounterRange  t1 == (t + 1) % CounterRange
<1>1. /\ CounterRange \in Nat \ {0, 1} /\ h \in 0 .. CounterRange - 1
      /\ t \in 0 .. CounterRange - 1
  BY TelemetryAssumption DEF TypeOK
<1>2. d = IF h >= t THEN h - t ELSE h + CounterRange - t
  BY <1>1, DistanceIs
<1>3. h1 = IF h + 1 = CounterRange THEN 0 ELSE h + 1
  BY <1>1, DistanceIs
<1>4. t1 = IF t + 1 = CounterRange THEN 0 ELSE t + 1
  BY <1>1, DistanceIs
<1>5. (t + d) % CounterRange = h
  BY <1>1, HeadIs
<1> HIDE DEF h, t, d, h1, t1
<1>6. /\ d \in 0 .. CounterRange - 1 /\ h1 \in 0 .. CounterRange - 1
      /\ t1 \in 0 .. CounterRange - 1
  BY <1>1, <1>2, <1>3, <1>4
<1>7. (h1 + CounterRange - t) % CounterRange
        = IF h1 >= t THEN h1 - t ELSE h1 + CounterRange - t
  BY <1>1, <1>6, DistanceIs
<1>8. (h1 + CounterRange - t1) % CounterRange
        = IF h1 >= t1 THEN h1 - t1 ELSE h1 + CounterRange - t1
  BY <1>1, <1>6, DistanceIs
<1>9. /\ (d < CounterRange - 1) => ((h1 + CounterRange - t) % CounterRange = d + 1)
      /\ (d > 0) => ((h1 + CounterRange - t1) % CounterRange = d)
  BY <1>1, <1>2, <1>3, <1>4, <1>6, <1>7, <1>8
<1> QED BY <1>5, <1>6, <1>9 DEF depth, h, t, d, h1, t1

(* An index into the log survives the wrap of its counter.                 *)
LEMMA LogIndex ==
  ASSUME NEW x \in Int, NEW i \in Int
  PROVE  ((x % CounterRange) + i) % LogEntries = (x + i) % LogEntries
<1>1. /\ LogEntries \in Nat \ {0} /\ CounterRange \in Nat \ {0}
      /\ CounterRange % LogEntries = 0
  BY TelemetryAssumption
<1> QED BY <1>1, ModMod, ZenonT(60)

(* The log's part, for an entry written with or without a drop; k is the   *)
(* number of entries dropped.                                              *)
LEMMA LogKeeps ==
  ASSUME TypeOK, LogKeepsNewest, log_transaction
  PROVE  /\ LogKeepsNewest' /\ depth' \in Nat
         /\ txn_log_head' \in 0 .. CounterRange - 1
         /\ txn_log_tail' \in 0 .. CounterRange - 1
         /\ txn_log' \in [0 .. LogEntries - 1 -> 0 .. MaxLogged]
<1> DEFINE D == depth  k == txn_log_overflow' - txn_log_overflow  E == depth'
           w == txn_log_head % LogEntries  t == txn_log_tail
<1>0. /\ LogEntries \in Nat \ {0} /\ CounterRange \in Nat \ {0}
      /\ CounterRange > LogEntries /\ MaxLogged \in Nat
      /\ txn_log_head \in 0 .. CounterRange - 1 /\ t \in 0 .. CounterRange - 1
      /\ txn_log_overflow \in Nat /\ logged \in Nat
      /\ txn_log \in [0 .. LogEntries - 1 -> 0 .. MaxLogged]
  BY TelemetryAssumption DEF TypeOK
<1>1. D \in 0 .. LogEntries /\ (t + D) % CounterRange = txn_log_head
  <2>1. D \in 0 .. CounterRange - 1 /\ (t + D) % CounterRange = txn_log_head
    BY LogDepth
  <2> QED BY <1>0, <2>1 DEF LogKeepsNewest
<1>2. /\ txn_log_head' \in 0 .. CounterRange - 1
      /\ txn_log_tail' \in 0 .. CounterRange - 1
      /\ k \in {0, 1} /\ txn_log_overflow' = txn_log_overflow + k
      /\ E = D + 1 - k /\ E \in 1 .. LogEntries
      /\ (k = 0) => (txn_log_tail' = t)
      /\ (k = 1) => (txn_log_tail' = (t + 1) % CounterRange)
  <2>0. txn_log_head' = (txn_log_head + 1) % CounterRange
    BY DEF log_transaction
  <2>1. CASE LogFull
    <3>1. D = LogEntries  BY <1>0, <1>1, <2>1 DEF LogFull
    <3>2. /\ txn_log_tail' = (t + 1) % CounterRange
          /\ txn_log_overflow' = txn_log_overflow + 1
      BY <2>1 DEF log_transaction
    <3>3. E = D  BY <1>0, <2>0, <3>1, <3>2, LogDepth DEF depth
    <3>4. /\ txn_log_head' \in 0 .. CounterRange - 1
          /\ txn_log_tail' \in 0 .. CounterRange - 1
      BY <2>0, <3>2, LogDepth
    <3> HIDE DEF D, E
    <3> QED BY <1>0, <3>1, <3>2, <3>3, <3>4
  <2>2. CASE ~LogFull
    <3>1. D < LogEntries  BY <1>0, <1>1, <2>2 DEF LogFull
    <3>2. txn_log_tail' = t /\ txn_log_overflow' = txn_log_overflow
      BY <2>2 DEF log_transaction
    <3>3. D < CounterRange - 1  BY <1>0, <1>1, <3>1
    <3>4. E = D + 1  BY <2>0, <3>2, <3>3, LogDepth DEF depth
    <3>5. txn_log_head' \in 0 .. CounterRange - 1
      BY <2>0, LogDepth
    <3> HIDE DEF D, E
    <3> QED BY <1>0, <1>1, <3>1, <3>2, <3>4, <3>5
  <2> QED BY <2>1, <2>2
<1> HIDE DEF k
<1>3. w \in 0 .. LogEntries - 1 /\ w = (t + D) % LogEntries
  <2>1. w \in 0 .. LogEntries - 1  BY <1>0, ModSplit
  <2> DEFINE x == t + D
  <2>2. x \in Int  BY <1>0, <1>1
  <2> HIDE DEF x
  <2>3. ((x % CounterRange) + 0) % LogEntries = (x + 0) % LogEntries
    BY <2>2, LogIndex
  <2>4. x + 0 = x /\ txn_log_head + 0 = txn_log_head  BY <1>0, <2>2
  <2> QED BY <1>1, <2>1, <2>3, <2>4 DEF x
<1>4. txn_log' = [txn_log EXCEPT ![w] = logged + 1] /\ logged' = logged + 1
      /\ logged + 1 \in 0 .. MaxLogged
  BY <1>0 DEF log_transaction
<1>5. txn_log' \in [0 .. LogEntries - 1 -> 0 .. MaxLogged]
  BY <1>0, <1>3, <1>4
<1>6. logged = txn_log_overflow + D
  BY DEF LogKeepsNewest
<1> HIDE DEF D, E, w
<1>7. ASSUME NEW i \in 0 .. E - 1
      PROVE  txn_log'[(txn_log_tail' + i) % LogEntries] = txn_log_overflow' + i + 1
  <2> DEFINE j == i + k
  <2>1. j \in 0 .. D /\ txn_log_overflow' + i + 1 = txn_log_overflow + j + 1
    BY <1>0, <1>1, <1>2
  <2>2. (txn_log_tail' + i) % LogEntries = (t + j) % LogEntries
    <3>1. CASE k = 0
      BY <1>0, <1>2, <3>1
    <3>2. CASE k = 1
      <4>1. t + 1 \in Int /\ i \in Int /\ (t + 1) + i = t + j
        BY <1>0, <1>2, <3>2
      <4> DEFINE x == t + 1
      <4> HIDE DEF x
      <4>2. ((x % CounterRange) + i) % LogEntries = (x + i) % LogEntries
        BY <4>1, LogIndex DEF x
      <4> QED BY <1>2, <3>2, <4>1, <4>2 DEF x
    <3> QED BY <1>2, <3>1, <3>2
  <2>3. CASE j = D
    BY <1>0, <1>3, <1>4, <1>6, <2>1, <2>2, <2>3
  <2>4. CASE j < D
    <3> DEFINE x == t + j  y == t + D
    <3>1. x \in Int /\ y \in Int /\ x < y /\ y - x < LogEntries
      <4>1. j \in Int /\ D \in Int /\ D - j < LogEntries
        BY <1>0, <1>1, <1>2, <2>1, <2>4
      <4> HIDE DEF j
      <4> QED BY <1>0, <2>4, <4>1
    <3>2. x % LogEntries # w
      BY Zenon, <1>0, <1>3, <3>1, ModApart
    <3>3. x % LogEntries \in 0 .. LogEntries - 1
      BY Zenon, <1>0, <3>1, ModSplit
    <3>4. txn_log[x % LogEntries] = txn_log_overflow + j + 1
      <4>1. j \in 0 .. D - 1  BY <1>1, <2>1, <2>4
      <4> QED BY <4>1 DEF LogKeepsNewest, D
    <3> QED BY <1>0, <1>4, <2>1, <2>2, <3>2, <3>3, <3>4
  <2> QED BY <1>1, <2>1, <2>3, <2>4
<1>8. logged' = txn_log_overflow' + depth'
  BY <1>0, <1>1, <1>2, <1>4, <1>6 DEF E
<1>9. depth' \in Nat /\ depth' <= LogEntries
  BY <1>0, <1>2 DEF E
<1> QED BY <1>2, <1>5, <1>7, <1>8, <1>9 DEF LogKeepsNewest, E

(* What a step does not touch keeps its part of the invariant.             *)
LEMMA RingSame ==
  ASSUME RingHolds, UNCHANGED <<head, tail, buf, accepted, sent>>
  PROVE  RingHolds' /\ ring_len' = ring_len
  BY DEF RingHolds, ring_len

LEMMA LogSame ==
  ASSUME LogKeepsNewest, UNCHANGED <<log, logged>>
  PROVE  LogKeepsNewest'
  BY DEF LogKeepsNewest, depth, log

(* The counters of the ring and the log are bounded by the calls made.     *)
LEMMA Bounds ==
  ASSUME TypeOK, RingHolds, Accounted, LogKeepsNewest
  PROVE  /\ ring_len \in 0 .. Capacity - 1 /\ depth \in Nat
         /\ overflow \in Nat /\ reported \in Nat /\ sent \in Nat
         /\ pushes \in 0 .. MaxPushes /\ logged \in 0 .. MaxLogged
         /\ txn_log_overflow \in Nat /\ accepted \in 0 .. pushes
         /\ MaxPushes \in Nat /\ MaxLogged \in Nat
         /\ logged = txn_log_overflow + depth
         /\ accepted = sent + ring_len
         /\ pushes + txn_log_overflow = sent + ring_len + reported + overflow
<1>1. ring_len \in 0 .. Capacity - 1  BY RingLength
<1>2. depth \in 0 .. CounterRange - 1  BY LogDepth
<1> QED BY <1>1, <1>2, TelemetryAssumption
        DEF TypeOK, RingHolds, Accounted, LogKeepsNewest

LEMMA StepIInv == IInv /\ [Next]_vars => IInv'
<1> SUFFICES ASSUME IInv, [Next]_vars PROVE IInv'
  OBVIOUS
<1>0. TypeOK /\ RingHolds /\ Accounted /\ LogKeepsNewest
  BY DEF IInv
<1>b. /\ ring_len \in 0 .. Capacity - 1 /\ depth \in Nat
      /\ overflow \in Nat /\ reported \in Nat /\ sent \in Nat
      /\ pushes \in 0 .. MaxPushes /\ logged \in 0 .. MaxLogged
      /\ txn_log_overflow \in Nat /\ accepted \in 0 .. pushes
      /\ MaxPushes \in Nat /\ MaxLogged \in Nat
      /\ logged = txn_log_overflow + depth
      /\ accepted = sent + ring_len
      /\ pushes + txn_log_overflow = sent + ring_len + reported + overflow
  BY <1>0, Bounds
<1>1. CASE ring_push
  <2>1. CASE Full /\ Drop
    <3>1. RingHolds' /\ ring_len' = ring_len /\ LogKeepsNewest'
      BY <1>0, <1>1, <2>1, RingSame, LogSame DEF ring_push, Drop
    <3>2. Accounted' /\ overflow' \in 0 .. MaxPushes + MaxLogged
      BY <1>0, <1>1, <2>1, <3>1, Bounds DEF ring_push, Drop, Accounted, log
    <3>3. pushes' \in 0 .. MaxPushes /\ accepted' \in 0 .. pushes'
      BY <1>b, <1>1, <2>1 DEF ring_push, Drop
    <3>4. TypeOK'
      BY Zenon, <1>0, <1>1, <2>1, <3>2, <3>3 DEF ring_push, Drop, TypeOK, log
    <3> QED BY <3>1, <3>2, <3>4 DEF IInv
  <2>2. CASE ~Full
    <3>1. RingHolds' /\ ring_len' = ring_len + 1 /\ head' \in 0 .. Capacity - 1
      BY <1>0, <1>1, <2>2, AcceptKeepsRing DEF ring_push
    <3>2. LogKeepsNewest'
      BY <1>0, <1>1, LogSame DEF ring_push
    <3>3. Accounted'
      BY <1>0, <1>1, <2>2, <3>1, Bounds, SMTT(40) DEF ring_push, Accounted, log
    <3>4. /\ accepted' = accepted + 1 /\ pushes' = pushes + 1 /\ pushes < MaxPushes
          /\ sent' = sent /\ buf' = [buf EXCEPT ![head] = accepted + 1]
      BY <1>1, <2>2 DEF ring_push
    <3>5. /\ accepted' \in 0 .. pushes' /\ pushes' \in 0 .. MaxPushes
          /\ sent' \in 0 .. accepted' /\ accepted + 1 \in 0 .. MaxPushes
      BY <1>b, <3>4, TelemetryAssumption
    <3>6. buf' \in [0 .. Capacity - 1 -> 0 .. MaxPushes]
      BY <1>0, <3>4, <3>5 DEF TypeOK
    <3>7. TypeOK'
      BY Zenon, <1>0, <1>1, <2>2, <3>1, <3>5, <3>6 DEF ring_push, TypeOK, log
    <3> QED BY <3>1, <3>2, <3>3, <3>7 DEF IInv
  <2> QED BY <1>1, <2>1, <2>2 DEF ring_push
<1>2. CASE log_transaction
  <2>1. /\ LogKeepsNewest' /\ depth' \in Nat /\ txn_log_head' \in 0 .. CounterRange - 1
        /\ txn_log_tail' \in 0 .. CounterRange - 1
        /\ txn_log' \in [0 .. LogEntries - 1 -> 0 .. MaxLogged]
    BY <1>0, <1>2, LogKeeps
  <2>2. RingHolds' /\ ring_len' = ring_len
    BY <1>0, <1>2, RingSame DEF log_transaction
  <2>3. Accounted'
    BY <1>0, <1>2, <2>2, Bounds DEF log_transaction, Accounted
  <2>4. /\ txn_log_overflow' \in 0 .. MaxLogged /\ logged' \in 0 .. MaxLogged
        /\ overflow' \in 0 .. MaxPushes + MaxLogged
    <3>1. logged' = txn_log_overflow' + depth'  BY <2>1 DEF LogKeepsNewest
    <3>2. /\ logged' \in 0 .. MaxLogged /\ overflow' \in Nat
          /\ txn_log_overflow' \in Nat
      BY <1>2, <1>b DEF log_transaction
    <3>3. pushes + txn_log_overflow' = sent + ring_len + reported + overflow'
      BY <1>2, <2>2, <2>3 DEF log_transaction, Accounted
    <3>4. txn_log_overflow' <= MaxLogged
      <4> DEFINE e == depth'  o == txn_log_overflow'  n == logged'
      <4>1. /\ e \in Nat /\ MaxLogged \in Nat /\ o \in Nat
            /\ n = o + e /\ n \in 0 .. MaxLogged
        BY Zenon, <1>b, <2>1, <3>1, <3>2
      <4> HIDE DEF e, o, n
      <4>2. o <= MaxLogged  BY <4>1
      <4> QED BY <4>2 DEF o
    <3> QED BY <1>b, <3>2, <3>3, <3>4
  <2>5. TypeOK'
    BY Zenon, <1>0, <1>2, <2>1, <2>4 DEF log_transaction, TypeOK
  <2> QED BY <2>1, <2>2, <2>3, <2>5 DEF IInv
<1>3. CASE TickBegin
  <2>1. RingHolds' /\ ring_len' = ring_len /\ LogKeepsNewest'
    BY <1>0, <1>3, RingSame, LogSame DEF TickBegin
  <2>2. Accounted'
    BY <1>0, <1>3, <2>1, Bounds DEF TickBegin, Accounted, log
  <2>3. reported' \in 0 .. MaxPushes + MaxLogged /\ overflow' \in 0 .. MaxPushes + MaxLogged
    BY <1>0, <1>3, Bounds DEF TickBegin
  <2>4. TypeOK'
    BY <1>0, <1>3, <2>3, TelemetryAssumption DEF TickBegin, TypeOK, log, NotTicking
  <2> QED BY <2>1, <2>2, <2>4 DEF IInv
<1>4. CASE TickDrain
  <2>1. /\ RingHolds' /\ ring_len' = ring_len - 1 /\ sent' = sent + 1
        /\ ring_len > 0 /\ tail' \in 0 .. Capacity - 1
    BY <1>0, <1>4, PopKeepsRing DEF TickDrain
  <2>2. LogKeepsNewest'
    BY <1>0, <1>4, LogSame DEF TickDrain
  <2>3. Accounted'
    BY <1>0, <1>4, <2>1, Bounds DEF TickDrain, Accounted, log
  <2>4. sent' \in 0 .. accepted'
    BY <1>0, <1>4, <2>1, Bounds, TelemetryAssumption DEF TickDrain
  <2>5. drained' \in 0 .. NotTicking
    BY <1>0, <1>4, TelemetryAssumption DEF TickDrain, TypeOK, NotTicking
  <2>6. TypeOK'
    BY Zenon, <1>0, <1>4, <2>1, <2>4, <2>5 DEF TickDrain, TypeOK, log
  <2> QED BY <2>1, <2>2, <2>3, <2>6 DEF IInv
<1>5. CASE TickEnd
  <2>1. RingHolds' /\ ring_len' = ring_len /\ LogKeepsNewest'
    BY <1>0, <1>5, RingSame, LogSame DEF TickEnd, ring
  <2>2. Accounted'
    BY <1>0, <1>5, <2>1 DEF TickEnd, Accounted, log, ring
  <2>3. heartbeat_counter' \in 0 .. HeartbeatEvery - 1
    BY SMTT(40), <1>0, <1>5, TelemetryAssumption, ModSplit DEF TickEnd, TypeOK
  <2>4. TypeOK'
    BY SMTT(40), <1>0, <1>5, <2>3, TelemetryAssumption DEF TickEnd, TypeOK, log, ring, NotTicking
  <2> QED BY <2>1, <2>2, <2>4 DEF IInv
<1>6. CASE UNCHANGED vars
  BY Zenon, <1>0, <1>6
     DEF vars, IInv, TypeOK, RingHolds, Accounted, LogKeepsNewest, ring_len, depth
<1> QED BY <1>1, <1>2, <1>3, <1>4, <1>5, <1>6 DEF Next, auditor_tick

-----------------------------------------------------------------------------
(* Theorems.                                                               *)

(* The invariant holds throughout.                                         *)
THEOREM Invariance == Spec => []IInv
<1> QED BY InitIInv, StepIInv, PTL DEF Spec

(* The ring always holds the accepted, unsent messages in order, however   *)
(* often its indices have wrapped.                                         *)
THEOREM RingIsAQueue == Spec => []RingHolds
<1>1. IInv => RingHolds  BY DEF IInv
<1> QED BY <1>1, Invariance, PTL

(* No message and no log entry is lost without being counted: it is sent,  *)
(* queued, reported, or about to be reported by auditor_tick.              *)
THEOREM NothingLostSilently == Spec => []Accounted
<1>1. IInv => Accounted  BY DEF IInv
<1> QED BY <1>1, Invariance, PTL

(* The log holds the newest entries, also past the wrap of its counters.   *)
THEOREM LogIsNewest == Spec => []LogKeepsNewest
<1>1. IInv => LogKeepsNewest  BY DEF IInv
<1> QED BY <1>1, Invariance, PTL

(* auditor_tick sends the accepted messages one by one, in order.          *)
THEOREM StreamInOrder == Spec => SentInOrder
<1>1. IInv /\ [Next]_vars => [TickDrain => sent' = sent + 1]_vars
  BY PopKeepsRing DEF IInv, TickDrain
<1> QED BY <1>1, Invariance, PTL DEF Spec, SentInOrder
=============================================================================

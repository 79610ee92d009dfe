----------------------------- MODULE IpcProofs ------------------------------
(***************************************************************************)
(* Proofs about the message layer (kernel/nngcompat.c) and the channels    *)
(* over it (kernel/ipc/ipc.c), for every size of their tables, queues and  *)
(* pools and every set of domains and capabilities.                        *)
(***************************************************************************)
EXTENDS Ipc, Integers, WellFoundedInduction, TLAPS, FiniteSetTheorems, SequenceTheorems

-----------------------------------------------------------------------------
(* Loops.  One that carries a value from round to round is a function on   *)
(* 0 .. n; induction is the least counterexample.                          *)

(* A set of naturals that is not empty has a least element.                *)
LEMMA LeastNat ==
  ASSUME NEW T, T \subseteq Nat, T # {}
  PROVE  \E n \in T : \A m \in T : n <= m
<1>1. PICK n \in T : \A m \in T : ~(<<m, n>> \in OpToRel(<, Nat))
  BY Zenon, WFMin, NatLessThanWellFounded
<1>2. \A m \in T : ~(m < n)
  BY Zenon, <1>1 DEF OpToRel
<1>. QED  BY <1>2

(* A set of naturals with 0 that is closed under +1 up to n holds 0 .. n.  *)
LEMMA UpTo ==
  ASSUME NEW n \in Nat, NEW T, 0 \in T, \A k \in 0 .. n - 1 : k \in T => k + 1 \in T
  PROVE  \A k \in 0 .. n : k \in T
<1>. DEFINE Bad == {k \in 0 .. n : k \notin T}
<1>1. SUFFICES ASSUME Bad # {}  PROVE FALSE
  OBVIOUS
<1>2. Bad \subseteq Nat
  OBVIOUS
<1>3. PICK k \in Bad : \A m \in Bad : k <= m
  <2>. HIDE DEF Bad
  <2>. QED  BY Zenon, <1>1, <1>2, LeastNat
<1>4. k # 0 /\ k - 1 \in 0 .. n - 1
  OBVIOUS
<1>5. k - 1 \in T
  BY <1>3, <1>4
<1>. QED  BY <1>4, <1>5

(* The values a loop goes through: step[i] is what round i does.           *)
Iterates(F, a, step, n) == F[0] = a /\ \A i \in 1 .. n : F[i] = step[i][F[i - 1]]

(* A loop of total rounds has such values.                                 *)
LEMMA IterExists ==
  ASSUME NEW S, NEW a \in S, NEW n \in Nat, NEW step \in [1 .. n -> [S -> S]]
  PROVE  \E F \in [0 .. n -> S] : Iterates(F, a, step, n)
<1>. DEFINE Good == {k \in Nat : \E F \in [0 .. k -> S] : Iterates(F, a, step, k)}
<1>1. 0 \in Good
  <2>. DEFINE F == [i \in 0 .. 0 |-> a]
  <2>1. F \in [0 .. 0 -> S] /\ Iterates(F, a, step, 0)
    BY DEF Iterates
  <2>. QED  BY <2>1
<1>2. ASSUME NEW k \in 0 .. n - 1, k \in Good  PROVE k + 1 \in Good
  <2>1. k \in Nat /\ k + 1 \in Nat /\ k + 1 \in 1 .. n
    OBVIOUS
  <2>2. PICK F \in [0 .. k -> S] : Iterates(F, a, step, k)
    BY <1>2
  <2>. DEFINE G == [i \in 0 .. k + 1 |-> IF i = k + 1 THEN step[k + 1][F[k]] ELSE F[i]]
  <2>3. step[k + 1][F[k]] \in S
    BY <2>1, <2>2
  <2>4. G \in [0 .. k + 1 -> S]
    BY <2>1, <2>3
  <2>5. G[0] = a
    BY <2>1, <2>2 DEF Iterates
  <2>6. \A i \in 1 .. k + 1 : G[i] = step[i][G[i - 1]]
    BY <2>1, <2>2 DEF Iterates
  <2>. HIDE DEF G
  <2>7. Iterates(G, a, step, k + 1)
    BY <2>5, <2>6 DEF Iterates
  <2>. QED  BY <2>1, <2>4, <2>7
<1>. HIDE DEF Good
<1>3. \A k \in 0 .. n : k \in Good
  BY Zenon, <1>1, <1>2, UpTo
<1>4. n \in 0 .. n
  OBVIOUS
<1>. QED  BY <1>3, <1>4 DEF Good

-----------------------------------------------------------------------------
(* Sequences and cursors.                                                  *)

(* The places of a sequence.                                               *)
LEMMA SeqFacts ==
  ASSUME NEW S, NEW e \in Seq(S)
  PROVE  /\ Len(e) \in Nat /\ DOMAIN e = 1 .. Len(e)
         /\ e # <<>> => Len(e) \in Nat \ {0}
         /\ Range(e) = {e[j] : j \in 1 .. Len(e)}
BY DEF Range

(* An empty queue fits and has no entry.                                   *)
LEMMA EmptyQueue == Len(<<>>) <= MaxQueued /\ \A i \in DOMAIN <<>> : FALSE
BY NngAssumption

(* Everybody one place further behind.                                     *)
LEMMA PlaceBehind ==
  \A n \in Nat \ {0} : \A m \in 0 .. n - 1, b \in 1 .. n :
    1 <= m + 1 /\ (b <= m <=> b + 1 <= m + 1)
OBVIOUS

-----------------------------------------------------------------------------
(* collect_peers.                                                          *)

(* A list of pipes of wanted, in table order.                              *)
Ordered(ends, wanted) ==
  /\ ends \in Seq(Pipes)
  /\ \A j \in 1 .. Len(ends) : ends[j] \in wanted
  /\ \A j, k \in 1 .. Len(ends) : j < k => ends[j] < ends[k]

(* The loop, round by round.                                               *)
FoundAt(f, wanted) ==
  /\ f[0] = <<>>
  /\ \A i \in 1 .. MaxPipes : f[i] = IF i \in wanted /\ Len(f[i - 1]) < MaxSockets
                                       THEN Append(f[i - 1], i) ELSE f[i - 1]

LEMMA FoundOrdered ==
  ASSUME NEW wanted \in SUBSET Pipes, NEW f, FoundAt(f, wanted)
  PROVE  Ordered(f[MaxPipes], wanted)
<1>. DEFINE T == {k \in 0 .. MaxPipes :
                    /\ Ordered(f[k], wanted)
                    /\ \A j \in 1 .. Len(f[k]) : f[k][j] <= k}
<1>1. MaxPipes \in Nat /\ MaxSockets \in Nat
  BY NngAssumption
<1>2. 0 \in T
  <2>1. f[0] = <<>> /\ 0 \in 0 .. MaxPipes
    BY <1>1 DEF FoundAt
  <2>2. <<>> \in Seq(Pipes) /\ \A j \in 1 .. Len(<<>>) : FALSE
    OBVIOUS
  <2>3. Ordered(<<>>, wanted)
    BY <2>2, Zenon DEF Ordered
  <2>. QED  BY <2>1, <2>2, <2>3, Zenon
<1>3. ASSUME NEW k \in 0 .. MaxPipes - 1, k \in T  PROVE k + 1 \in T
  <2>1. k + 1 \in 1 .. MaxPipes /\ k + 1 - 1 = k /\ k \in 0 .. MaxPipes
        /\ k + 1 \in 0 .. MaxPipes /\ k + 1 \in Pipes
    BY <1>1 DEF Pipes
  <2>. DEFINE e == f[k]  n == Len(e)  g == Append(e, k + 1)
  <2>2. /\ e \in Seq(Pipes)
        /\ \A j \in 1 .. n : e[j] \in wanted /\ e[j] <= k
        /\ \A j, l \in 1 .. n : j < l => e[j] < e[l]
    BY SMTT(60), <1>3 DEF Ordered
  <2>3. f[k + 1] = e \/ (k + 1 \in wanted /\ f[k + 1] = g)
    <3>1. \A i \in 1 .. MaxPipes : \A j : i - 1 = j =>
            f[i] = f[j] \/ (i \in wanted /\ f[i] = Append(f[j], i))
      BY Zenon DEF FoundAt
    <3>2. k + 1 \in 1 .. MaxPipes /\ k + 1 - 1 = k
      BY <2>1
    <3>. QED  BY <3>1, <3>2
  <2>. HIDE DEF e
  <2>4. CASE f[k + 1] = e
    <3>1. \A j \in 1 .. n : e[j] <= k + 1
      <4>1. \A j \in 1 .. n : e[j] \in Nat
        BY SMTT(60), <1>1, <2>2 DEF Pipes
      <4>. QED  BY <2>1, <2>2, <4>1
    <3>2. Ordered(e, wanted)
      BY <2>2 DEF Ordered
    <3>. QED  BY <2>1, <2>4, <3>1, <3>2
  <2>5. CASE k + 1 \in wanted /\ f[k + 1] = g
    <3>1. /\ g \in Seq(Pipes) /\ n \in Nat /\ Len(g) = n + 1 /\ g[n + 1] = k + 1
          /\ \A j \in 1 .. n : g[j] = e[j]
      BY <2>1, <2>2
    <3>2. \A j \in 1 .. n + 1 : j \in 1 .. n \/ j = n + 1
      BY <3>1
    <3>3. \A j \in 1 .. n : e[j] \in Nat
      BY <1>1, <2>2 DEF Pipes
    <3>. HIDE DEF g, n
    <3>4. \A j \in 1 .. n + 1 : g[j] \in wanted /\ g[j] <= k + 1
      <4>1. \A j \in 1 .. n : g[j] \in wanted
        BY Zenon, <2>2, <3>1 DEF n
      <4>2. \A j \in 1 .. n : g[j] <= k + 1
        BY <2>1, <2>2, <3>1, <3>3 DEF n
      <4>3. k + 1 <= k + 1
        BY <2>1
      <4>. QED  BY Zenon, <2>5, <3>1, <3>2, <4>1, <4>2, <4>3
    <3>5. \A j, l \in 1 .. n + 1 : j < l => g[j] < g[l]
      <4>1. SUFFICES ASSUME NEW j \in 1 .. n + 1, NEW l \in 1 .. n + 1, j < l
                     PROVE  g[j] < g[l]
        OBVIOUS
      <4>2. j \in 1 .. n
        BY <3>1, <4>1
      <4>3. CASE l \in 1 .. n
        BY <2>2, <3>1, <4>1, <4>2, <4>3 DEF n
      <4>4. CASE l = n + 1
        BY <2>1, <2>2, <3>1, <3>3, <4>2, <4>4 DEF n
      <4>. QED  BY <3>2, <4>3, <4>4
    <3>6. Ordered(g, wanted)
      BY <3>1, <3>4, <3>5 DEF Ordered
    <3>. QED  BY <2>1, <2>5, <3>1, <3>4, <3>6
  <2>. QED  BY <2>3, <2>4, <2>5
<1>. HIDE DEF T
<1>4. \A k \in 0 .. MaxPipes : k \in T
  BY <1>1, <1>2, <1>3, UpTo
<1>5. MaxPipes \in T
  BY <1>1, <1>4
<1>. QED  BY <1>5 DEF T

LEMMA TableOrder ==
  ASSUME NEW wanted \in SUBSET Pipes
  PROVE  Ordered(InTableOrder(wanted), wanted)
<1>. DEFINE step == [i \in 1 .. MaxPipes |-> [x \in Seq(Pipes) |->
                       IF i \in wanted /\ Len(x) < MaxSockets THEN Append(x, i) ELSE x]]
            Is(f) == f = [i \in 0 .. MaxPipes |->
                       IF i = 0 THEN <<>>
                       ELSE IF i \in wanted /\ Len(f[i - 1]) < MaxSockets
                              THEN Append(f[i - 1], i) ELSE f[i - 1]]
<1>1. MaxPipes \in Nat /\ MaxSockets \in Nat
  BY NngAssumption
<1>2. step \in [1 .. MaxPipes -> [Seq(Pipes) -> Seq(Pipes)]]
  <2>1. \A i \in 1 .. MaxPipes, x \in Seq(Pipes) : Append(x, i) \in Seq(Pipes)
    BY DEF Pipes
  <2>. QED  BY <2>1
<1>3. <<>> \in Seq(Pipes)
  OBVIOUS
<1>4. PICK F \in [0 .. MaxPipes -> Seq(Pipes)] : Iterates(F, <<>>, step, MaxPipes)
  BY Zenon, <1>1, <1>2, <1>3, IterExists
<1>5. \A i \in 1 .. MaxPipes : i - 1 \in 0 .. MaxPipes /\ i \in Pipes
  BY <1>1 DEF Pipes
<1>6. Is(F)
  <2>1. \A i \in 1 .. MaxPipes : F[i] = IF i \in wanted /\ Len(F[i - 1]) < MaxSockets
                                          THEN Append(F[i - 1], i) ELSE F[i - 1]
    BY Zenon, <1>4, <1>5 DEF Iterates
  <2>2. \A i \in 0 .. MaxPipes : i = 0 \/ i \in 1 .. MaxPipes
    BY <1>1
  <2>3. F = [i \in 0 .. MaxPipes |-> F[i]]
    OBVIOUS
  <2>. QED  BY Zenon, <1>4, <2>1, <2>2, <2>3 DEF Iterates
<1>. DEFINE found == CHOOSE f : Is(f)
<1>7. InTableOrder(wanted) = found[MaxPipes]
  BY DEF InTableOrder
<1>8. Is(found)
  BY Zenon, <1>6
<1>9. \A f : Is(f) => FoundAt(f, wanted)
  <2>1. SUFFICES ASSUME NEW f, Is(f)  PROVE FoundAt(f, wanted)
    BY Zenon
  <2>2. 0 \in 0 .. MaxPipes /\ \A i \in 1 .. MaxPipes : i \in 0 .. MaxPipes /\ i # 0
    BY <1>1
  <2>3. \A i \in 0 .. MaxPipes : f[i] =
                       IF i = 0 THEN <<>>
                       ELSE IF i \in wanted /\ Len(f[i - 1]) < MaxSockets
                              THEN Append(f[i - 1], i) ELSE f[i - 1]
    BY Zenon, <2>1
  <2>. QED  BY <2>2, <2>3 DEF FoundAt
<1>. HIDE DEF Is
<1>. QED  BY <1>7, <1>8, <1>9, FoundOrdered

-----------------------------------------------------------------------------
(* Queues and the messages in them.                                        *)

(* A slot of a queue that holds a message.                                 *)
Slots(q) == {x \in Sockets \X (1 .. MaxQueued) : x[2] \in DOMAIN q[x[1]]}

(* Queues that fit the sockets: bounded, empty for a closed id, and with   *)
(* nothing from an earlier opening.                                        *)
QueuesFit(q) ==
  /\ q \in [Sockets -> Seq(Nat)]
  /\ \A s \in Sockets : /\ Len(q[s]) <= MaxQueued
                        /\ \A i \in DOMAIN q[s] : q[s][i] = born[s]
                        /\ protocol[s] = "none" => q[s] = <<>>

LEMMA Sizes ==
  /\ MaxSockets \in Nat \ {0} /\ MaxQueued \in Nat \ {0} /\ MaxPipes \in Nat \ {0}
  /\ MaxMessages \in Nat \ {0}
  /\ None \notin Sockets /\ Sockets \subseteq Nat
BY NngAssumption DEF None, Sockets

LEMMA SlotsFinite ==
  ASSUME NEW q
  PROVE  IsFiniteSet(Slots(q)) /\ Cardinality(Slots(q)) \in Nat
<1>1. IsFiniteSet(Sockets) /\ IsFiniteSet(1 .. MaxQueued)
  BY Sizes, FS_Interval DEF Sockets
<1>2. IsFiniteSet(Sockets \X (1 .. MaxQueued))
  BY Zenon, <1>1, FS_Product
<1>3. Slots(q) \subseteq Sockets \X (1 .. MaxQueued)
  BY DEF Slots
<1>. QED  BY <1>2, <1>3, FS_Subset, FS_CardinalityType

(* One more message in the queue of p.                                     *)
LEMMA AppendedSlots ==
  ASSUME NEW q \in [Sockets -> Seq(Nat)], NEW p \in Sockets, NEW v \in Nat,
         Len(q[p]) < MaxQueued
  PROVE  Cardinality(Slots([q EXCEPT ![p] = Append(@, v)])) = Cardinality(Slots(q)) + 1
<1>. DEFINE r == [q EXCEPT ![p] = Append(@, v)]
            x == <<p, Len(q[p]) + 1>>
<1>1. /\ Len(q[p]) \in Nat /\ DOMAIN q[p] = 1 .. Len(q[p])
      /\ r[p] = Append(q[p], v) /\ DOMAIN r[p] = 1 .. Len(q[p]) + 1
      /\ \A s \in Sockets : s # p => r[s] = q[s]
  OBVIOUS
<1>. HIDE DEF r
<1>2. Len(q[p]) + 1 \in 1 .. MaxQueued
  BY <1>1, Sizes
<1>3. \A i \in 1 .. MaxQueued : i \in DOMAIN r[p] <=> i \in DOMAIN q[p] \/ i = Len(q[p]) + 1
  BY <1>1
<1>4. Slots(r) = Slots(q) \union {x} /\ x \notin Slots(q)
  <2>1. x \in Sockets \X (1 .. MaxQueued) /\ x[1] = p /\ x[2] = Len(q[p]) + 1
    BY <1>2
  <2>2. x \in Slots(r) /\ x \notin Slots(q)
    BY <1>1, <1>2, <1>3, <2>1 DEF Slots
  <2>3. ASSUME NEW y \in Sockets \X (1 .. MaxQueued), y # x
        PROVE  y[2] \in DOMAIN r[y[1]] <=> y[2] \in DOMAIN q[y[1]]
    <3>1. y[1] \in Sockets /\ y[2] \in 1 .. MaxQueued /\ y = <<y[1], y[2]>>
      OBVIOUS
    <3>2. CASE y[1] = p
      BY <1>3, <2>3, <3>1, <3>2
    <3>3. CASE y[1] # p
      BY Zenon, <1>1, <3>1, <3>3
    <3>. QED  BY <3>2, <3>3
  <2>. QED  BY <2>2, <2>3 DEF Slots
<1>. QED  BY Zenon, <1>4, SlotsFinite, FS_AddElement DEF r

(* What is delivered to an open socket.                                    *)
Deliveries ==
  {d \in [queues : [Sockets -> Seq(Nat)], used : Nat, got : SUBSET Sockets] :
     QueuesFit(d.queues) /\ d.used = Cardinality(Slots(d.queues)) + 1}

LEMMA DeliverFits ==
  ASSUME NEW d \in Deliveries, NEW p, socket_valid(p), born \in [Sockets -> Nat]
  PROVE  deliver_copy(d, p) \in Deliveries
<1>. DEFINE q == d.queues
            r == [q EXCEPT ![p] = Append(@, born[p])]
            e == [queues |-> r, used |-> d.used + 1, got |-> d.got \union {p}]
<1>1. p \in Sockets /\ protocol[p] # "none" /\ born[p] \in Nat
  BY DEF socket_valid
<1>2. /\ q \in [Sockets -> Seq(Nat)] /\ d.used \in Nat /\ d.got \in SUBSET Sockets
      /\ QueuesFit(q) /\ d.used = Cardinality(Slots(q)) + 1
  BY DEF Deliveries
<1>3. CASE d.used >= MaxMessages \/ Len(q[p]) >= MaxQueued
  BY <1>3 DEF deliver_copy
<1>4. CASE ~(d.used >= MaxMessages \/ Len(q[p]) >= MaxQueued)
  <2>1. deliver_copy(d, p) = e
    BY <1>4 DEF deliver_copy
  <2>2. Len(q[p]) \in Nat /\ Len(q[p]) < MaxQueued /\ q[p] \in Seq(Nat)
    BY <1>1, <1>2, <1>4, Sizes
  <2>3. Cardinality(Slots(r)) = Cardinality(Slots(q)) + 1
    BY Zenon, <1>1, <1>2, <2>2, AppendedSlots
  <2>. HIDE DEF q
  <2>4. /\ r \in [Sockets -> Seq(Nat)] /\ \A s \in Sockets : s # p => r[s] = q[s]
        /\ r[p] = Append(q[p], born[p]) /\ Len(r[p]) = Len(q[p]) + 1
        /\ DOMAIN r[p] = 1 .. Len(q[p]) + 1 /\ DOMAIN q[p] = 1 .. Len(q[p])
        /\ r[p][Len(q[p]) + 1] = born[p]
        /\ \A i \in 1 .. Len(q[p]) : r[p][i] = q[p][i]
    BY <1>1, <1>2, <2>2
  <2>. HIDE DEF r
  <2>5. \A i \in DOMAIN r[p] : r[p][i] = born[p]
    <3>1. \A i \in 1 .. Len(q[p]) + 1 : i \in 1 .. Len(q[p]) \/ i = Len(q[p]) + 1
      BY <2>2
    <3>. QED  BY Zenon, <1>1, <1>2, <2>4, <3>1 DEF QueuesFit
  <2>6. QueuesFit(r)
    <3>1. Len(r[p]) <= MaxQueued
      BY <2>2, <2>4, Sizes
    <3>. QED  BY ZenonT(60), <1>1, <1>2, <2>4, <2>5, <3>1 DEF QueuesFit
  <2>7. e \in Deliveries
    BY <1>1, <1>2, <2>3, <2>4, <2>6 DEF Deliveries, q
  <2>. QED  BY <2>1, <2>7
<1>. QED  BY <1>3, <1>4

(* A broadcast is a delivery, however many of its copies were dropped.     *)
LEMMA BroadcastFits ==
  ASSUME NEW peers, NEW wanting, Start \in Deliveries, born \in [Sockets -> Nat],
         Len(peers) \in Nat, \A i \in 1 .. Len(peers) : socket_valid(peers[i])
  PROVE  Broadcast(peers, wanting) \in Deliveries
<1>. DEFINE n == Len(peers)
            step == [i \in 1 .. n |-> [d \in Deliveries |->
                       IF peers[i] \in wanting THEN deliver_copy(d, peers[i]) ELSE d]]
            Is(f) == f = [i \in 0 .. n |->
                       IF i = 0 THEN Start
                       ELSE IF peers[i] \in wanting THEN deliver_copy(f[i - 1], peers[i])
                            ELSE f[i - 1]]
<1>1. \A i \in 1 .. n, d \in Deliveries : deliver_copy(d, peers[i]) \in Deliveries
  BY DeliverFits
<1>2. step \in [1 .. n -> [Deliveries -> Deliveries]]
  BY <1>1
<1>3. PICK F \in [0 .. n -> Deliveries] : Iterates(F, Start, step, n)
  BY Zenon, <1>2, IterExists
<1>4. Is(F)
  <2>1. \A i \in 1 .. n : i - 1 \in 0 .. n
    OBVIOUS
  <2>2. \A i \in 1 .. n : F[i] = IF peers[i] \in wanting
                                    THEN deliver_copy(F[i - 1], peers[i]) ELSE F[i - 1]
    BY Zenon, <1>3, <2>1 DEF Iterates
  <2>3. \A i \in 0 .. n : i = 0 \/ i \in 1 .. n
    OBVIOUS
  <2>4. F = [i \in 0 .. n |-> F[i]]
    OBVIOUS
  <2>. QED  BY Zenon, <1>3, <2>2, <2>3, <2>4 DEF Iterates
<1>. DEFINE sent == CHOOSE f : Is(f)
<1>5. Broadcast(peers, wanting) = sent[n]
  BY DEF Broadcast
<1>6. Is(sent)
  BY Zenon, <1>4
<1>7. ASSUME NEW f, Is(f)  PROVE f[n] \in Deliveries
  <2>1. \A i \in 0 .. n : f[i] =
          IF i = 0 THEN Start
          ELSE IF peers[i] \in wanting THEN deliver_copy(f[i - 1], peers[i]) ELSE f[i - 1]
    BY Zenon, <1>7
  <2>. HIDE DEF Is, step
  <2>. DEFINE T == {k \in 0 .. n : f[k] \in Deliveries}
  <2>2. 0 \in T
    BY <2>1
  <2>3. ASSUME NEW k \in 0 .. n - 1, k \in T  PROVE k + 1 \in T
    <3>1. k + 1 \in 0 .. n /\ k + 1 # 0 /\ k + 1 - 1 = k /\ k + 1 \in 1 .. n
      OBVIOUS
    <3>2. \A j : j = k + 1 => f[j] = f[j - 1] \/ f[j] = deliver_copy(f[j - 1], peers[j])
      BY <2>1, <3>1
    <3>3. f[k + 1] = f[k] \/ f[k + 1] = deliver_copy(f[k], peers[k + 1])
      BY <3>1, <3>2
    <3>. QED  BY <1>1, <2>3, <3>1, <3>3
  <2>. HIDE DEF T
  <2>4. \A k \in 0 .. n : k \in T
    BY Zenon, <2>2, <2>3, UpTo
  <2>. QED  BY <2>4 DEF T
<1>. HIDE DEF Is
<1>. QED  BY Zenon, <1>5, <1>6, <1>7

-----------------------------------------------------------------------------
(* The invariant of the message layer.                                     *)

Ends == [src : Sockets \union {None}, dst : Sockets \union {None}]

NngInv ==
  /\ protocol \in [Sockets -> Known \union {"none"}]
  /\ pipes \in [Pipes -> Ends]
  /\ born \in [Sockets -> Nat]
  /\ QueuesFit(recv_queues)
  /\ allocated = Cardinality(Slots(recv_queues))
  /\ \A s \in Sockets : protocol[s] = "none" => \A i \in Pipes : ~Touches(i, s)

LEMMA InvStates == NngInv => PoolConserved /\ StartsClean
<1>. SUFFICES ASSUME NngInv  PROVE PoolConserved /\ StartsClean
  OBVIOUS
<1>1. PoolConserved
  BY DEF NngInv, PoolConserved, Slots
<1>2. StartsClean
  BY DEF NngInv, StartsClean, QueuesFit, Touches
<1>. QED  BY <1>1, <1>2

LEMMA StartFits == NngInv => Start \in Deliveries
BY SlotsFinite DEF NngInv, Start, Deliveries, QueuesFit

(* Whatever is delivered, the invariant goes on.                           *)
LEMMA DeliveredFits ==
  ASSUME NngInv, UNCHANGED sockets, NEW d \in Deliveries, Deliver(d)
  PROVE  NngInv'
<1>1. /\ UNCHANGED <<protocol, pipes, born>>
      /\ recv_queues' = d.queues /\ allocated' = d.used - 1
  BY DEF sockets, Deliver
<1>2. QueuesFit(d.queues) /\ d.used = Cardinality(Slots(d.queues)) + 1
      /\ Cardinality(Slots(d.queues)) \in Nat
  BY SlotsFinite DEF Deliveries
<1>3. allocated' = Cardinality(Slots(recv_queues'))
  BY <1>1, <1>2
<1>4. QueuesFit(recv_queues)'
  BY Zenon, <1>1, <1>2 DEF QueuesFit
<1>. QED  BY Zenon, <1>1, <1>3, <1>4 DEF NngInv, Touches, Slots

LEMMA NotSentFits == NngInv /\ UNCHANGED sockets /\ NotSent => NngInv'
BY ZenonT(60) DEF NngInv, sockets, NotSent, Touches, Slots, QueuesFit

(* The peers collect_peers finds are open.                                 *)
LEMMA PeersValid ==
  ASSUME NngInv, NEW s \in Sockets, NEW filter
  PROVE  LET ends == collect_peers(s, filter)
         IN  /\ Ordered(ends, Leading(s, filter))
             /\ Len(ends) \in Nat
             /\ \A j \in 1 .. Len(ends) : socket_valid(PeerOf(ends[j], s, filter))
             /\ filter # "BUS" => \A j \in 1 .. Len(ends) :
                                    /\ pipes[ends[j]].src = s
                                    /\ PeerOf(ends[j], s, filter) = pipes[ends[j]].dst
<1>. DEFINE ends == collect_peers(s, filter)
<1>1. Leading(s, filter) \subseteq Pipes
  BY DEF Leading
<1>2. Ordered(ends, Leading(s, filter))
  BY <1>1, TableOrder DEF collect_peers
<1>. HIDE DEF ends
<1>3. Len(ends) \in Nat /\ \A j \in 1 .. Len(ends) : ends[j] \in Leading(s, filter)
  BY <1>2 DEF Ordered
<1>4. ASSUME NEW i \in Leading(s, filter)
      PROVE  /\ socket_valid(PeerOf(i, s, filter))
             /\ filter # "BUS" => pipes[i].src = s /\ PeerOf(i, s, filter) = pipes[i].dst
  <2>1. socket_valid(PeerOf(i, s, filter))
    BY DEF Leading
  <2>2. PeerOf(i, s, filter) # None
    BY <2>1, Sizes DEF socket_valid
  <2>. QED  BY Zenon, <2>1, <2>2 DEF PeerOf
<1>. QED  BY Zenon, <1>2, <1>3, <1>4 DEF ends

-----------------------------------------------------------------------------
(* Cursors.                                                                *)

CursorsFit == rr_idx \in [Sockets -> Nat]

LEMMA CursorIn ==
  ASSUME CursorsFit, NEW s \in Sockets, NEW n \in Nat \ {0}
  PROVE  Cursor(s, n) \in 1 .. n /\ Advance(Cursor(s, n), n) \in Nat
BY DEF CursorsFit, Cursor, Advance

LEMMA EndsLength ==
  ASSUME NngInv, NEW s \in Sockets, NEW filter, collect_peers(s, filter) # <<>>
  PROVE  Len(collect_peers(s, filter)) \in Nat \ {0}
<1>1. collect_peers(s, filter) \in Seq(Pipes)
  BY PeersValid DEF Ordered
<1>. QED  BY <1>1

LEMMA CursorsStep == NngInv /\ CursorsFit /\ [Next]_vars => CursorsFit'
<1>. SUFFICES ASSUME NngInv, CursorsFit, [Next]_vars  PROVE CursorsFit'
  OBVIOUS
<1>1. CASE UNCHANGED rr_idx
  BY <1>1 DEF CursorsFit
<1>2. ASSUME NEW p \in Protocols, nng_socket_create(p)  PROVE CursorsFit'
  BY <1>2 DEF nng_socket_create, CursorsFit
<1>3. ASSUME NEW s \in Sockets, SendPush(s)  PROVE CursorsFit'
  <2>. DEFINE ends == collect_peers(s, "PULL")
  <2>1. CASE UNCHANGED requesting
    BY <1>1, <2>1 DEF requesting
  <2>2. CASE ends # <<>> /\ rr_idx' = [rr_idx EXCEPT ![s] = Advance(Cursor(s, Len(ends)), Len(ends))]
    BY <2>2, EndsLength, CursorIn DEF CursorsFit
  <2>. QED  BY Zenon, <1>3, <2>1, <2>2 DEF SendPush
<1>4. ASSUME NEW s \in Sockets, SendReq(s)  PROVE CursorsFit'
  <2>. DEFINE ends == collect_peers(s, "REP")
  <2>1. CASE UNCHANGED requesting
    BY <1>1, <2>1 DEF requesting
  <2>2. CASE ends # <<>> /\ rr_idx' = [rr_idx EXCEPT ![s] = Advance(Cursor(s, Len(ends)), Len(ends))]
    BY <2>2, EndsLength, CursorIn DEF CursorsFit
  <2>. QED  BY Zenon, <1>4, <2>1, <2>2 DEF SendReq
<1>5. ASSUME NEW s \in Sockets, nng_send(s)  PROVE CursorsFit'
  <2>1. CASE \E t \in Topics : SendPub(s, t)
    BY <1>1, <2>1 DEF SendPub, requesting
  <2>2. CASE SendBus(s) \/ SendPair(s) \/ SendSurvey(s) \/ SendResponse(s)
    <3>1. UNCHANGED requesting
      BY Zenon, <2>2 DEF SendBus, SendPair, SendSurvey, SendResponse
    <3>. QED  BY <1>1, <3>1 DEF requesting
  <2>3. CASE SendRep(s)
    BY <1>1, <2>3 DEF SendRep
  <2>. QED  BY <1>3, <1>4, <1>5, <2>1, <2>2, <2>3 DEF nng_send
<1>6. \A s, d \in Sockets : nng_connect(s, d) => UNCHANGED rr_idx
  BY DEF nng_connect
<1>7. \A s \in Sockets : nng_socket_close(s) \/ nng_recv(s) => UNCHANGED rr_idx
  BY DEF nng_socket_close, nng_recv, requesting
<1>8. \A s \in Sockets : \A t : nng_sub_subscribe(s, t) \/ nng_sub_unsubscribe(s, t)
                                  => UNCHANGED rr_idx
  BY DEF nng_sub_subscribe, nng_sub_unsubscribe, requesting
<1>9. timer_tick \/ UNCHANGED vars => UNCHANGED rr_idx
  BY DEF timer_tick, vars, requesting
<1>. QED  BY <1>1, <1>2, <1>5, <1>6, <1>7, <1>8, <1>9 DEF Next

-----------------------------------------------------------------------------
(* Every operation keeps the invariant.                                    *)

LEMMA CreateKeeps ==
  ASSUME NngInv, NEW p \in Protocols, nng_socket_create(p)
  PROVE  NngInv'
<1>1. PICK s \in Sockets :
        /\ protocol[s] = "none"
        /\ protocol' = [protocol EXCEPT ![s] = p]
        /\ born' = [born EXCEPT ![s] = @ + 1]
  BY Zenon DEF nng_socket_create
<1>2. UNCHANGED <<pipes, recv_queues, allocated>>
  BY DEF nng_socket_create
<1>3. protocol' \in [Sockets -> Known \union {"none"}]
  BY <1>1, NngAssumption DEF NngInv
<1>4. born' \in [Sockets -> Nat]
  BY <1>1 DEF NngInv
<1>5. recv_queues[s] = <<>>
  BY <1>1 DEF NngInv, QueuesFit
<1>6. QueuesFit(recv_queues)'
  <2>1. ASSUME NEW r \in Sockets
        PROVE  /\ Len(recv_queues[r]) <= MaxQueued
               /\ \A i \in DOMAIN recv_queues[r] : recv_queues[r][i] = born'[r]
               /\ protocol'[r] = "none" => recv_queues[r] = <<>>
    <3>1. CASE r = s
      BY Zenon, <1>5, <3>1, EmptyQueue
    <3>2. CASE r # s
      BY <1>1, <3>2 DEF NngInv, QueuesFit
    <3>. QED  BY Zenon, <3>1, <3>2
  <2>. QED  BY Zenon, <1>2, <2>1 DEF NngInv, QueuesFit
<1>7. p # "none"
  BY NngAssumption DEF Known
<1>8. \A r \in Sockets : protocol'[r] = "none" => protocol[r] = "none"
  BY <1>1, <1>7 DEF NngInv
<1>. QED  BY Zenon, <1>2, <1>3, <1>4, <1>6, <1>8 DEF NngInv, Touches, Slots

LEMMA ConnectKeeps ==
  ASSUME NngInv, NEW s, NEW d, nng_connect(s, d)
  PROVE  NngInv'
<1>1. s \in Sockets /\ d \in Sockets /\ protocol[s] # "none" /\ protocol[d] # "none"
  BY Zenon DEF nng_connect, socket_valid
<1>2. UNCHANGED <<protocol, born, recv_queues, allocated>>
  BY DEF nng_connect
<1>3. PICK i \in Pipes : pipes' = [pipes EXCEPT ![i] = [src |-> s, dst |-> d]]
  BY Zenon DEF nng_connect
<1>4. pipes' \in [Pipes -> Ends]
  BY Zenon, <1>1, <1>3 DEF NngInv, Ends
<1>5. /\ pipes'[i].src = s /\ pipes'[i].dst = d
      /\ \A j \in Pipes : j # i => pipes'[j] = pipes[j]
  BY <1>3 DEF NngInv
<1>6. \A r \in Sockets : protocol[r] = "none" => \A j \in Pipes : ~Touches(j, r)'
  BY Zenon, <1>1, <1>5 DEF NngInv, Touches
<1>. QED  BY Zenon, <1>2, <1>4, <1>6 DEF NngInv, Slots, QueuesFit

(* The queue of s is emptied.                                              *)
LEMMA FlushedSlots ==
  ASSUME NEW q \in [Sockets -> Seq(Nat)], NEW s \in Sockets, Len(q[s]) <= MaxQueued
  PROVE  Cardinality(Slots([q EXCEPT ![s] = <<>>])) = Cardinality(Slots(q)) - Len(q[s])
<1>. DEFINE r == [q EXCEPT ![s] = <<>>]
            n == Len(q[s])
            Gone == {s} \X (1 .. n)
<1>1. /\ n \in Nat /\ DOMAIN q[s] = 1 .. n /\ DOMAIN r[s] = {}
      /\ \A t \in Sockets : t # s => r[t] = q[t]
  OBVIOUS
<1>2. Slots(r) = Slots(q) \ Gone /\ Gone \subseteq Slots(q)
  <2>1. \A i \in 1 .. n : i \in 1 .. MaxQueued
    BY <1>1, Sizes
  <2>. HIDE DEF r
  <2>2. Gone \subseteq Slots(q)
    BY <1>1, <2>1 DEF Slots
  <2>3. ASSUME NEW x \in Sockets \X (1 .. MaxQueued)
        PROVE  x[2] \in DOMAIN r[x[1]] <=> x[2] \in DOMAIN q[x[1]] /\ x \notin Gone
    <3>1. x = <<x[1], x[2]>> /\ x[1] \in Sockets
      OBVIOUS
    <3>2. CASE x[1] = s
      BY Zenon, <1>1, <3>1, <3>2
    <3>3. CASE x[1] # s
      BY Zenon, <1>1, <3>1, <3>3
    <3>. QED  BY Zenon, <3>2, <3>3
  <2>. QED  BY <2>2, <2>3 DEF Slots
<1>3. IsFiniteSet(Gone) /\ Cardinality(Gone) = n
  <2>1. IsFiniteSet({s}) /\ Cardinality({s}) = 1
    BY Zenon, FS_Singleton
  <2>. HIDE DEF n
  <2>2. IsFiniteSet(1 .. n) /\ Cardinality(1 .. n) = n
    <3>1. 1 \in Int /\ n \in Int /\ (IF 1 > n THEN 0 ELSE n - 1 + 1) = n
      BY <1>1
    <3>. QED  BY <3>1, FS_Interval
  <2>3. IsFiniteSet(Gone) /\ Cardinality(Gone) = Cardinality({s}) * Cardinality(1 .. n)
    BY <2>1, <2>2, FS_Product, Zenon
  <2>. QED  BY <1>1, <2>1, <2>2, <2>3
<1>4. Slots(q) \intersect Gone = Gone
  BY <1>2
<1>5. Cardinality(Slots(q) \ Gone) = Cardinality(Slots(q)) - Cardinality(Slots(q) \intersect Gone)
  BY Zenon, <1>3, SlotsFinite, FS_Difference
<1>. QED  BY Zenon, <1>2, <1>3, <1>4, <1>5

LEMMA CloseKeeps ==
  ASSUME NngInv, NEW s, nng_socket_close(s)
  PROVE  NngInv'
<1>. DEFINE q == recv_queues
<1>1. s \in Sockets
  BY DEF nng_socket_close, socket_valid
<1>2. /\ UNCHANGED born /\ recv_queues' = [q EXCEPT ![s] = <<>>]
      /\ allocated' = allocated - Len(q[s])
      /\ pipes' = [i \in Pipes |-> IF Touches(i, s) THEN NoPipe ELSE pipes[i]]
      /\ protocol' = [protocol EXCEPT ![s] = "none"]
  BY Zenon DEF nng_socket_close, Flush
<1>3. QueuesFit(q) /\ allocated = Cardinality(Slots(q))
  BY DEF NngInv
<1>4. allocated' = Cardinality(Slots(recv_queues'))
  BY Zenon, <1>1, <1>2, <1>3, FlushedSlots DEF QueuesFit
<1>5. /\ recv_queues' \in [Sockets -> Seq(Nat)] /\ recv_queues'[s] = <<>>
      /\ \A t \in Sockets : t # s => recv_queues'[t] = q[t]
  BY <1>1, <1>2, <1>3 DEF QueuesFit
<1>6. /\ protocol' \in [Sockets -> Known \union {"none"}]
      /\ \A t \in Sockets : t # s => protocol'[t] = protocol[t]
  BY Zenon, <1>2 DEF NngInv
<1>7. QueuesFit(recv_queues)'
  <2>1. Len(<<>>) = 0 /\ 0 <= MaxQueued /\ DOMAIN <<>> = {}
    BY Sizes
  <2>. QED  BY ZenonT(60), <1>2, <1>3, <1>5, <1>6, <2>1 DEF QueuesFit
<1>8. NoPipe \in Ends /\ \A t \in Sockets : t \notin {NoPipe.src, NoPipe.dst}
  BY Zenon, Sizes DEF NoPipe, Ends
<1>9. pipes' \in [Pipes -> Ends]
  BY Zenon, <1>2, <1>8 DEF NngInv
<1>10. ASSUME NEW t \in Sockets, protocol'[t] = "none", NEW i \in Pipes
       PROVE  t \notin {pipes'[i].src, pipes'[i].dst}
  <2>1. pipes'[i] = IF Touches(i, s) THEN NoPipe ELSE pipes[i]
    BY <1>2
  <2>2. CASE t = s
    BY Zenon, <1>8, <2>1, <2>2 DEF Touches
  <2>3. CASE t # s
    BY Zenon, <1>6, <1>8, <1>10, <2>1, <2>3 DEF NngInv, Touches
  <2>. QED  BY Zenon, <2>2, <2>3
<1>11. (\A t \in Sockets : protocol[t] = "none" => \A i \in Pipes : ~Touches(i, t))'
  BY <1>10 DEF Touches
<1>12. (allocated = Cardinality(Slots(recv_queues)))'
  BY <1>4 DEF Slots
<1>13. (born \in [Sockets -> Nat])'
  BY <1>2 DEF NngInv
<1>. QED  BY Zenon, <1>6, <1>7, <1>9, <1>11, <1>12, <1>13 DEF NngInv, Ends

(* The oldest message is taken off the queue of s.                         *)
LEMMA TakenSlots ==
  ASSUME NEW q \in [Sockets -> Seq(Nat)], NEW s \in Sockets, q[s] # <<>>,
         Len(q[s]) <= MaxQueued
  PROVE  Cardinality(Slots([q EXCEPT ![s] = Tail(@)])) = Cardinality(Slots(q)) - 1
<1>. DEFINE r == [q EXCEPT ![s] = Tail(@)]
            n == Len(q[s])
            x == <<s, n>>
<1>1. /\ n \in Nat /\ n >= 1 /\ DOMAIN q[s] = 1 .. n /\ r[s] = Tail(q[s])
      /\ DOMAIN r[s] = 1 .. n - 1
      /\ \A t \in Sockets : t # s => r[t] = q[t]
  <2>1. q[s] \in Seq(Nat) /\ n \in Nat /\ n >= 1 /\ DOMAIN q[s] = 1 .. n
    OBVIOUS
  <2>2. Tail(q[s]) \in Seq(Nat) /\ Len(Tail(q[s])) = n - 1
    BY <2>1
  <2>3. DOMAIN Tail(q[s]) = 1 .. n - 1
    BY <2>2
  <2>. QED  BY <2>1, <2>3
<1>2. n \in 1 .. MaxQueued
  BY <1>1, Sizes
<1>. HIDE DEF r, n
<1>3. Slots(r) = Slots(q) \ {x} /\ x \in Slots(q)
  <2>1. x \in Slots(q)
    BY <1>1, <1>2 DEF Slots
  <2>2. \A i \in 1 .. MaxQueued : i \in 1 .. n - 1 <=> i \in 1 .. n /\ i # n
    BY <1>1
  <2>3. ASSUME NEW y \in Sockets \X (1 .. MaxQueued)
        PROVE  y[2] \in DOMAIN r[y[1]] <=> y[2] \in DOMAIN q[y[1]] /\ y # x
    <3>1. y = <<y[1], y[2]>> /\ y[1] \in Sockets /\ y[2] \in 1 .. MaxQueued
      OBVIOUS
    <3>2. CASE y[1] = s
      BY SMTT(60), <1>1, <2>2, <3>1, <3>2
    <3>3. CASE y[1] # s
      BY SMTT(60), <1>1, <3>1, <3>3
    <3>. QED  BY Zenon, <3>2, <3>3
  <2>. QED  BY Zenon, <2>1, <2>3 DEF Slots
<1>. QED  BY ZenonT(60), <1>3, SlotsFinite, FS_RemoveElement DEF r

LEMMA RecvKeeps ==
  ASSUME NngInv, NEW s, nng_recv(s)
  PROVE  NngInv'
<1>. DEFINE q == recv_queues
<1>1. s \in Sockets /\ UNCHANGED sockets
  BY Zenon DEF nng_recv, socket_valid
<1>2. CASE NotSent
  BY <1>1, <1>2, NotSentFits
<1>3. CASE q[s] # <<>> /\ recv_queues' = [q EXCEPT ![s] = Tail(@)] /\ allocated' = allocated - 1
  <2>1. QueuesFit(q) /\ allocated = Cardinality(Slots(q)) /\ q[s] \in Seq(Nat)
    BY Zenon, <1>1 DEF NngInv, QueuesFit
  <2>2. allocated' = Cardinality(Slots(recv_queues'))
    BY Zenon, <1>1, <1>3, <2>1, TakenSlots DEF QueuesFit
  <2>. DEFINE n == Len(q[s])  t == Tail(q[s])
  <2>3. /\ n \in Nat /\ t \in Seq(Nat) /\ Len(t) = n - 1 /\ DOMAIN t = 1 .. n - 1
        /\ \A i \in 1 .. n - 1 : t[i] = q[s][i + 1] /\ i + 1 \in DOMAIN q[s]
    <3>1. n \in Nat /\ n >= 1 /\ DOMAIN q[s] = 1 .. n
      BY <1>3, <2>1
    <3>2. t \in Seq(Nat) /\ Len(t) = n - 1 /\ \A i \in 1 .. n - 1 : t[i] = q[s][i + 1]
      BY <1>3, <2>1, <3>1
    <3>3. DOMAIN t = 1 .. n - 1 /\ \A i \in 1 .. n - 1 : i + 1 \in 1 .. n
      BY <3>1, <3>2
    <3>. QED  BY Zenon, <3>1, <3>2, <3>3
  <2>4. /\ recv_queues' \in [Sockets -> Seq(Nat)] /\ recv_queues'[s] = t
        /\ \A r \in Sockets : r # s => recv_queues'[r] = q[r]
    BY Zenon, <1>1, <1>3, <2>1, <2>3 DEF QueuesFit
  <2>. HIDE DEF q, t, n
  <2>5. Len(t) <= MaxQueued /\ (\A i \in DOMAIN t : t[i] = born[s]) /\ protocol[s] # "none"
    <3>1. Len(t) <= MaxQueued
      BY <1>1, <2>1, <2>3, Sizes DEF QueuesFit, n
    <3>2. \A i \in DOMAIN t : t[i] = born[s]
      BY Zenon, <1>1, <2>1, <2>3 DEF QueuesFit
    <3>. QED  BY Zenon, <3>1, <3>2 DEF nng_recv, socket_valid
  <2>6. QueuesFit(recv_queues)'
    BY ZenonT(60), <1>1, <2>1, <2>4, <2>5 DEF QueuesFit, sockets
  <2>. QED  BY Zenon, <1>1, <2>2, <2>6 DEF NngInv, sockets, Touches, Slots
<1>. QED  BY Zenon, <1>2, <1>3 DEF nng_recv

(* One send, to one peer or to many.                                       *)
LEMMA CopyKeeps ==
  ASSUME NngInv, UNCHANGED sockets, NEW p, socket_valid(p), Deliver(deliver_copy(Start, p))
  PROVE  NngInv'
<1>1. deliver_copy(Start, p) \in Deliveries
  BY Zenon, StartFits, DeliverFits DEF NngInv
<1>. QED  BY <1>1, DeliveredFits

LEMMA BroadcastKeeps ==
  ASSUME NngInv, UNCHANGED sockets, NEW s \in Sockets, NEW filter, NEW wanting, NEW peers,
         Deliver(Broadcast(peers, wanting)), DOMAIN peers = DOMAIN collect_peers(s, filter),
         peers = [i \in DOMAIN peers |-> peers[i]],
         \A i \in DOMAIN peers : peers[i] = PeerOf(collect_peers(s, filter)[i], s, filter)
  PROVE  NngInv'
<1>. DEFINE ends == collect_peers(s, filter)
<1>1. /\ ends \in Seq(Pipes) /\ Len(ends) \in Nat
      /\ \A j \in 1 .. Len(ends) : socket_valid(PeerOf(ends[j], s, filter))
  BY Zenon, PeersValid DEF Ordered
<1>2. DOMAIN peers = 1 .. Len(ends)
  BY <1>1
<1>3. \A i \in 1 .. Len(ends) : socket_valid(peers[i])
  BY <1>1, <1>2
<1>4. Len(peers) = Len(ends)
  <2>1. \A i \in 1 .. Len(ends) : peers[i] \in Sockets
    BY <1>3 DEF socket_valid
  <2>2. peers \in [1 .. Len(ends) -> Sockets]
    BY <1>2, <2>1
  <2>. QED  BY <1>1, <2>2, LenProperties, SeqDef
<1>5. Broadcast(peers, wanting) \in Deliveries
  BY Zenon, <1>1, <1>3, <1>4, StartFits, BroadcastFits DEF NngInv
<1>. QED  BY Zenon, <1>5, DeliveredFits

LEMMA OneEnd ==
  ASSUME NngInv, NEW s \in Sockets, NEW filter, filter # "BUS",
         collect_peers(s, filter) # <<>>,
         NEW c \in 1 .. Len(collect_peers(s, filter))
  PROVE  socket_valid(pipes[collect_peers(s, filter)[c]].dst)
BY Zenon, PeersValid

LEMMA SendKeeps ==
  ASSUME NngInv, CursorsFit, NEW s \in Sockets, nng_send(s)
  PROVE  NngInv'
<1>1. UNCHANGED sockets
  BY DEF nng_send
<1>2. CASE NotSent
  BY <1>1, <1>2, NotSentFits
<1>3. ASSUME NEW t \in Topics, SendPub(s, t)  PROVE NngInv'
  <2>. DEFINE ends == collect_peers(s, "SUB")
              peers == [i \in DOMAIN ends |-> PeerOf(ends[i], s, "SUB")]
  <2>1. Deliver(Broadcast(peers, {p \in Sockets : sub_accepts(p, t)}))
    BY Zenon, <1>3 DEF SendPub
  <2>. QED  BY <1>1, <2>1, BroadcastKeeps
<1>4. ASSUME SendBus(s)  PROVE NngInv'
  <2>. DEFINE ends == collect_peers(s, "BUS")
              peers == [i \in DOMAIN ends |-> PeerOf(ends[i], s, "BUS")]
  <2>1. Deliver(Broadcast(peers, Sockets))
    BY Zenon, <1>4 DEF SendBus
  <2>. QED  BY <1>1, <2>1, BroadcastKeeps
<1>5. ASSUME SendSurvey(s)  PROVE NngInv'
  <2>. DEFINE ends == collect_peers(s, "RESPONDENT")
              peers == [i \in DOMAIN ends |-> pipes[ends[i]].dst]
  <2>1. CASE Deliver(Broadcast(peers, Sockets))
    <3>1. ends \in Seq(Pipes) /\ \A i \in 1 .. Len(ends) :
            PeerOf(ends[i], s, "RESPONDENT") = pipes[ends[i]].dst
      BY PeersValid DEF Ordered
    <3>2. \A i \in DOMAIN ends : PeerOf(ends[i], s, "RESPONDENT") = pipes[ends[i]].dst
      BY Zenon, <3>1, SeqFacts
    <3>3. peers = [i \in DOMAIN ends |-> PeerOf(ends[i], s, "RESPONDENT")]
      BY Zenon, <3>2
    <3>. QED  BY Zenon, <1>1, <2>1, <3>3, BroadcastKeeps
  <2>. QED  BY Zenon, <1>2, <1>5, <2>1 DEF SendSurvey
<1>6. ASSUME SendPair(s)  PROVE NngInv'
  <2>. DEFINE ends == collect_peers(s, "PAIR")
  <2>1. CASE ends # <<>> /\ Deliver(deliver_copy(Start, pipes[ends[1]].dst))
    <3>1. 1 \in 1 .. Len(ends)
      BY <2>1, EndsLength
    <3>. QED  BY <1>1, <2>1, <3>1, OneEnd, CopyKeeps
  <2>. QED  BY Zenon, <1>2, <1>6, <2>1 DEF SendPair
<1>7. ASSUME SendPush(s)  PROVE NngInv'
  <2>. DEFINE ends == collect_peers(s, "PULL")
              c == Cursor(s, Len(ends))
  <2>1. CASE ends # <<>> /\ Deliver(deliver_copy(Start, pipes[ends[c]].dst))
    <3>1. c \in 1 .. Len(ends)
      BY <2>1, EndsLength, CursorIn
    <3>. QED  BY Zenon, <1>1, <2>1, <3>1, OneEnd, CopyKeeps
  <2>. QED  BY Zenon, <1>2, <1>7, <2>1 DEF SendPush
<1>8. ASSUME SendReq(s)  PROVE NngInv'
  <2>. DEFINE ends == collect_peers(s, "REP")
              c == Cursor(s, Len(ends))
  <2>1. CASE ends # <<>> /\ Deliver(deliver_copy(Start, pipes[ends[c]].dst))
    <3>1. c \in 1 .. Len(ends)
      BY Zenon, <2>1, EndsLength, CursorIn
    <3>. QED  BY Zenon, <1>1, <2>1, <3>1, OneEnd, CopyKeeps
  <2>. QED  BY Zenon, <1>2, <1>8, <2>1 DEF SendReq
<1>9. ASSUME SendRep(s)  PROVE NngInv'
  BY <1>1, <1>2, <1>9, CopyKeeps DEF SendRep
<1>10. ASSUME SendResponse(s)  PROVE NngInv'
  BY <1>1, <1>2, <1>10, CopyKeeps DEF SendResponse
<1>. QED  BY Zenon, <1>3, <1>4, <1>5, <1>6, <1>7, <1>8, <1>9, <1>10 DEF nng_send

(* The invariant goes on when none of what it reads changes.               *)
LEMMA UntouchedKeeps ==
  ASSUME NngInv, UNCHANGED <<protocol, pipes, born, recv_queues, allocated>>
  PROVE  NngInv'
BY Zenon DEF NngInv, Touches, Slots, QueuesFit

LEMMA NngInit == Init => NngInv /\ CursorsFit
<1>. SUFFICES ASSUME Init  PROVE NngInv /\ CursorsFit
  OBVIOUS
<1>1. NoPipe \in Ends /\ \A t \in Sockets : t \notin {NoPipe.src, NoPipe.dst}
  BY Zenon, Sizes DEF NoPipe, Ends
<1>2. Slots(recv_queues) = {}
  BY DEF Init, Slots
<1>3. allocated = Cardinality(Slots(recv_queues))
  BY Zenon, <1>2, FS_EmptySet DEF Init
<1>4. QueuesFit(recv_queues)
  BY Sizes DEF Init, QueuesFit
<1>5. \A s \in Sockets : \A i \in Pipes : ~Touches(i, s)
  BY Zenon, <1>1 DEF Init, Touches
<1>. QED  BY Zenon, <1>1, <1>3, <1>4, <1>5 DEF Init, NngInv, CursorsFit

LEMMA NngStep == NngInv /\ CursorsFit /\ [Next]_vars => NngInv' /\ CursorsFit'
<1>. SUFFICES ASSUME NngInv, CursorsFit, [Next]_vars  PROVE NngInv'
  BY CursorsStep
<1>1. CASE UNCHANGED <<protocol, pipes, born, recv_queues, allocated>>
  BY Zenon, <1>1, UntouchedKeeps
<1>2. ASSUME NEW s \in Sockets, NEW t, nng_sub_subscribe(s, t) \/ nng_sub_unsubscribe(s, t)
      PROVE  NngInv'
  BY Zenon, <1>1, <1>2 DEF nng_sub_subscribe, nng_sub_unsubscribe
<1>3. CASE timer_tick \/ UNCHANGED vars
  BY Zenon, <1>1, <1>3 DEF timer_tick, vars, sockets
<1>. QED
  BY Zenon, <1>2, <1>3, CreateKeeps, ConnectKeeps, CloseKeeps, SendKeeps, RecvKeeps DEF Next

LEMMA NngInvariance == Spec => [](NngInv /\ CursorsFit)
BY NngInit, NngStep, PTL DEF Spec

(* No message is leaked and none is freed twice, whatever the protocols,   *)
(* the sizes of the tables and the order of the calls.                     *)
THEOREM MessagesConserved == Spec => []PoolConserved
BY NngInvariance, InvStates, PTL

(* A socket id that is opened again has nothing of its earlier openings.   *)
THEOREM SocketsStartClean == Spec => []StartsClean
BY NngInvariance, InvStates, PTL

-----------------------------------------------------------------------------
(* Taking turns.                                                           *)

(* How long ago position j was at the cursor, in turns; n for the cursor   *)
(* itself.                                                                 *)
Behind(c, j, n) == IF j < c THEN c - j ELSE c - j + n

(* The positions that have had their turn are the m behind the cursor.     *)
TurnsBehind(ends, c, done) ==
  \E m \in 0 .. Len(ends) - 1 :
    \A j \in 1 .. Len(ends) : ends[j] \in done <=> Behind(c, j, Len(ends)) <= m

EndsOf(s) == collect_peers(s, IF protocol[s] = "REQ" THEN "REP" ELSE "PULL")

InTurn(s) ==
  protocol[s] \in {"REQ", "PUSH"} /\ EndsOf(s) # <<>>
    => TurnsBehind(EndsOf(s), Cursor(s, Len(EndsOf(s))), served)

Turns == \A s \in Sockets : InTurn(s)

(* Where the cursor goes.                                                  *)
Following(c, n) == IF c >= n THEN 1 ELSE c + 1

LEMMA BehindFacts ==
  ASSUME NEW n \in Nat \ {0}, NEW c \in 1 .. n, NEW j \in 1 .. n
  PROVE  /\ Behind(c, j, n) \in 1 .. n
         /\ Behind(c, j, n) = n <=> j = c
         /\ Following(c, n) \in 1 .. n
         /\ Behind(c, j, n) = n => Behind(Following(c, n), j, n) = 1
         /\ Behind(c, j, n) # n => Behind(Following(c, n), j, n) = Behind(c, j, n) + 1
BY DEF Behind, Following

LEMMA NoTurnsYet ==
  ASSUME NEW ends \in Seq(Pipes), ends # <<>>, NEW c \in 1 .. Len(ends)
  PROVE  TurnsBehind(ends, c, {})
<1>1. Len(ends) \in Nat \ {0}
  OBVIOUS
<1>2. 0 \in 0 .. Len(ends) - 1
  BY <1>1
<1>3. \A j \in 1 .. Len(ends) : ~(Behind(c, j, Len(ends)) <= 0)
  <2>1. \A j \in 1 .. Len(ends) : Behind(c, j, Len(ends)) \in 1 .. Len(ends)
    BY <1>1, BehindFacts, Zenon
  <2>. QED  BY <1>1, <2>1
<1>. QED  BY Zenon, <1>2, <1>3 DEF TurnsBehind

(* The peer at the cursor has its turn, and the cursor moves on.           *)
LEMMA TurnTaken ==
  ASSUME NEW ends \in Seq(Pipes), ends # <<>>,
         \A j, k \in 1 .. Len(ends) : j < k => ends[j] < ends[k],
         NEW c \in 1 .. Len(ends), TurnsBehind(ends, c, served), Serve(ends, c)
  PROVE  TurnsBehind(ends, Following(c, Len(ends)), served')
<1>. DEFINE n == Len(ends)
            f == Following(c, n)
<1>1. n \in Nat \ {0} /\ c \in 1 .. n /\ Range(ends) = {ends[j] : j \in 1 .. n}
  BY DEF Range
<1>2. PICK m \in 0 .. n - 1 : \A j \in 1 .. n : ends[j] \in served <=> Behind(c, j, n) <= m
  BY Zenon DEF TurnsBehind
<1>3. \A j \in 1 .. n : /\ Behind(c, j, n) \in 1 .. n
                        /\ Behind(c, j, n) = n <=> j = c
                        /\ Behind(c, j, n) = n => Behind(f, j, n) = 1
                        /\ Behind(c, j, n) # n => Behind(f, j, n) = Behind(c, j, n) + 1
  <2>. HIDE DEF n
  <2>. SUFFICES ASSUME NEW j \in 1 .. n
                PROVE  /\ Behind(c, j, n) \in 1 .. n
                       /\ Behind(c, j, n) = n <=> j = c
                       /\ Behind(c, j, n) = n => Behind(f, j, n) = 1
                       /\ Behind(c, j, n) # n => Behind(f, j, n) = Behind(c, j, n) + 1
    BY Zenon
  <2>1. Behind(c, j, n) \in 1 .. n
    BY <1>1, BehindFacts, Zenon
  <2>4. Behind(c, j, n) = n <=> j = c
    BY <1>1 DEF Behind
  <2>2. Behind(c, j, n) = n => Behind(f, j, n) = 1
    BY <1>1, BehindFacts, Zenon DEF f
  <2>3. Behind(c, j, n) # n => Behind(f, j, n) = Behind(c, j, n) + 1
    BY <1>1, BehindFacts, ZenonT(60) DEF f
  <2>. QED  BY Zenon, <2>1, <2>2, <2>3, <2>4
<1>4. f \in 1 .. n
  BY Zenon, <1>1, BehindFacts
<1>5. \A j \in 1 .. n : ends[j] = ends[c] => j = c
  <2>. SUFFICES ASSUME NEW j \in 1 .. n, ends[j] = ends[c]  PROVE j = c
    BY Zenon
  <2>1. ends[j] \in Int /\ ends[c] \in Int
    <3>1. ends[j] \in Pipes /\ ends[c] \in Pipes
      OBVIOUS
    <3>. QED  BY <3>1 DEF Pipes
  <2>2. ~(j < c) /\ ~(c < j)
    BY <2>1
  <2>. QED  BY <2>2, <1>1
<1>. HIDE DEF n, f
<1>6. CASE Range(ends) \subseteq served \union {ends[c]}
  <2>1. served' = served \ Range(ends)
    BY Zenon, <1>6 DEF Serve
  <2>2. \A j \in 1 .. n : ends[j] \notin served'
    BY Zenon, <1>1, <2>1
  <2>3. \A j \in 1 .. n : ~(Behind(f, j, n) <= 0)
    <3>1. \A j \in 1 .. n : Behind(f, j, n) \in 1 .. n
      BY <1>1, <1>4, BehindFacts, Zenon
    <3>. QED  BY <1>1, <3>1
  <2>4. 0 \in 0 .. n - 1
    BY <1>1
  <2>. QED  BY Zenon, <2>2, <2>3, <2>4 DEF TurnsBehind, n, f
<1>7. CASE ~(Range(ends) \subseteq served \union {ends[c]})
  <2>1. served' = served \union {ends[c]}
    BY Zenon, <1>7 DEF Serve
  <2>2. PICK k \in 1 .. n : ends[k] \notin served /\ k # c
    BY Zenon, <1>1, <1>7
  <2>3. Behind(c, k, n) # n /\ ~(Behind(c, k, n) <= m) /\ Behind(c, k, n) \in 1 .. n
    BY Zenon, <1>2, <1>3, <2>2
  <2>4. m + 1 \in 0 .. n - 1
    BY <1>1, <2>3
  <2>5. \A j \in 1 .. n : ends[j] \in served' <=> Behind(c, j, n) <= m \/ j = c
    BY Zenon, <1>2, <1>5, <2>1
  <2>6. \A j \in 1 .. n : Behind(c, j, n) <= m \/ j = c <=> Behind(f, j, n) <= m + 1
    <3>. SUFFICES ASSUME NEW j \in 1 .. n
                  PROVE  Behind(c, j, n) <= m \/ j = c <=> Behind(f, j, n) <= m + 1
      BY Zenon
    <3>. DEFINE b == Behind(c, j, n)
    <3>1. /\ b \in 1 .. n /\ (b = n <=> j = c)
          /\ b = n => Behind(f, j, n) = 1
          /\ b # n => Behind(f, j, n) = b + 1
      BY Zenon, <1>3
    <3>. HIDE DEF b
    <3>2. 1 <= m + 1 /\ (b <= m <=> b + 1 <= m + 1)
      BY Zenon, <1>1, <3>1, PlaceBehind
    <3>. QED  BY Zenon, <3>1, <3>2 DEF b
  <2>7. \A j \in 1 .. n : ends[j] \in served' <=> Behind(f, j, n) <= m + 1
    BY Zenon, <2>5, <2>6
  <2>. QED  BY Zenon, <2>4, <2>7 DEF TurnsBehind, n, f
<1>. QED  BY Zenon, <1>6, <1>7

LEMMA SameEnds ==
  ASSUME UNCHANGED <<protocol, pipes>>, NEW s, NEW filter
  PROVE  collect_peers(s, filter)' = collect_peers(s, filter)
<1>1. Leading(s, filter)' = Leading(s, filter)
  BY Zenon DEF Leading, PeerOf, socket_valid
<1>. QED  BY ZenonT(60), <1>1 DEF collect_peers, InTableOrder

(* The open sockets keep their peers when a socket is opened, and the new  *)
(* one has none.                                                           *)
LEMMA CreateEnds ==
  ASSUME NngInv, NEW p \in Protocols, NEW n \in Sockets, protocol[n] = "none",
         protocol' = [protocol EXCEPT ![n] = p], UNCHANGED pipes,
         NEW s \in Sockets, NEW filter \in Known
  PROVE  collect_peers(s, filter)' = IF s = n THEN <<>> ELSE collect_peers(s, filter)
<1>1. \A i \in Pipes : n \notin {pipes[i].src, pipes[i].dst}
  BY Zenon DEF NngInv, Touches
<1>2. protocol \in [Sockets -> Known \union {"none"}]
  BY Zenon DEF NngInv
<1>3. CASE s = n
  <2>1. \A i \in Pipes : PeerOf(i, s, filter)' = None
    BY Zenon, <1>1, <1>3 DEF PeerOf
  <2>2. Leading(s, filter)' = {}
    BY Zenon, <2>1, Sizes DEF Leading, socket_valid
  <2>3. Ordered(InTableOrder({}), {})
    BY TableOrder
  <2>4. InTableOrder({}) = <<>>
    <3>. DEFINE e == InTableOrder({})
    <3>1. e \in Seq(Pipes) /\ \A j \in 1 .. Len(e) : FALSE
      BY Zenon, <2>3 DEF Ordered
    <3>. HIDE DEF e
    <3>2. Len(e) = 0
      BY <3>1
    <3>. QED  BY <3>1, <3>2 DEF e
  <2>. QED  BY ZenonT(60), <1>3, <2>2, <2>4 DEF collect_peers, InTableOrder
<1>4. CASE s # n
  <2>1. \A i \in Pipes : /\ PeerOf(i, s, filter)' = PeerOf(i, s, filter)
                         /\ PeerOf(i, s, filter) # n
    BY Zenon, <1>1, Sizes DEF PeerOf
  <2>2. Leading(s, filter)' = Leading(s, filter)
    BY Zenon, <1>2, <2>1 DEF Leading, socket_valid
  <2>. QED  BY <1>4, <2>2 DEF collect_peers, InTableOrder
<1>. QED  BY Zenon, <1>3, <1>4

(* Nothing a step does not touch changes whose turn it is.                 *)
LEMMA UntouchedTurn ==
  ASSUME NEW s \in Sockets, InTurn(s), UNCHANGED <<protocol, pipes>>,
         rr_idx'[s] = rr_idx[s],
         \A j \in 1 .. Len(EndsOf(s)) : EndsOf(s)[j] \in served' <=> EndsOf(s)[j] \in served
  PROVE  InTurn(s)'
<1>1. EndsOf(s)' = EndsOf(s)
  BY Zenon, SameEnds DEF EndsOf
<1>2. ASSUME NEW n  PROVE Cursor(s, n)' = Cursor(s, n)
  BY Zenon DEF Cursor
<1>3. \A e, c, d, f : (\A j \in 1 .. Len(e) : e[j] \in d <=> e[j] \in f)
                       => (TurnsBehind(e, c, d) <=> TurnsBehind(e, c, f))
  BY ZenonT(60) DEF TurnsBehind
<1>4. protocol'[s] = protocol[s]
  BY Zenon
<1>. DEFINE e == EndsOf(s)  c == Cursor(s, Len(e))
<1>5. TurnsBehind(e, c, served) <=> TurnsBehind(e, c, served')
  BY Zenon, <1>3
<1>6. Cursor(s, Len(EndsOf(s)))' = c
  BY Zenon, <1>1 DEF Cursor
<1>. HIDE DEF c, e
<1>7. InTurn(s)' <=> (protocol'[s] \in {"REQ", "PUSH"} /\ e # <<>> => TurnsBehind(e, c, served'))
  BY Zenon, <1>1, <1>6 DEF InTurn, e, c, TurnsBehind, Behind
<1>. QED  BY Zenon, <1>4, <1>5, <1>7 DEF InTurn, e, c

LEMMA FreshTurns == NngInv /\ CursorsFit /\ served = {} => Turns
<1>. SUFFICES ASSUME NngInv, CursorsFit, served = {}, NEW s \in Sockets, EndsOf(s) # <<>>
              PROVE  TurnsBehind(EndsOf(s), Cursor(s, Len(EndsOf(s))), {})
  BY Zenon DEF Turns, InTurn
<1>1. EndsOf(s) \in Seq(Pipes)
  BY Zenon, PeersValid DEF EndsOf, Ordered
<1>2. Len(EndsOf(s)) \in Nat \ {0}
  BY <1>1
<1>3. Cursor(s, Len(EndsOf(s))) \in 1 .. Len(EndsOf(s))
  BY Zenon, <1>2, CursorIn
<1>. QED  BY Zenon, <1>1, <1>3, NoTurnsYet

(* A step that moves no cursor and serves no pipe.                         *)
LEMMA QuietTurns ==
  ASSUME Turns, UNCHANGED <<protocol, pipes, rr_idx, served>>
  PROVE  Turns'
<1>. SUFFICES ASSUME NEW s \in Sockets  PROVE InTurn(s)'
  BY Zenon DEF Turns
<1>1. InTurn(s)
  BY DEF Turns
<1>. QED  BY Zenon, <1>1, UntouchedTurn

LEMMA CreateTurns ==
  ASSUME NngInv, Turns, NEW p \in Protocols, nng_socket_create(p)
  PROVE  Turns'
<1>1. PICK n \in Sockets : /\ protocol[n] = "none"
                           /\ protocol' = [protocol EXCEPT ![n] = p]
                           /\ rr_idx' = [rr_idx EXCEPT ![n] = 0]
                           /\ UNCHANGED <<pipes, served>>
  BY Zenon DEF nng_socket_create
<1>. SUFFICES ASSUME NEW s \in Sockets  PROVE InTurn(s)'
  BY Zenon DEF Turns
<1>0. PICK filter \in Known : filter = IF protocol'[s] = "REQ" THEN "REP" ELSE "PULL"
  BY Zenon DEF Known
<1>2. EndsOf(s)' = collect_peers(s, filter)'
  BY Zenon, <1>0 DEF EndsOf
<1>3. collect_peers(s, filter)' = IF s = n THEN <<>> ELSE collect_peers(s, filter)
  BY Zenon, <1>1, <1>2, CreateEnds
<1>4. CASE s = n
  BY Zenon, <1>2, <1>3, <1>4 DEF InTurn
<1>5. CASE s # n
  <2>1. protocol'[s] = protocol[s]
    BY Zenon, <1>1, <1>5 DEF NngInv
  <2>2. EndsOf(s)' = EndsOf(s)
    BY Zenon, <1>0, <1>2, <1>3, <1>5, <2>1 DEF EndsOf
  <2>3. \A m : (IF rr_idx'[s] >= m THEN 1 ELSE rr_idx'[s] + 1) = Cursor(s, m)
    BY <1>1, <1>5 DEF Cursor
  <2>4. Cursor(s, Len(EndsOf(s)))' = Cursor(s, Len(EndsOf(s)))
    BY Zenon, <2>2, <2>3 DEF Cursor
  <2>. DEFINE e == EndsOf(s)  c == Cursor(s, Len(e))
  <2>5. protocol[s] \in {"REQ", "PUSH"} /\ e # <<>> => TurnsBehind(e, c, served)
    BY Zenon DEF Turns, InTurn
  <2>. HIDE DEF c, e
  <2>6. InTurn(s)' <=> (protocol'[s] \in {"REQ", "PUSH"} /\ e # <<>>
                          => TurnsBehind(e, c, served'))
    BY Zenon, <2>2, <2>4 DEF InTurn, e, c, TurnsBehind, Behind
  <2>. QED  BY Zenon, <1>1, <2>1, <2>5, <2>6
<1>. QED  BY Zenon, <1>4, <1>5

(* A REQ or PUSH socket s sends to the peer at its cursor.                 *)
LEMMA ServeTurns ==
  ASSUME NngInv, CursorsFit, Turns, UNCHANGED sockets,
         NEW s \in Sockets, protocol[s] \in {"REQ", "PUSH"}, EndsOf(s) # <<>>,
         rr_idx' = [rr_idx EXCEPT ![s] = Advance(Cursor(s, Len(EndsOf(s))), Len(EndsOf(s)))],
         Serve(EndsOf(s), Cursor(s, Len(EndsOf(s))))
  PROVE  Turns'
<1>. DEFINE e == EndsOf(s)
            n == Len(e)
            c == Cursor(s, n)
<1>0. UNCHANGED <<protocol, pipes>>
  BY Zenon DEF sockets
<1>1. /\ e \in Seq(Pipes) /\ \A j \in 1 .. n : pipes[e[j]].src = s
      /\ \A j, k \in 1 .. n : j < k => e[j] < e[k]
  BY ZenonT(60), PeersValid DEF EndsOf, Ordered
<1>2. n \in Nat \ {0}
  BY Zenon, <1>1, SeqFacts
<1>3. c \in 1 .. n
  BY Zenon, <1>2, CursorIn
<1>4. TurnsBehind(e, Following(c, n), served')
  <2>1. TurnsBehind(e, c, served)
    BY Zenon DEF Turns, InTurn
  <2>. QED  BY Zenon, <1>1, <1>3, <2>1, TurnTaken
<1>. SUFFICES ASSUME NEW r \in Sockets  PROVE InTurn(r)'
  BY Zenon DEF Turns
<1>5. CASE r = s
  <2>1. EndsOf(s)' = e
    BY Zenon, <1>0, SameEnds DEF EndsOf
  <2>2. rr_idx'[s] = Advance(c, n)
    BY Zenon DEF CursorsFit
  <2>3. Cursor(s, Len(EndsOf(s)))' = Following(c, n)
    <3>. HIDE DEF c, n, e
    <3>1. (IF rr_idx'[s] >= n THEN 1 ELSE rr_idx'[s] + 1) = Following(c, n)
      BY <1>2, <1>3, <2>2 DEF Advance, Following
    <3>. QED  BY Zenon, <2>1, <3>1 DEF Cursor, n
  <2>. HIDE DEF c, n, e
  <2>4. TurnsBehind(EndsOf(s), Cursor(s, Len(EndsOf(s))), served)'
    BY Zenon, <1>4, <2>1, <2>3 DEF TurnsBehind, Behind
  <2>. QED  BY Zenon, <1>5, <2>4 DEF InTurn
<1>6. CASE r # s
  <2>1. InTurn(r) /\ rr_idx'[r] = rr_idx[r]
    BY Zenon, <1>6 DEF Turns, CursorsFit
  <2>. DEFINE f == EndsOf(r)
  <2>2. f \in Seq(Pipes) /\ \A j \in 1 .. Len(f) : pipes[f[j]].src = r
    BY ZenonT(60), PeersValid DEF EndsOf, Ordered
  <2>3. Range(e) = {e[j] : j \in 1 .. n}
    BY Zenon, <1>1, SeqFacts
  <2>. HIDE DEF e, f, n, c
  <2>4. \A j \in 1 .. Len(f) : f[j] \notin Range(e)
    <3>1. SUFFICES ASSUME NEW j \in 1 .. Len(f), f[j] \in Range(e)  PROVE FALSE
      BY Zenon
    <3>2. PICK i \in 1 .. n : f[j] = e[i]
      BY Zenon, <2>3, <3>1
    <3>3. pipes[e[i]].src = s /\ pipes[f[j]].src = r
      BY Zenon, <1>1, <2>2
    <3>. QED  BY Zenon, <1>6, <3>2, <3>3
  <2>5. \A j \in 1 .. Len(f) : f[j] \in served' <=> f[j] \in served
    <3>1. e[c] \in Range(e)
      BY Zenon, <1>3, <2>3
    <3>2. Serve(e, c)
      BY Zenon DEF e, c, n
    <3>. QED  BY Zenon, <2>4, <3>1, <3>2 DEF Serve
  <2>. QED  BY Zenon, <1>0, <2>1, <2>5, UntouchedTurn DEF f
<1>. QED  BY <1>5, <1>6

LEMMA SendTurns ==
  ASSUME NngInv, CursorsFit, Turns, NEW s \in Sockets, nng_send(s)
  PROVE  Turns'
<1>1. UNCHANGED sockets
  BY Zenon DEF nng_send
<1>2. CASE UNCHANGED <<rr_idx, served>>
  BY Zenon, <1>1, <1>2, QuietTurns DEF sockets
<1>3. CASE SendPush(s)
  <2>1. protocol[s] = "PUSH" /\ EndsOf(s) = collect_peers(s, "PULL")
    BY Zenon, <1>3 DEF SendPush, CanSend, EndsOf
  <2>2. CASE UNCHANGED requesting
    BY Zenon, <1>2, <2>2 DEF requesting
  <2>3. CASE ~UNCHANGED requesting
    <3>1. /\ EndsOf(s) # <<>>
          /\ rr_idx' = [rr_idx EXCEPT ![s] = Advance(Cursor(s, Len(EndsOf(s))), Len(EndsOf(s)))]
          /\ Serve(EndsOf(s), Cursor(s, Len(EndsOf(s))))
      BY Zenon, <1>3, <2>1, <2>3 DEF SendPush
    <3>. QED  BY Zenon, <1>1, <2>1, <3>1, ServeTurns
  <2>. QED  BY Zenon, <2>2, <2>3
<1>4. CASE SendReq(s)
  <2>1. protocol[s] = "REQ" /\ EndsOf(s) = collect_peers(s, "REP")
    BY Zenon, <1>4 DEF SendReq, CanSend, EndsOf
  <2>2. CASE UNCHANGED requesting
    BY <1>2, <2>2 DEF requesting
  <2>3. CASE ~UNCHANGED requesting
    <3>1. /\ EndsOf(s) # <<>>
          /\ rr_idx' = [rr_idx EXCEPT ![s] = Advance(Cursor(s, Len(EndsOf(s))), Len(EndsOf(s)))]
          /\ Serve(EndsOf(s), Cursor(s, Len(EndsOf(s))))
      BY Zenon, <1>4, <2>1, <2>3 DEF SendReq
    <3>. QED  BY Zenon, <1>1, <2>1, <3>1, ServeTurns
  <2>. QED  BY <2>2, <2>3
<1>5. ASSUME NEW t \in Topics, SendPub(s, t)  PROVE Turns'
  BY Zenon, <1>2, <1>5 DEF SendPub, requesting
<1>6. CASE SendBus(s) \/ SendPair(s) \/ SendRep(s) \/ SendSurvey(s) \/ SendResponse(s)
  BY Zenon, <1>2, <1>6 DEF SendBus, SendPair, SendRep, SendSurvey, SendResponse, requesting
<1>. QED  BY Zenon, <1>3, <1>4, <1>5, <1>6 DEF nng_send

LEMMA TurnsStep == NngInv /\ CursorsFit /\ Turns /\ [Next]_vars => Turns'
<1>. SUFFICES ASSUME NngInv, CursorsFit, Turns, [Next]_vars  PROVE Turns'
  BY Zenon
<1>1. NngInv' /\ CursorsFit'
  BY Zenon, NngStep
<1>2. (NngInv /\ CursorsFit /\ served = {} => Turns)'
  BY FreshTurns, PTL
<1>3. CASE served' = {}
  BY Zenon, <1>1, <1>2, <1>3
<1>4. CASE UNCHANGED <<protocol, pipes, rr_idx, served>>
  BY <1>4, QuietTurns
<1>5. ASSUME NEW s \in Sockets, nng_socket_close(s)  PROVE Turns'
  BY Zenon, <1>3, <1>5 DEF nng_socket_close
<1>6. ASSUME NEW s \in Sockets, NEW d \in Sockets, nng_connect(s, d)  PROVE Turns'
  BY Zenon, <1>3, <1>6 DEF nng_connect
<1>7. ASSUME NEW s \in Sockets, nng_recv(s)  PROVE Turns'
  BY Zenon, <1>4, <1>7 DEF nng_recv, sockets, requesting
<1>8. ASSUME NEW s \in Sockets, NEW t, nng_sub_subscribe(s, t) \/ nng_sub_unsubscribe(s, t)
      PROVE  Turns'
  BY Zenon, <1>4, <1>8 DEF nng_sub_subscribe, nng_sub_unsubscribe, requesting
<1>9. CASE timer_tick \/ UNCHANGED vars
  BY Zenon, <1>4, <1>9 DEF timer_tick, vars, sockets, requesting
<1>. QED  BY Zenon, <1>5, <1>6, <1>7, <1>8, <1>9, CreateTurns, SendTurns DEF Next

LEMMA TurnsStates == NngInv /\ CursorsFit /\ Turns => RoundRobin
<1>. SUFFICES ASSUME NngInv, CursorsFit, Turns, NEW s \in Sockets,
                     protocol[s] \in {"REQ", "PUSH"}, EndsOf(s) # <<>>
              PROVE  EndsOf(s)[Cursor(s, Len(EndsOf(s)))] \notin served
  BY Zenon DEF RoundRobin, EndsOf
<1>. DEFINE e == EndsOf(s)
            n == Len(e)
            c == Cursor(s, n)
<1>1. e \in Seq(Pipes)
  BY Zenon, PeersValid DEF EndsOf, Ordered
<1>2. n \in Nat \ {0}
  BY <1>1
<1>3. c \in 1 .. n
  BY Zenon, <1>2, CursorIn
<1>4. PICK m \in 0 .. n - 1 : \A j \in 1 .. n : e[j] \in served <=> Behind(c, j, n) <= m
  BY Zenon DEF Turns, InTurn, TurnsBehind
<1>. HIDE DEF e, n, c
<1>5. Behind(c, c, n) = n
  BY <1>2, <1>3 DEF Behind
<1>6. ~(n <= m)
  BY <1>2
<1>. QED  BY Zenon, <1>3, <1>4, <1>5, <1>6 DEF e, n, c

(* However a REQ or PUSH socket comes to its peers, and whatever its other *)
(* traffic, the peer it turns to next is one that is still to have its     *)
(* turn in this round.                                                     *)
THEOREM PeersTakeTurns == Spec => []RoundRobin
<1>1. Init => NngInv /\ CursorsFit /\ Turns
  <2>1. Init => served = {}
    BY Zenon DEF Init
  <2>. QED  BY <2>1, NngInit, FreshTurns
<1>2. NngInv /\ CursorsFit /\ Turns /\ [Next]_vars => (NngInv /\ CursorsFit /\ Turns)'
  BY NngStep, TurnsStep
<1>. QED  BY <1>1, <1>2, TurnsStates, PTL DEF Spec

-----------------------------------------------------------------------------
(* Channels.                                                               *)

ChannelsFit ==
  channels \in [Channels -> {Free} \union [socket : Sockets, opening : Nat,
                                           domain : Domains, cap_mask : CapSets]]

SealFits == edges_sealed => at_seal = domain_edges

Authorized(c, d) ==
  \/ channels[c].domain = channels[d].domain
  \/ "CROSS" \in channels[c].cap_mask
  \/ <<channels[c].domain, channels[d].domain>> \in domain_edges

(* LinksAuthorized, against the matrix as it is.                           *)
LinksFit ==
  \A i \in Pipes :
    /\ pipes[i].src \in Owned <=> pipes[i].dst \in Owned
    /\ \A c, d \in Channels :
         (/\ in_use(c) /\ in_use(d)
          /\ pipes[i].src = channels[c].socket /\ pipes[i].dst = channels[d].socket)
           => Authorized(c, d)

ChannelsInv == ChannelsFit /\ ChannelsOwnSockets /\ SealFits /\ LinksFit

IpcInv == NngInv /\ CursorsFit /\ ChannelsInv

LEMMA PipeEnds ==
  ASSUME NEW p, NEW x, NEW y, p = [src |-> x, dst |-> y]
  PROVE  p.src = x /\ p.dst = y
BY Zenon

LEMMA FreeSocket == Free.socket = None
BY Zenon DEF Free

LEMMA IpcStates == IpcInv => ChannelsOwnSockets /\ LinksAuthorized
<1>. SUFFICES ASSUME IpcInv  PROVE LinksAuthorized
  BY DEF IpcInv, ChannelsInv
<1>1. (IF edges_sealed THEN at_seal ELSE domain_edges) = domain_edges
  BY DEF IpcInv, ChannelsInv, SealFits
<1>2. \A i \in Pipes : pipes[i].src \in Owned <=> pipes[i].dst \in Owned
  BY Zenon DEF IpcInv, ChannelsInv, LinksFit
<1>3. ASSUME NEW i \in Pipes, NEW c \in Channels, NEW d \in Channels, in_use(c), in_use(d),
             pipes[i] = [src |-> channels[c].socket, dst |-> channels[d].socket]
      PROVE  Authorized(c, d)
  <2>1. pipes[i].src = channels[c].socket /\ pipes[i].dst = channels[d].socket
    BY Zenon, <1>3, PipeEnds
  <2>. QED  BY Zenon, <1>3, <2>1 DEF IpcInv, ChannelsInv, LinksFit
<1>. QED  BY Zenon, <1>1, <1>2, <1>3 DEF LinksAuthorized, Authorized

LEMMA InUse ==
  ASSUME ChannelsInv, NEW c \in Channels, in_use(c)
  PROVE  /\ channels[c].socket \in Sockets /\ protocol[channels[c].socket] # "none"
         /\ born[channels[c].socket] = channels[c].opening
         /\ channels[c].socket \in Owned
         /\ \A d \in Channels : d # c => channels[d].socket # channels[c].socket
<1>1. channels[c].socket \in Sockets
  BY DEF ChannelsInv, ChannelsFit, in_use
<1>. QED  BY Zenon, <1>1 DEF ChannelsInv, ChannelsOwnSockets, Owned

LEMMA OwnedOpen ==
  ASSUME ChannelsInv
  PROVE  \A s \in Owned : s \in Sockets /\ protocol[s] # "none"
BY ZenonT(60), InUse DEF Owned

(* What a channel call or the kernel's own sockets do to the sockets is    *)
(* what the message layer allows.                                          *)
LEMMA IpcUsesNng == ChannelsInv /\ [IpcNext]_ipc_vars => [Next]_vars
<1>. SUFFICES ASSUME ChannelsInv, [IpcNext]_ipc_vars  PROVE [Next]_vars
  BY Zenon
<1>1. CASE UNCHANGED vars
  BY <1>1
<1>2. ASSUME NEW s \in Sockets, nng_socket_close(s) \/ nng_send(s) \/ nng_recv(s)  PROVE Next
  BY Zenon, <1>2 DEF Next
<1>3. ASSUME NEW p \in Protocols, nng_socket_create(p)  PROVE Next
  BY Zenon, <1>3 DEF Next
<1>4. ASSUME NEW s \in Sockets, NEW d \in Sockets, nng_connect(s, d)  PROVE Next
  BY Zenon, <1>4 DEF Next
<1>5. ASSUME NEW a \in Matrix, NEW b \in Matrix, domain_edge_set(a, b)  PROVE UNCHANGED vars
  BY Zenon, <1>5 DEF domain_edge_set
<1>6. CASE domain_edges_seal \/ auditor_tick \/ UNCHANGED ipc_vars
  BY Zenon, <1>1, <1>6 DEF domain_edges_seal, auditor_tick, ipc_vars
<1>7. ASSUME NEW task, NEW dom, NEW caps, NEW p \in Protocols,
             ipc_create_channel(task, dom, caps, p)
      PROVE  Next
  BY Zenon, <1>3, <1>7 DEF ipc_create_channel
<1>8. ASSUME NEW c \in Channels, ipc_close_channel(c)  PROVE Next
  BY Zenon, <1>2, <1>8, InUse DEF ipc_close_channel
<1>9. ASSUME NEW c \in Channels, NEW d \in Channels, ipc_connect(c, d)  PROVE Next
  BY Zenon, <1>4, <1>9, InUse DEF ipc_connect
<1>10. ASSUME NEW c \in Channels, NEW v, ipc_send(c, v) \/ SYS_IPC_SEND(c, v)
       PROVE  [Next]_vars
  <2>1. Sends(c, v)
    BY Zenon, <1>10 DEF ipc_send, SYS_IPC_SEND
  <2>2. CASE nng_send(channels[c].socket)
    BY Zenon, <1>2, <2>1, <2>2, InUse DEF Sends
  <2>. QED  BY Zenon, <1>1, <2>1, <2>2 DEF Sends, CannotSend
<1>11. ASSUME NEW c \in Channels, NEW m, ipc_recv(c, m)  PROVE Next
  BY Zenon, <1>2, <1>11, InUse DEF ipc_recv
<1>12. ASSUME NEW s \in Sockets, Direct(s)  PROVE Next
  BY Zenon, <1>2, <1>4, <1>12 DEF Direct
<1>13. ASSUME NEW p \in Protocols, DirectCreate(p)  PROVE Next
  BY Zenon, <1>3, <1>13 DEF DirectCreate
<1>. QED  BY Zenon, <1>5, <1>6, <1>7, <1>8, <1>9, <1>10, <1>11, <1>12, <1>13 DEF IpcNext

(* A step that leaves the sockets, the pipes and the channels alone.       *)
LEMMA QuietChannels ==
  ASSUME ChannelsInv, UNCHANGED <<protocol, pipes, born, channels>>,
         domain_edges \subseteq domain_edges', SealFits'
  PROVE  ChannelsInv'
<1>1. ChannelsFit' /\ ChannelsOwnSockets' /\ Owned' = Owned
  BY ZenonT(60) DEF ChannelsInv, ChannelsFit, ChannelsOwnSockets, in_use, Owned
<1>2. \A c, d \in Channels : Authorized(c, d) => Authorized(c, d)'
  BY Zenon DEF Authorized
<1>3. LinksFit'
  BY Zenon, <1>1, <1>2 DEF ChannelsInv, LinksFit, in_use
<1>. QED  BY Zenon, <1>1, <1>3 DEF ChannelsInv

(* A socket is opened beside the channels.                                 *)
LEMMA DirectCreateChannels ==
  ASSUME NngInv, ChannelsInv, NEW p \in Protocols, DirectCreate(p)
  PROVE  ChannelsInv'
<1>1. PICK n \in Sockets : /\ protocol[n] = "none"
                           /\ protocol' = [protocol EXCEPT ![n] = p]
                           /\ born' = [born EXCEPT ![n] = @ + 1]
                           /\ UNCHANGED pipes
  BY Zenon DEF DirectCreate, nng_socket_create
<1>2. UNCHANGED <<channels, domain_edges, edges_sealed, at_seal>>
  BY Zenon DEF DirectCreate, graph
<1>3. ChannelsFit' /\ SealFits' /\ Owned' = Owned
  BY Zenon, <1>2 DEF ChannelsInv, ChannelsFit, SealFits, in_use, Owned
<1>4. \A c, d \in Channels : Authorized(c, d)' <=> Authorized(c, d)
  BY Zenon, <1>2 DEF Authorized
<1>5. LinksFit'
  BY Zenon, <1>1, <1>2, <1>3, <1>4 DEF ChannelsInv, LinksFit, in_use
<1>6. ChannelsOwnSockets'
  <2>. SUFFICES ASSUME NEW c \in Channels, in_use(c)
                PROVE  LET s == channels[c].socket
                       IN  /\ protocol'[s] # "none" /\ born'[s] = channels[c].opening
                           /\ \A d \in Channels \ {c} : channels[d].socket # s
    BY Zenon, <1>2 DEF ChannelsOwnSockets, in_use
  <2>1. channels[c].socket # n /\ channels[c].socket \in Sockets
    BY Zenon, <1>1, InUse
  <2>. QED  BY Zenon, <1>1, <2>1, InUse DEF NngInv
<1>. QED  BY Zenon, <1>3, <1>5, <1>6 DEF ChannelsInv

LEMMA CreateChannels ==
  ASSUME NngInv, ChannelsInv, NEW task, NEW dom \in Domains, NEW caps \in CapSets,
         NEW p \in Protocols, ipc_create_channel(task, dom, caps, p)
  PROVE  ChannelsInv'
<1>1. PICK n \in Sockets : /\ protocol[n] = "none"
                           /\ protocol' = [protocol EXCEPT ![n] = p]
                           /\ born' = [born EXCEPT ![n] = @ + 1]
                           /\ UNCHANGED pipes
  BY Zenon DEF ipc_create_channel, nng_socket_create
<1>2. PICK k \in Channels, s \in Sockets :
        /\ ~in_use(k) /\ protocol[s] = "none" /\ protocol'[s] = p
        /\ channels' = [channels EXCEPT ![k] = [socket |-> s, opening |-> born'[s],
                                                domain |-> dom, cap_mask |-> caps]]
  BY Zenon DEF ipc_create_channel, FirstFree
<1>3. p # "none" /\ protocol \in [Sockets -> Known \union {"none"}] /\ born \in [Sockets -> Nat]
  BY Zenon, NngAssumption DEF NngInv, Known
<1>4. s = n
  BY Zenon, <1>1, <1>2, <1>3
<1>5. born' \in [Sockets -> Nat]
  BY <1>1, <1>3
<1>6. channels \in [Channels -> {Free} \union [socket : Sockets, opening : Nat,
                                             domain : Domains, cap_mask : CapSets]]
  BY Zenon DEF ChannelsInv, ChannelsFit
<1>7. ChannelsFit'
  BY Zenon, <1>2, <1>5, <1>6 DEF ChannelsFit, Free
<1>8. UNCHANGED <<domain_edges, edges_sealed, at_seal>>
  BY Zenon DEF ipc_create_channel, graph
<1>9. /\ channels'[k].socket = n /\ channels'[k].opening = born'[n] /\ channels'[k] # Free
      /\ \A c \in Channels : c # k => channels'[c] = channels[c]
  <2>1. /\ channels'[k].socket = n /\ channels'[k].opening = born'[n]
        /\ \A c \in Channels : c # k => channels'[c] = channels[c]
    BY Zenon, <1>2, <1>4, <1>6
  <2>2. None # n /\ Free.socket = None
    BY Zenon, Sizes DEF Free
  <2>. QED  BY Zenon, <2>1, <2>2
<1>10. Owned' = Owned \union {n} /\ n \notin Owned
  <2>1. n \notin Owned
    BY Zenon, <1>1, OwnedOpen
  <2>2. \A c \in Channels : in_use(c) => c # k /\ in_use(c)' /\ channels'[c] = channels[c]
    BY Zenon, <1>2, <1>9 DEF in_use
  <2>3. \A c \in Channels : in_use(c)' => c = k \/ (in_use(c) /\ channels'[c] = channels[c])
    BY Zenon, <1>9 DEF in_use
  <2>4. in_use(k)'
    BY Zenon, <1>9 DEF in_use
  <2>5. ASSUME NEW x \in Owned'  PROVE x \in Owned \union {n}
    <3>1. PICK c \in Channels : in_use(c)' /\ x = channels'[c].socket
      BY Zenon DEF Owned
    <3>. QED  BY Zenon, <1>9, <2>3, <3>1 DEF Owned
  <2>6. ASSUME NEW x \in Owned  PROVE x \in Owned'
    <3>1. PICK c \in Channels : in_use(c) /\ x = channels[c].socket
      BY Zenon DEF Owned
    <3>2. x = channels'[c].socket /\ in_use(c)'
      BY Zenon, <2>2, <3>1
    <3>. QED  BY Zenon, <3>2 DEF Owned
  <2>7. n \in Owned'
    BY Zenon, <1>9, <2>4 DEF Owned
  <2>. QED  BY Zenon, <2>1, <2>5, <2>6, <2>7
<1>11. \A i \in Pipes : n \notin {pipes[i].src, pipes[i].dst}
  BY Zenon, <1>1 DEF NngInv, Touches
<1>12. ASSUME NEW c \in Channels, NEW d \in Channels, c # k, d # k, Authorized(c, d)
       PROVE  Authorized(c, d)'
  BY Zenon, <1>8, <1>9, <1>12 DEF Authorized
<1>13. LinksFit'
  <2>1. ASSUME NEW i \in Pipes  PROVE pipes'[i].src \in Owned' <=> pipes'[i].dst \in Owned'
    BY Zenon, <1>1, <1>10, <1>11 DEF ChannelsInv, LinksFit
  <2>2. ASSUME NEW i \in Pipes, NEW c \in Channels, NEW d \in Channels, in_use(c)', in_use(d)',
               pipes'[i].src = channels'[c].socket, pipes'[i].dst = channels'[d].socket
        PROVE  Authorized(c, d)'
    <3>1. c # k /\ d # k
      BY Zenon, <1>1, <1>9, <1>11, <2>2
    <3>2. Authorized(c, d)
      BY ZenonT(60), <1>1, <1>9, <2>2, <3>1 DEF ChannelsInv, LinksFit, in_use
    <3>. QED  BY Zenon, <1>12, <3>1, <3>2
  <2>. QED  BY Zenon, <2>1, <2>2 DEF LinksFit
<1>14. ChannelsOwnSockets'
  <2>. SUFFICES ASSUME NEW c \in Channels, in_use(c)'
                PROVE  /\ protocol'[channels'[c].socket] # "none"
                       /\ born'[channels'[c].socket] = channels'[c].opening
                       /\ \A d \in Channels \ {c} : channels'[d].socket # channels'[c].socket
    BY Zenon DEF ChannelsOwnSockets
  <2>1. \A d \in Channels : d # k => channels'[d].socket # n
    <3>1. \A d \in Channels : in_use(d) => channels[d].socket \in Owned
      BY Zenon DEF Owned
    <3>2. \A d \in Channels : ~in_use(d) => channels[d].socket = None
      BY Zenon, FreeSocket DEF in_use
    <3>. QED  BY Zenon, <1>9, <1>10, <3>1, <3>2, Sizes
  <2>2. CASE c = k
    BY Zenon, <1>1, <1>3, <1>9, <2>1, <2>2
  <2>3. CASE c # k
    <3>1. in_use(c) /\ channels'[c] = channels[c] /\ channels[c].socket # n
      BY Zenon, <1>9, <2>1, <2>3 DEF in_use
    <3>2. /\ channels[c].socket \in Sockets /\ protocol[channels[c].socket] # "none"
          /\ born[channels[c].socket] = channels[c].opening
          /\ \A d \in Channels : d # c => channels[d].socket # channels[c].socket
      BY Zenon, <3>1, InUse
    <3>. QED  BY Zenon, <1>1, <1>3, <1>9, <3>1, <3>2
  <2>. QED  BY Zenon, <2>2, <2>3
<1>15. SealFits'
  BY Zenon, <1>8 DEF ChannelsInv, SealFits
<1>. QED  BY Zenon, <1>7, <1>13, <1>14, <1>15 DEF ChannelsInv

(* What a close does to the pipes, for whoever owns the socket.            *)
LEMMA CutPipes ==
  ASSUME NEW s, nng_socket_close(s)
  PROVE  /\ s \in Sockets /\ UNCHANGED born /\ protocol' = [protocol EXCEPT ![s] = "none"]
         /\ \A i \in Pipes : \/ pipes'[i].src = None /\ pipes'[i].dst = None
                             \/ /\ pipes'[i] = pipes[i]
                                /\ s \notin {pipes[i].src, pipes[i].dst}
BY Zenon DEF nng_socket_close, socket_valid, Touches, NoPipe

LEMMA CloseChannels ==
  ASSUME NngInv, ChannelsInv, NEW k \in Channels, ipc_close_channel(k)
  PROVE  ChannelsInv'
<1>. DEFINE s == channels[k].socket
<1>1. in_use(k) /\ nng_socket_close(s) /\ channels' = [channels EXCEPT ![k] = Free]
      /\ UNCHANGED <<domain_edges, edges_sealed, at_seal>>
  BY Zenon DEF ipc_close_channel, graph
<1>2. /\ s \in Sockets /\ UNCHANGED born /\ protocol' = [protocol EXCEPT ![s] = "none"]
      /\ \A i \in Pipes : \/ pipes'[i].src = None /\ pipes'[i].dst = None
                          \/ /\ pipes'[i] = pipes[i]
                             /\ s \notin {pipes[i].src, pipes[i].dst}
  BY Zenon, <1>1, CutPipes
<1>3. ChannelsFit' /\ SealFits'
  BY Zenon, <1>1 DEF ChannelsInv, ChannelsFit, SealFits
<1>4. /\ channels'[k] = Free /\ Free.socket = None
      /\ \A c \in Channels : c # k => channels'[c] = channels[c] /\ channels[c].socket # s
  BY Zenon, <1>1, InUse DEF ChannelsInv, ChannelsFit, Free
<1>. HIDE DEF s
<1>5. Owned' = Owned \ {s} /\ None \notin Owned
  <2>1. None \notin Owned
    BY Zenon, OwnedOpen, Sizes
  <2>2. \A c \in Channels : channels'[c] # Free <=> channels[c] # Free /\ c # k
    BY Zenon, <1>4
  <2>3. ASSUME NEW x \in Owned'  PROVE x \in Owned /\ x # s
    <3>1. PICK c \in Channels : in_use(c)' /\ x = channels'[c].socket
      BY Zenon DEF Owned
    <3>2. in_use(c) /\ x = channels[c].socket /\ x # s
      BY Zenon, <1>4, <2>2, <3>1 DEF in_use
    <3>. QED  BY Zenon, <3>2 DEF Owned
  <2>4. ASSUME NEW x \in Owned, x # s  PROVE x \in Owned'
    <3>1. PICK c \in Channels : in_use(c) /\ x = channels[c].socket
      BY Zenon DEF Owned
    <3>2. c # k
      BY Zenon, <2>4, <3>1 DEF s
    <3>3. in_use(c)' /\ x = channels'[c].socket
      BY Zenon, <1>4, <2>2, <3>1, <3>2 DEF in_use
    <3>. QED  BY Zenon, <3>3 DEF Owned
  <2>. QED  BY Zenon, <2>1, <2>3, <2>4
<1>6. LinksFit'
  <2>1. ASSUME NEW i \in Pipes  PROVE pipes'[i].src \in Owned' <=> pipes'[i].dst \in Owned'
    BY Zenon, <1>2, <1>5 DEF ChannelsInv, LinksFit
  <2>2. ASSUME NEW i \in Pipes, NEW c \in Channels, NEW d \in Channels, in_use(c)', in_use(d)',
               pipes'[i].src = channels'[c].socket, pipes'[i].dst = channels'[d].socket
        PROVE  Authorized(c, d)'
    <3>1. c # k /\ d # k
      BY Zenon, <1>4, <2>2 DEF in_use
    <3>2. /\ channels'[c] = channels[c] /\ channels'[d] = channels[d]
          /\ in_use(c) /\ in_use(d) /\ channels[c].socket \in Sockets
      BY Zenon, <1>4, <2>2, <3>1, InUse DEF in_use
    <3>3. pipes'[i] = pipes[i]
      BY Zenon, <1>2, <2>2, <3>2, Sizes
    <3>4. Authorized(c, d)
      BY Zenon, <2>2, <3>2, <3>3 DEF ChannelsInv, LinksFit
    <3>5. domain_edges' = domain_edges
      BY Zenon, <1>1
    <3>. QED  BY Zenon, <3>2, <3>4, <3>5 DEF Authorized
  <2>. QED  BY Zenon, <2>1, <2>2 DEF LinksFit
<1>7. ChannelsOwnSockets'
  <2>. SUFFICES ASSUME NEW c \in Channels, in_use(c)'
                PROVE  /\ protocol'[channels'[c].socket] # "none"
                       /\ born'[channels'[c].socket] = channels'[c].opening
                       /\ \A d \in Channels \ {c} : channels'[d].socket # channels'[c].socket
    BY Zenon DEF ChannelsOwnSockets
  <2>1. c # k /\ channels'[c] = channels[c] /\ in_use(c) /\ channels[c].socket # s
    BY Zenon, <1>4 DEF in_use
  <2>2. /\ channels[c].socket \in Sockets /\ protocol[channels[c].socket] # "none"
        /\ born[channels[c].socket] = channels[c].opening
        /\ \A d \in Channels : d # c => channels[d].socket # channels[c].socket
    BY Zenon, <2>1, InUse
  <2>3. \A d \in Channels : channels'[d].socket \in {channels[d].socket, None}
    BY Zenon, <1>4
  <2>. QED  BY ZenonT(60), <1>2, <2>1, <2>2, <2>3, Sizes DEF NngInv
<1>. QED  BY Zenon, <1>3, <1>6, <1>7 DEF ChannelsInv

(* A pipe from a to b, between two channels or beside them.                *)
LEMMA LinkChannels ==
  ASSUME NngInv, ChannelsInv, NEW a, NEW b, nng_connect(a, b), a \in Owned <=> b \in Owned,
         \A c, d \in Channels : in_use(c) /\ in_use(d) /\ a = channels[c].socket
                                 /\ b = channels[d].socket => Authorized(c, d),
         UNCHANGED <<channels, domain_edges, edges_sealed, at_seal>>
  PROVE  ChannelsInv'
<1>1. UNCHANGED <<protocol, born>>
  BY Zenon DEF nng_connect
<1>2. PICK k \in Pipes : pipes' = [pipes EXCEPT ![k] = [src |-> a, dst |-> b]]
  BY Zenon DEF nng_connect
<1>3. ChannelsFit' /\ SealFits' /\ ChannelsOwnSockets' /\ Owned' = Owned
  <2>1. /\ protocol' = protocol /\ born' = born /\ channels' = channels
        /\ domain_edges' = domain_edges /\ edges_sealed' = edges_sealed /\ at_seal' = at_seal
    BY Zenon, <1>1
  <2>2. ChannelsFit'
    BY Zenon, <2>1 DEF ChannelsInv, ChannelsFit
  <2>3. SealFits'
    BY <2>1 DEF ChannelsInv, SealFits
  <2>4. ChannelsOwnSockets'
    BY ZenonT(60), <2>1 DEF ChannelsInv, ChannelsOwnSockets, in_use
  <2>5. Owned' = Owned
    BY Zenon, <2>1 DEF Owned, in_use
  <2>. QED  BY Zenon, <2>2, <2>3, <2>4, <2>5
<1>4. /\ pipes'[k].src = a /\ pipes'[k].dst = b
      /\ \A i \in Pipes : i # k => pipes'[i] = pipes[i]
  BY Zenon, <1>2 DEF NngInv
<1>5. LinksFit'
  <2>1. ASSUME NEW i \in Pipes  PROVE pipes'[i].src \in Owned' <=> pipes'[i].dst \in Owned'
    BY Zenon, <1>3, <1>4 DEF ChannelsInv, LinksFit
  <2>2. ASSUME NEW i \in Pipes, NEW c \in Channels, NEW d \in Channels, in_use(c)', in_use(d)',
               pipes'[i].src = channels'[c].socket, pipes'[i].dst = channels'[d].socket
        PROVE  Authorized(c, d)'
    <3>1. in_use(c) /\ in_use(d)
      BY Zenon, <2>2 DEF in_use
    <3>2. Authorized(c, d)
      BY Zenon, <1>4, <2>2, <3>1 DEF ChannelsInv, LinksFit
    <3>. QED  BY Zenon, <3>2 DEF Authorized
  <2>. QED  BY Zenon, <2>1, <2>2 DEF LinksFit
<1>. QED  BY Zenon, <1>3, <1>5 DEF ChannelsInv

LEMMA ConnectChannels ==
  ASSUME NngInv, ChannelsInv, NEW k \in Channels, NEW l \in Channels, ipc_connect(k, l)
  PROVE  ChannelsInv'
<1>. DEFINE a == channels[k].socket  b == channels[l].socket
<1>1. /\ in_use(k) /\ in_use(l) /\ nng_connect(a, b) /\ MayConnect(k, l)
      /\ UNCHANGED <<channels, domain_edges, edges_sealed, at_seal>>
  BY Zenon DEF ipc_connect, graph
<1>2. a \in Owned /\ b \in Owned
  BY Zenon, <1>1, InUse
<1>3. Authorized(k, l)
  BY Zenon, <1>1 DEF MayConnect, MayReach, domain_edge_allowed, Authorized
<1>4. ASSUME NEW c \in Channels, NEW d \in Channels, a = channels[c].socket, b = channels[d].socket
      PROVE  Authorized(c, d)
  <2>1. c = k /\ d = l
    BY Zenon, <1>1, <1>4, InUse
  <2>. QED  BY Zenon, <1>3, <2>1
<1>5. \A c, d \in Channels : in_use(c) /\ in_use(d) /\ a = channels[c].socket
                              /\ b = channels[d].socket => Authorized(c, d)
  BY Zenon, <1>4
<1>6. a \in Owned <=> b \in Owned
  BY Zenon, <1>2
<1>. HIDE DEF a, b
<1>. QED  BY Zenon, <1>1, <1>5, <1>6, LinkChannels

LEMMA DirectChannels ==
  ASSUME NngInv, ChannelsInv, NEW s \in Sockets, Direct(s)
  PROVE  ChannelsInv'
<1>1. s \notin Owned /\ UNCHANGED <<channels, domain_edges, edges_sealed, at_seal>>
  BY Zenon DEF Direct, graph
<1>2. CASE nng_send(s) \/ nng_recv(s)
  <2>1. UNCHANGED <<protocol, pipes, born>>
    BY Zenon, <1>2 DEF nng_send, nng_recv, sockets
  <2>2. SealFits'
    BY Zenon, <1>1 DEF ChannelsInv, SealFits
  <2>. QED  BY Zenon, <1>1, <2>1, <2>2, QuietChannels
<1>3. ASSUME NEW d \in Sockets \ Owned, nng_connect(s, d)  PROVE ChannelsInv'
  <2>1. \A c \in Channels : in_use(c) => channels[c].socket \in Owned
    BY Zenon DEF Owned
  <2>. QED  BY <1>1, <1>3, <2>1, LinkChannels
<1>4. CASE nng_socket_close(s)
  <2>1. /\ UNCHANGED born /\ protocol' = [protocol EXCEPT ![s] = "none"]
        /\ \A i \in Pipes : \/ pipes'[i].src = None /\ pipes'[i].dst = None
                            \/ pipes'[i] = pipes[i]
    BY Zenon, <1>4, CutPipes
  <2>2. ChannelsFit' /\ SealFits' /\ Owned' = Owned
    BY Zenon, <1>1 DEF ChannelsInv, ChannelsFit, SealFits, in_use, Owned
  <2>3. None \notin Owned
    BY Zenon, OwnedOpen, Sizes
  <2>4. LinksFit'
    <3>1. ASSUME NEW i \in Pipes  PROVE pipes'[i].src \in Owned' <=> pipes'[i].dst \in Owned'
      BY Zenon, <2>1, <2>2, <2>3 DEF ChannelsInv, LinksFit
    <3>2. ASSUME NEW i \in Pipes, NEW c \in Channels, NEW d \in Channels, in_use(c)', in_use(d)',
                 pipes'[i].src = channels'[c].socket, pipes'[i].dst = channels'[d].socket
          PROVE  Authorized(c, d)'
      <4>1. in_use(c) /\ in_use(d) /\ channels[c].socket \in Owned
        BY Zenon, <1>1, <3>2, InUse DEF in_use
      <4>2. Authorized(c, d)
        BY Zenon, <1>1, <2>1, <2>3, <3>2, <4>1 DEF ChannelsInv, LinksFit
      <4>. QED  BY Zenon, <1>1, <4>2 DEF Authorized
    <3>. QED  BY Zenon, <3>1, <3>2 DEF LinksFit
  <2>5. ChannelsOwnSockets'
    <3>. SUFFICES ASSUME NEW c \in Channels, in_use(c)
                  PROVE  /\ protocol'[channels[c].socket] # "none"
                         /\ born'[channels[c].socket] = channels[c].opening
                         /\ \A d \in Channels \ {c} : channels[d].socket # channels[c].socket
      BY Zenon, <1>1 DEF ChannelsOwnSockets, in_use
    <3>1. channels[c].socket # s
      BY Zenon, <1>1, InUse
    <3>. QED  BY Zenon, <2>1, <3>1, InUse DEF NngInv
  <2>. QED  BY Zenon, <2>2, <2>4, <2>5 DEF ChannelsInv
<1>. QED  BY Zenon, <1>2, <1>3, <1>4 DEF Direct

LEMMA ChannelsStep == NngInv /\ ChannelsInv /\ [IpcNext]_ipc_vars => ChannelsInv'
<1>. SUFFICES ASSUME NngInv, ChannelsInv, [IpcNext]_ipc_vars  PROVE ChannelsInv'
  OBVIOUS
<1>1. CASE UNCHANGED <<protocol, pipes, born, channels, domain_edges, edges_sealed, at_seal>>
  <2>1. SealFits'
    BY Zenon, <1>1 DEF ChannelsInv, SealFits
  <2>. QED  BY Zenon, <1>1, <2>1, QuietChannels
<1>2. ASSUME NEW a \in Matrix, NEW b \in Matrix, domain_edge_set(a, b)  PROVE ChannelsInv'
  <2>1. ~edges_sealed /\ domain_edges \subseteq domain_edges'
        /\ UNCHANGED <<vars, channels, edges_sealed>>
    BY Zenon, <1>2 DEF domain_edge_set
  <2>2. SealFits'
    BY Zenon, <2>1 DEF SealFits
  <2>. QED  BY Zenon, <2>1, <2>2, QuietChannels DEF vars, sockets
<1>3. CASE domain_edges_seal
  <2>1. at_seal' = domain_edges /\ UNCHANGED <<vars, channels, domain_edges>>
    BY Zenon, <1>3 DEF domain_edges_seal
  <2>2. SealFits'
    BY Zenon, <2>1 DEF SealFits
  <2>. QED  BY Zenon, <2>1, <2>2, QuietChannels DEF vars, sockets
<1>4. CASE auditor_tick \/ UNCHANGED ipc_vars
  BY Zenon, <1>1, <1>4 DEF auditor_tick, ipc_vars, vars, sockets, graph
<1>5. ASSUME NEW c \in Channels, NEW v, ipc_send(c, v) \/ SYS_IPC_SEND(c, v)  PROVE ChannelsInv'
  <2>1. Sends(c, v)
    BY Zenon, <1>5 DEF ipc_send, SYS_IPC_SEND
  <2>. QED  BY Zenon, <1>1, <2>1 DEF Sends, CannotSend, nng_send, vars, sockets, graph
<1>6. ASSUME NEW c \in Channels, NEW m, ipc_recv(c, m)  PROVE ChannelsInv'
  BY Zenon, <1>1, <1>6 DEF ipc_recv, nng_recv, sockets, graph
<1>7. ASSUME NEW task, NEW dom \in Domains, NEW caps \in CapSets, NEW p \in Protocols,
             ipc_create_channel(task, dom, caps, p)
      PROVE  ChannelsInv'
  BY Zenon, <1>7, CreateChannels
<1>8. ASSUME NEW c \in Channels, ipc_close_channel(c)  PROVE ChannelsInv'
  BY Zenon, <1>8, CloseChannels
<1>9. ASSUME NEW c \in Channels, NEW d \in Channels, ipc_connect(c, d)  PROVE ChannelsInv'
  BY Zenon, <1>9, ConnectChannels
<1>10. ASSUME NEW s \in Sockets, Direct(s)  PROVE ChannelsInv'
  BY Zenon, <1>10, DirectChannels
<1>11. ASSUME NEW p \in Protocols, DirectCreate(p)  PROVE ChannelsInv'
  BY Zenon, <1>11, DirectCreateChannels
<1>. QED  BY Zenon, <1>2, <1>3, <1>4, <1>5, <1>6, <1>7, <1>8, <1>9, <1>10, <1>11 DEF IpcNext

LEMMA IpcStep == IpcInv /\ [IpcNext]_ipc_vars => IpcInv'
BY Zenon, IpcUsesNng, NngStep, ChannelsStep DEF IpcInv

LEMMA IpcInits == IpcInit => IpcInv
<1>. SUFFICES ASSUME IpcInit  PROVE IpcInv
  OBVIOUS
<1>1. NngInv /\ CursorsFit
  BY Zenon, NngInit DEF IpcInit
<1>2. \A c \in Channels : ~in_use(c)
  BY Zenon DEF IpcInit, in_use
<1>3. ChannelsFit /\ ChannelsOwnSockets /\ SealFits
  BY Zenon, <1>2 DEF IpcInit, ChannelsFit, ChannelsOwnSockets, SealFits
<1>4. Owned = {}
  BY Zenon, <1>2 DEF Owned
<1>5. LinksFit
  BY Zenon, <1>2, <1>4 DEF LinksFit
<1>. QED  BY <1>1, <1>3, <1>5 DEF IpcInv, ChannelsInv

LEMMA IpcInvariance == IpcSpec => []IpcInv
BY IpcInits, IpcStep, PTL DEF IpcSpec

(* A channel in use owns an open socket, the one that was opened for it,   *)
(* and shares it with no other channel.                                    *)
THEOREM ChannelsKeepSockets == IpcSpec => []ChannelsOwnSockets
BY IpcInvariance, IpcStates, PTL

(* A pipe between channels is one the domains and the matrix allow, also   *)
(* once it is sealed, and no pipe joins a channel with another socket.     *)
THEOREM LinksStayAuthorized == IpcSpec => []LinksAuthorized
BY IpcInvariance, IpcStates, PTL

(* Beside the channels, too, the message layer leaks and mixes up nothing. *)
THEOREM ChannelsConserveMessages == IpcSpec => [](PoolConserved /\ StartsClean)
<1>1. IpcInv => PoolConserved /\ StartsClean
  BY InvStates DEF IpcInv
<1>. QED  BY <1>1, IpcInvariance, PTL
=============================================================================

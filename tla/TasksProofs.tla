---------------------------- MODULE TasksProofs -----------------------------
(***************************************************************************)
(* Proofs about Tasks, for a table of any size and any capability and      *)
(* domain sets.                                                            *)
(***************************************************************************)
EXTENDS TaskRecords, Integers, WellFoundedInduction, TLAPS, FiniteSetTheorems

-----------------------------------------------------------------------------
(* Loops.  One that carries a value from round to round is a function on   *)
(* 0 .. n; induction is the least counterexample.                          *)

(* A set of naturals that is not empty has a least element.                *)
LEMMA LeastNat ==
  ASSUME NEW T, T \subseteq Nat, T # {}
  PROVE  \E n \in T : \A m \in T : n <= m
<1>1. PICK n \in T : \A m \in T : ~(<<m, n>> \in OpToRel(<, Nat))
  BY Zenon, WFMin, NatLessThanWellFounded
<1>2. \A m \in T : ~(m < n)
  BY Zenon, <1>1 DEF OpToRel
<1>. QED  BY <1>2

(* A set of naturals with 0 that is closed under +1 up to n holds 0 .. n.  *)
LEMMA UpTo ==
  ASSUME NEW n \in Nat, NEW T, 0 \in T, \A k \in 0 .. n - 1 : k \in T => k + 1 \in T
  PROVE  \A k \in 0 .. n : k \in T
<1>. DEFINE Bad == {k \in 0 .. n : k \notin T}
<1>1. SUFFICES ASSUME Bad # {}  PROVE FALSE
  OBVIOUS
<1>2. Bad \subseteq Nat
  OBVIOUS
<1>3. PICK k \in Bad : \A m \in Bad : k <= m
  <2>. HIDE DEF Bad
  <2>. QED  BY Zenon, <1>1, <1>2, LeastNat
<1>4. k # 0 /\ k - 1 \in 0 .. n - 1
  OBVIOUS
<1>5. k - 1 \in T
  BY <1>3, <1>4
<1>. QED  BY <1>4, <1>5

(* The values a loop goes through: step[i] is what round i does.           *)
Iterates(F, a, step, n) == F[0] = a /\ \A i \in 1 .. n : F[i] = step[i][F[i - 1]]

(* A loop of total rounds has such values.                                 *)
LEMMA IterExists ==
  ASSUME NEW S, NEW a \in S, NEW n \in Nat, NEW step \in [1 .. n -> [S -> S]]
  PROVE  \E F \in [0 .. n -> S] : Iterates(F, a, step, n)
<1>. DEFINE Good == {k \in Nat : \E F \in [0 .. k -> S] : Iterates(F, a, step, k)}
<1>1. 0 \in Good
  <2>. DEFINE F == [i \in 0 .. 0 |-> a]
  <2>1. F \in [0 .. 0 -> S] /\ Iterates(F, a, step, 0)
    BY DEF Iterates
  <2>. QED  BY <2>1
<1>2. ASSUME NEW k \in 0 .. n - 1, k \in Good  PROVE k + 1 \in Good
  <2>1. k \in Nat /\ k + 1 \in Nat /\ k + 1 \in 1 .. n
    OBVIOUS
  <2>2. PICK F \in [0 .. k -> S] : Iterates(F, a, step, k)
    BY <1>2
  <2>. DEFINE G == [i \in 0 .. k + 1 |-> IF i = k + 1 THEN step[k + 1][F[k]] ELSE F[i]]
  <2>3. step[k + 1][F[k]] \in S
    BY <2>1, <2>2
  <2>4. G \in [0 .. k + 1 -> S]
    BY <2>1, <2>3
  <2>5. G[0] = a
    BY <2>1, <2>2 DEF Iterates
  <2>6. \A i \in 1 .. k + 1 : G[i] = step[i][G[i - 1]]
    BY <2>1, <2>2 DEF Iterates
  <2>. HIDE DEF G
  <2>7. Iterates(G, a, step, k + 1)
    BY <2>5, <2>6 DEF Iterates
  <2>. QED  BY <2>1, <2>4, <2>7
<1>. HIDE DEF Good
<1>3. \A k \in 0 .. n : k \in Good
  BY Zenon, <1>1, <1>2, UpTo
<1>4. n \in 0 .. n
  OBVIOUS
<1>. QED  BY <1>3, <1>4 DEF Good

(* The same round for ever.                                                *)
LEMMA ForEver ==
  ASSUME NEW S, NEW a \in S, NEW g \in [S -> S]
  PROVE  \E F \in [Nat -> S] : F[0] = a /\ \A n \in Nat : F[n + 1] = g[F[n]]
<1>. DEFINE step(n) == [i \in 1 .. n |-> g]
            Run(G, n) == G \in [0 .. n -> S] /\ Iterates(G, a, step(n), n)
            F == [n \in Nat |-> (CHOOSE G : Run(G, n))[n]]
<1>1. ASSUME NEW n \in Nat  PROVE \E G : Run(G, n)
  <2>1. step(n) \in [1 .. n -> [S -> S]]
    OBVIOUS
  <2>. HIDE DEF step
  <2>. QED  BY Zenon, <2>1, IterExists
<1>2. ASSUME NEW n \in Nat, NEW G, Run(G, n)
      PROVE  G \in [0 .. n -> S] /\ G[0] = a /\ \A i \in 1 .. n : G[i] = g[G[i - 1]]
  BY <1>2 DEF Iterates
<1>. HIDE DEF Run
<1>3. ASSUME NEW n \in Nat, NEW G, Run(G, n), NEW H, Run(H, n + 1)
      PROVE  G[n] = H[n]
  <2>. DEFINE T == {i \in 0 .. n : G[i] = H[i]}
  <2>1. n + 1 \in Nat /\ 0 \in T
    BY <1>2, <1>3
  <2>2. ASSUME NEW k \in 0 .. n - 1, k \in T  PROVE k + 1 \in T
    <3>1. k + 1 \in 1 .. n /\ k + 1 \in 1 .. n + 1 /\ (k + 1) - 1 = k /\ k + 1 \in 0 .. n
      OBVIOUS
    <3>2. G[k + 1] = g[G[k]]
      BY ZenonT(60), <1>2, <1>3, <3>1
    <3>3. H[k + 1] = g[H[k]]
      BY ZenonT(60), <1>2, <1>3, <2>1, <3>1
    <3>. QED  BY Zenon, <2>2, <3>1, <3>2, <3>3
  <2>. HIDE DEF T
  <2>3. n \in 0 .. n /\ \A k \in 0 .. n : k \in T
    BY <2>1, <2>2, UpTo
  <2>. QED  BY <2>3 DEF T
<1>4. ASSUME NEW n \in Nat  PROVE Run(CHOOSE G : Run(G, n), n)
  BY Zenon, <1>1
<1>5. F \in [Nat -> S]
  <2>. SUFFICES ASSUME NEW n \in Nat  PROVE (CHOOSE G : Run(G, n))[n] \in S
    OBVIOUS
  <2>1. n \in 0 .. n
    OBVIOUS
  <2>. QED  BY Zenon, <1>2, <1>4, <2>1
<1>6. F[0] = a
  BY Zenon, <1>2, <1>4, 0 \in Nat
<1>7. ASSUME NEW n \in Nat  PROVE F[n + 1] = g[F[n]]
  <2>. DEFINE G == CHOOSE K : Run(K, n)  H == CHOOSE K : Run(K, n + 1)
  <2>1. n + 1 \in Nat /\ n + 1 \in 1 .. n + 1 /\ (n + 1) - 1 = n
    OBVIOUS
  <2>2. Run(G, n) /\ Run(H, n + 1)
    BY Zenon, <1>4, <2>1
  <2>3. F[n] = G[n] /\ F[n + 1] = H[n + 1]
    BY Zenon, <2>1
  <2>. HIDE DEF G, H, F
  <2>4. H[n + 1] = g[H[n]]
    <3>1. \A i \in 1 .. n + 1 : H[i] = g[H[i - 1]]
      BY ZenonT(60), <1>2, <2>1, <2>2
    <3>. QED  BY Zenon, <2>1, <3>1
  <2>. QED  BY Zenon, <1>3, <2>2, <2>3, <2>4
<1>. HIDE DEF F
<1>. QED  BY Zenon, <1>5, <1>6, <1>7

-----------------------------------------------------------------------------
(* Division, and the digits of a number.                                   *)

(* A remainder and a quotient are determined by their sum.                 *)
LEMMA ModUnique ==
  ASSUME NEW n \in Nat \ {0}, NEW q \in Int, NEW r \in 0 .. n - 1
  PROVE  (q * n + r) % n = r /\ (q * n + r) \div n = q
  OBVIOUS

(* Quotient and remainder.                                                 *)
LEMMA ModSplit ==
  ASSUME NEW n \in Nat \ {0}, NEW x \in Int
  PROVE  /\ x % n \in 0 .. n - 1
         /\ x \div n \in Int
         /\ x = (x \div n) * n + (x % n)
  OBVIOUS

(* Dividing by m and then by n.                                            *)
LEMMA DivDiv ==
  ASSUME NEW m \in Nat \ {0}, NEW n \in Nat \ {0}, NEW x \in Int
  PROVE  /\ m * n \in Nat \ {0}
         /\ x \div (m * n) = (x \div m) \div n
         /\ x % (m * n) = ((x \div m) % n) * m + (x % m)
<1>. DEFINE y == x \div m  r == x % m  z == y \div n  s == y % n
<1>1. r \in 0 .. m - 1 /\ y \in Int /\ x = y * m + r
  BY ModSplit
<1>2. s \in 0 .. n - 1 /\ z \in Int /\ y = z * n + s
  BY <1>1, ModSplit
<1>. HIDE DEF y, r, z, s
<1>3. m * n \in Nat \ {0}
  OBVIOUS
<1>4. s * m + r \in 0 .. m * n - 1
  <2>1. s * m \in Nat /\ s * m <= (n - 1) * m
    BY <1>2
  <2>2. (n - 1) * m = m * n - m
    OBVIOUS
  <2>. QED  BY <1>1, <1>2, <1>3, <2>1, <2>2
<1>5. x = z * (m * n) + (s * m + r)
  <2>1. x = (z * n + s) * m + r
    BY <1>1, <1>2
  <2>. QED  BY <1>1, <1>2, <2>1
<1>6. (z * (m * n) + (s * m + r)) % (m * n) = s * m + r /\ (z * (m * n) + (s * m + r)) \div (m * n) = z
  BY Zenon, <1>2, <1>3, <1>4, ModUnique
<1>. QED  BY Zenon, <1>3, <1>5, <1>6 DEF y, r, z, s

(* The last three digits of v in base b.                                   *)
LEMMA ThreeDigits ==
  ASSUME NEW b \in Nat \ {0}, NEW v \in Int
  PROVE  /\ b * b * b \in Nat \ {0}
         /\ (v % b) + b * ((v \div b) % b) + b * b * ((v \div (b * b)) % b) = v % (b * b * b)
<1>1. /\ b * b \in Nat \ {0} /\ v % (b * b) = ((v \div b) % b) * b + (v % b)
  BY Zenon, DivDiv
<1>2. /\ b * b * b \in Nat \ {0}
      /\ v % (b * b * b) = ((v \div (b * b)) % b) * (b * b) + (v % (b * b))
  BY Zenon, <1>1, DivDiv
<1>3. v \div b \in Int /\ v \div (b * b) \in Int
  BY <1>1, ModSplit
<1>. DEFINE r0 == v % b  r1 == (v \div b) % b  r2 == (v \div (b * b)) % b
<1>4. r0 \in Int /\ r1 \in Int /\ r2 \in Int
  BY <1>3, ModSplit
<1>5. v % (b * b * b) = r2 * (b * b) + (r1 * b + r0)
  BY Zenon, <1>1, <1>2
<1>. HIDE DEF r0, r1, r2
<1>6. r2 * (b * b) + (r1 * b + r0) = r0 + b * r1 + b * b * r2
  BY <1>4
<1>. QED  BY Zenon, <1>2, <1>5, <1>6 DEF r0, r1, r2

(* The last four digits.                                                   *)
LEMMA FourDigits ==
  ASSUME NEW b \in Nat \ {0}, NEW v \in Int
  PROVE  /\ b * b * b * b \in Nat \ {0}
         /\ (v % b) + b * ((v \div b) % b) + b * b * ((v \div (b * b)) % b)
             + b * b * b * ((v \div (b * b * b)) % b) = v % (b * b * b * b)
<1>. DEFINE low == (v % b) + b * ((v \div b) % b) + b * b * ((v \div (b * b)) % b)
            r3 == (v \div (b * b * b)) % b
<1>1. b * b * b \in Nat \ {0} /\ low = v % (b * b * b)
  BY Zenon, ThreeDigits
<1>2. /\ b * b * b * b \in Nat \ {0}
      /\ v % (b * b * b * b) = r3 * (b * b * b) + (v % (b * b * b))
  BY Zenon, <1>1, DivDiv
<1>3. low \in Int /\ r3 \in Int
  BY <1>1, ModSplit
<1>. HIDE DEF low, r3
<1>4. v % (b * b * b * b) = r3 * (b * b * b) + low
  BY Zenon, <1>1, <1>2
<1>5. r3 * (b * b * b) + low = low + b * b * b * r3
  BY <1>3
<1>. QED  BY Zenon, <1>2, <1>4, <1>5 DEF low, r3

-----------------------------------------------------------------------------
(* Arithmetic facts about the table's index range.                         *)
LEMMA TableExtent ==
  ASSUME TypeOK
  PROVE  /\ Used \subseteq Slots /\ Used \subseteq Nat
         /\ \A t \in Slots : t \in Used <=> t < task_count
         /\ 0 \in Used /\ task_count \in Nat
<1>1. task_count \in 1 .. MaxTasks /\ MaxTasks \in Nat
  BY TaskAssumption DEF TypeOK
<1>2. task_count \in Nat /\ 1 <= task_count /\ task_count <= MaxTasks
  BY <1>1
<1>3. Used \subseteq Slots /\ Used \subseteq Nat /\ 0 \in Used
  BY <1>1, <1>2 DEF Used, Slots
<1>4. \A t \in Slots : t \in Used <=> t < task_count
  BY <1>1, <1>2 DEF Used, Slots
<1> QED
  BY <1>2, <1>3, <1>4

(* The table after task_init satisfies the invariant.                      *)
LEMMA InitIInv == Init => IInv
BY TaskAssumption DEF Init, IInv, TypeOK, OneRunning, Narrowing, Resumable, Slots, Used,
   States, StackPointers, Stages

-----------------------------------------------------------------------------

(* What create_task does to the invariant, whoever calls it: the new entry *)
(* is READY, on a stack that fits the stage.                               *)
LEMMA CreateKeeps ==
  ASSUME IInv, NEW caps \in SUBSET Caps, NEW dom \in Domains, NEW sp \in StackPointers,
         create_task(caps, dom, sp),
         state' = [state EXCEPT ![task_count] = "READY"],
         rr_cursor' = rr_cursor,
         current_task' \in {current_task, task_count}, stage' \in Stages,
         stage' = "tasks" => stage = "tasks" /\ sp # "top",
         stage' = "early" => stage = "early" /\ current_task' = current_task
  PROVE  IInv'
<1>1. /\ task_count \in Slots /\ task_count \notin Used /\ task_count \in Nat
      /\ task_count' = task_count + 1 /\ task_count' \in 1 .. MaxTasks
      /\ Used' = Used \union {task_count} /\ Used \subseteq Slots /\ Used \subseteq Nat
      /\ current_task \in Used /\ 0 \in Used
  <2>1. /\ task_count \in Nat /\ task_count < MaxTasks /\ task_count >= 1
        /\ task_count' = task_count + 1 /\ current_task \in Used
    BY TaskAssumption DEF IInv, TypeOK, create_task, MayCreate
  <2>2. Used' = 0 .. task_count
    BY <2>1 DEF Used
  <2> QED
    BY <2>1, <2>2, TaskAssumption DEF Slots, Used
<1>2. /\ next_task_id = task_count + 1 /\ next_task_id \in 1 .. MaxId
      /\ next_task_id' = next_task_id + 1 /\ next_task_id' \in 1 .. MaxId
      /\ next_task_id' = task_count' + 1
  BY <1>1, TaskAssumption DEF IInv, create_task, allocate_task_id
<1>3. TypeOK'
  <2>1. task_id' \in [Slots -> 0 .. MaxId]
    <3>1. next_task_id \in 0 .. MaxId
      BY <1>2, TaskAssumption
    <3> QED
      BY Zenon, <3>1 DEF IInv, TypeOK, create_task
  <2>2. state' \in [Slots -> States] /\ domain' \in [Slots -> Domains]
    BY Zenon DEF IInv, TypeOK, create_task, States
  <2>3. cap_mask' \in [Slots -> SUBSET Caps]
    BY Zenon DEF IInv, TypeOK, create_task, EffectiveCaps
  <2>4. parent' \in [Slots -> Slots] /\ saved_sp' \in [Slots -> StackPointers]
    BY <1>1 DEF IInv, TypeOK, create_task
  <2>5. current_task' \in Used' /\ rr_cursor' \in Used'
    BY <1>1 DEF IInv, TypeOK
  <2> QED
    BY <1>1, <1>2, <2>1, <2>2, <2>3, <2>4, <2>5 DEF TypeOK
<1>4. /\ \A t \in Used : /\ state'[t] = state[t] /\ task_id'[t] = task_id[t]
                         /\ cap_mask'[t] = cap_mask[t] /\ domain'[t] = domain[t]
                         /\ parent'[t] = parent[t] /\ saved_sp'[t] = saved_sp[t]
      /\ state'[task_count] = "READY" /\ task_id'[task_count] = next_task_id
      /\ cap_mask'[task_count] = caps \intersect cap_mask[current_task]
      /\ domain'[task_count] = dom /\ parent'[task_count] = current_task
      /\ saved_sp'[task_count] = sp
  BY <1>1 DEF IInv, TypeOK, create_task, EffectiveCaps
<1>5. OneRunning'
  <2>1. \A t \in Used' : state'[t] = "RUNNING" => t \in Used /\ state[t] = "RUNNING"
    BY <1>1, <1>4
  <2>2. OneRunning
    BY DEF IInv
  <2> QED
    BY <2>1, <2>2 DEF OneRunning
<1>6. Narrowing'
  <2>1. ASSUME NEW t \in Used \ {0}
        PROVE  /\ parent'[t] < t /\ cap_mask'[t] \subseteq cap_mask'[parent'[t]]
               /\ domain'[t] # domain'[parent'[t]] => CrossDomain \in cap_mask'[parent'[t]]
    <3>1. parent[t] \in Used
      <4>1. parent[t] < t /\ parent[t] \in Nat /\ t \in Nat /\ t < task_count
        <5>1. t \in Slots /\ parent[t] \in Slots /\ parent[t] < t
          BY <1>1, <2>1 DEF IInv, Narrowing, TypeOK
        <5>2. Slots \subseteq Nat /\ t \in Nat /\ t < task_count
          BY <1>1, <2>1, TaskAssumption DEF Slots, Used
        <5> QED
          BY Zenon, <5>1, <5>2
      <4> QED
        BY <1>1, <4>1 DEF Used
    <3> QED
      BY <1>4, <3>1 DEF IInv, Narrowing
  <2>2. /\ parent'[task_count] < task_count
        /\ cap_mask'[task_count] \subseteq cap_mask'[parent'[task_count]]
        /\ domain'[task_count] # domain'[parent'[task_count]] =>
             CrossDomain \in cap_mask'[parent'[task_count]]
    BY <1>1, <1>4 DEF create_task, MayCreate, Used
  <2> QED
    BY <1>1, <2>1, <2>2 DEF Narrowing
<1>7. Resumable'
  BY ZenonT(60), <1>1, <1>4 DEF IInv, Resumable
<1>8. \A t \in Slots : t < task_count' <=> state'[t] # "unused"
  <2>1. \A t \in Slots : t < task_count' <=> t < task_count \/ t = task_count
    BY <1>1, TaskAssumption DEF Slots
  <2>2. \A t \in Slots : state'[t] = IF t = task_count THEN "READY" ELSE state[t]
    BY DEF IInv, TypeOK
  <2> QED
    BY <2>1, <2>2 DEF IInv
<1>9. \A t \in Used' : task_id'[t] = t + 1
  BY ZenonT(60), <1>1, <1>2, <1>4 DEF IInv
<1>10. stage' = "early" => current_task' = 0 /\ saved_sp'[0] # "top"
  BY Zenon, <1>1, <1>4 DEF IInv
<1> QED
  BY <1>2, <1>3, <1>5, <1>6, <1>7, <1>8, <1>9, <1>10 DEF IInv

(* Steps that only move states and stacks about.                           *)
LEMMA ScheduleKeeps ==
  ASSUME IInv, UNCHANGED table, stage' = stage \/ (stage = "early" /\ stage' = "tasks"),
         state' \in [Slots -> States], saved_sp' \in [Slots -> StackPointers],
         current_task' \in Used, rr_cursor' \in Used,
         OneRunning', Resumable',
         \A t \in Slots : state'[t] = "unused" <=> state[t] = "unused",
         stage = "early" => current_task' = current_task /\ saved_sp' = saved_sp
  PROVE  IInv'
<1>1. Used' = Used /\ TypeOK'
  BY DEF table, IInv, TypeOK, Used, Stages
<1>2. Narrowing'
  BY Zenon, <1>1 DEF table, IInv, Narrowing
<1> QED
  BY <1>1, <1>2 DEF table, IInv

(* rr_schedule leaves at most its choice RUNNING, picks only among         *)
(* schedulable tasks, and keeps everybody else as schedulable as before.   *)
LEMMA ScheduleStep ==
  ASSUME IInv, NEW next \in Slots \union {None}, rr_schedule(next)
  PROVE  /\ state' \in [Slots -> States] /\ rr_cursor' \in Used
         /\ \A t, u \in Used : state'[t] = "RUNNING" /\ state'[u] = "RUNNING" => t = u
         /\ \A t \in Slots : state'[t] = "unused" <=> state[t] = "unused"
         /\ \A t \in Slots : state'[t] = "TERMINATED" <=> state[t] = "TERMINATED"
         /\ next # None => next \in Used /\ state[next] \in {"READY", "RUNNING"}
<1>1. CASE Candidates = {} /\ next = None /\ UNCHANGED <<state, rr_cursor>>
  BY <1>1 DEF IInv, TypeOK, OneRunning
<1>2. CASE /\ next \in Candidates
           /\ state' = Scheduled(next) /\ rr_cursor' = next
  <2>1. next \in Used /\ next \in Slots /\ state[next] \in {"READY", "RUNNING"}
    BY <1>2, TableExtent DEF Candidates, IInv
  <2>2. \A t \in Slots : state'[t] = IF t = next THEN "RUNNING"
                          ELSE IF state[t] = "RUNNING" THEN "READY" ELSE state[t]
    BY <1>2 DEF Scheduled
  <2>3. state' \in [Slots -> States]
    BY <1>2 DEF Scheduled, IInv, TypeOK, States
  <2>4. Used \subseteq Slots
    BY TableExtent DEF IInv
  <2> QED
    BY <1>2, <2>1, <2>2, <2>3, <2>4
<1> QED
  BY <1>1, <1>2 DEF rr_schedule

(* task_yield switches only to a task with something to resume.            *)
LEMMA YieldKeeps == ASSUME IInv, task_yield PROVE IInv'
<1>1. PICK next \in Slots \union {None} :
        /\ rr_schedule(next)
        /\ \/ UNCHANGED <<saved_sp, current_task>>
           \/ /\ next \notin {None, current_task} /\ saved_sp[next] # "zero"
              /\ context_switch(next)
  BY DEF task_yield
<1>2. stage = "tasks" /\ UNCHANGED <<table, stage>>
  BY DEF task_yield
<1>3. Used' = Used /\ Used \subseteq Slots
  BY <1>2, TableExtent DEF table, Used, IInv
<1>4. current_task' \in Used /\ saved_sp' \in [Slots -> StackPointers]
      /\ \A t \in Slots : saved_sp'[t] \in {saved_sp[t], "saved"}
  BY ZenonT(60), <1>1, ScheduleStep DEF context_switch, IInv, TypeOK, StackPointers
<1>5. OneRunning'
  BY <1>1, <1>3, ScheduleStep DEF OneRunning
<1>6. ASSUME NEW t \in Used, state'[t] \in {"READY", "RUNNING"} PROVE saved_sp'[t] # "top"
  <2>1. state'[t] # "unused" /\ state'[t] # "TERMINATED" /\ t \in Slots
    BY <1>3, <1>6
  <2>2. state[t] # "unused" /\ state[t] # "TERMINATED"
    BY <1>1, <2>1, ScheduleStep
  <2>3. state[t] \in {"READY", "RUNNING"}
    BY <2>1, <2>2 DEF IInv, TypeOK, States
  <2> QED
    BY <1>2, <1>4, <2>1, <2>3 DEF IInv, Resumable
<1>7. Resumable'
  BY <1>3, <1>6 DEF Resumable
<1> QED
  BY <1>1, <1>2, <1>4, <1>5, <1>7, ScheduleStep, ScheduleKeeps

(* Every step keeps the invariant.                                         *)
LEMMA StepIInv == IInv /\ [Next]_vars => IInv'
<1> SUFFICES ASSUME IInv, [Next]_vars PROVE IInv'
  OBVIOUS
<1>1. /\ \A n \in Slots \union {task_count} : assign_kernel_stack(n) \in {"zero", "top"}
      /\ {"zero", "top", "frame"} \subseteq StackPointers /\ InitCaps \in SUBSET Caps
      /\ Root \in Domains
  BY TaskAssumption DEF assign_kernel_stack, StackPointers
<1>2. TypeOK /\ Used \subseteq Slots
  BY TableExtent DEF IInv
<1>3. ASSUME NEW caps \in SUBSET Caps, NEW dom \in Domains, CreateEarly(caps, dom)
      PROVE  IInv'
  <2>1. assign_kernel_stack(task_count) \in StackPointers
    BY <1>1
  <2> QED
    BY <1>3, <2>1, CreateKeeps DEF CreateEarly, Stages
<1>4. ASSUME NEW caps \in SUBSET Caps, NEW dom \in Domains, Spawn(caps, dom) PROVE IInv'
  <2> DEFINE sp == IF assign_kernel_stack(task_count) = "zero" THEN "zero" ELSE "frame"
  <2>1. sp \in StackPointers /\ sp # "top"
    BY DEF StackPointers
  <2>2. create_task(caps, dom, sp)
    BY <1>4 DEF Spawn
  <2> HIDE DEF sp
  <2> QED
    BY <1>4, <2>1, <2>2, CreateKeeps DEF Spawn, Stages
<1>5. ASSUME NEW caps \in SUBSET Caps, NEW dom \in Domains, SYS_CREATE_TASK(caps, dom)
      PROVE  IInv'
  <2>1. assign_kernel_stack(task_count) \in StackPointers
    BY <1>1
  <2> QED
    BY <1>5, <2>1, CreateKeeps DEF SYS_CREATE_TASK, InUser, Stages
<1>6. ASSUME NEW s \in {"user", "idle"}, EnterUser(s) PROVE IInv'
  <2>1. assign_kernel_stack(task_count) \in StackPointers
    BY <1>1
  <2> QED
    BY <1>1, <1>6, <2>1, CreateKeeps DEF EnterUser, Stages
<1>7. CASE Park
  <2>1. current_task = 0 /\ saved_sp[0] # "top" /\ UNCHANGED <<table, saved_sp, current_task>>
    BY <1>7 DEF Park, IInv
  <2>2. \A t \in Slots : state'[t] = IF t \in Used \ {0} THEN "TERMINATED" ELSE state[t]
    BY <1>7, <2>1 DEF Park
  <2>3. state' \in [Slots -> States] /\ Used' = Used
    BY <1>2, <1>7, <2>1 DEF Park, TypeOK, States, table, Used
  <2>4. \A t \in Slots : state'[t] = "unused" <=> state[t] = "unused"
    BY <2>2, TableExtent DEF IInv
  <2>5. OneRunning' /\ Resumable'
    BY <1>2, <2>1, <2>2, <2>3 DEF OneRunning, Resumable
  <2> QED
    BY <1>2, <1>7, <2>1, <2>3, <2>4, <2>5, ScheduleKeeps DEF Park, TypeOK
<1>8. CASE task_yield
  BY <1>8, YieldKeeps
<1>9. CASE Finish \/ SYS_EXIT
  <2>1. /\ state' = [state EXCEPT ![current_task] = "TERMINATED"] /\ current_task \in Used
        /\ UNCHANGED <<table, saved_sp, current_task, rr_cursor, stage>>
    BY <1>2, <1>9 DEF Finish, SYS_EXIT, TypeOK
  <2>2. state' \in [Slots -> States] /\ Used' = Used
    BY <1>2, <2>1 DEF TypeOK, States, table, Used
  <2>3. \A t \in Slots : state'[t] = "unused" <=> state[t] = "unused"
    BY Zenon, <1>2, <2>1, TableExtent DEF IInv, TypeOK
  <2>4. OneRunning' /\ Resumable'
    BY ZenonT(60), <1>2, <2>1, <2>2 DEF IInv, TypeOK, OneRunning, Resumable
  <2> QED
    BY <1>2, <2>1, <2>2, <2>3, <2>4, ScheduleKeeps DEF TypeOK
<1>10. CASE SYS_YIELD \/ process_events
  <2>1. PICK next \in Slots \union {None} : rr_schedule(next)
    BY <1>10 DEF SYS_YIELD, process_events
  <2>2. stage \in {"user", "idle"} /\ UNCHANGED <<table, saved_sp, current_task, stage>>
    BY <1>10 DEF SYS_YIELD, process_events, InUser
  <2>3. Used' = Used
    BY <2>2 DEF table, Used
  <2>4. OneRunning' /\ Resumable'
    BY Zenon, <2>1, <2>2, <2>3, ScheduleStep DEF OneRunning, Resumable
  <2> QED
    BY Zenon, <1>2, <2>1, <2>2, <2>4, ScheduleStep, ScheduleKeeps DEF TypeOK
<1>11. CASE UNCHANGED vars
  BY Zenon, <1>11 DEF vars, IInv, TypeOK, OneRunning, Narrowing, Resumable, Used
<1> QED
  BY <1>3, <1>4, <1>5, <1>6, <1>7, <1>8, <1>9, <1>10, <1>11 DEF Next

-----------------------------------------------------------------------------
(* The theorems.                                                           *)

(* The inductive invariant holds throughout.                               *)
THEOREM Invariance == Spec => []IInv
<1>1. Init => IInv
  BY InitIInv
<1>2. IInv /\ [Next]_vars => IInv'
  BY StepIInv
<1> QED
  BY <1>1, <1>2, PTL DEF Spec

(* Type correctness: the cursor and current_task stay inside the table.    *)
THEOREM TypeCorrect == Spec => []TypeOK
<1>1. IInv => TypeOK
  BY DEF IInv
<1> QED
  BY <1>1, Invariance, PTL

(* The scheduler never leaves two tasks RUNNING.                           *)
THEOREM AtMostOneRuns == Spec => []OneRunning
<1>1. IInv => OneRunning
  BY DEF IInv
<1> QED
  BY <1>1, Invariance, PTL

(* Capabilities narrow along every lineage.                                *)
THEOREM CapabilitiesNarrow == Spec => []Narrowing
<1>1. IInv => Narrowing
  BY DEF IInv
<1> QED
  BY <1>1, Invariance, PTL

(* task_yield never resumes an empty stack.                                *)
THEOREM SwitchTargetsResume == Spec => []Resumable
<1>1. IInv => Resumable
  BY DEF IInv
<1> QED
  BY <1>1, Invariance, PTL

(* Task ids identify tasks.                                                *)
THEOREM IdsAreUnique == Spec => []UniqueIds
<1>1. IInv => UniqueIds
  <2> SUFFICES ASSUME IInv PROVE UniqueIds
    OBVIOUS
  <2>1. Used \subseteq Nat /\ \A t \in Used : task_id[t] = t + 1
    BY Zenon, TableExtent DEF IInv
  <2> QED
    BY <2>1 DEF UniqueIds
<1> QED
  BY <1>1, Invariance, PTL

(* Termination is permanent.                                               *)
THEOREM NoResurrection == Spec => TerminatedIsFinal
<1> DEFINE Final == \A t \in Slots : state[t] = "TERMINATED" => state'[t] = "TERMINATED"
<1>1. IInv /\ [Next]_vars => Final
  <2> SUFFICES ASSUME IInv, [Next]_vars PROVE Final
    OBVIOUS
  <2>1. ASSUME NEW next \in Slots \union {None}, rr_schedule(next) PROVE Final
    BY <2>1, ScheduleStep
  <2>2. ASSUME NEW caps, NEW dom, NEW sp, create_task(caps, dom, sp),
               state' = [state EXCEPT ![task_count] = "READY"]
        PROVE  Final
    <3>1. task_count \in Slots /\ state[task_count] = "unused"
      BY <2>2, TaskAssumption DEF create_task, MayCreate, IInv, TypeOK, Slots
    <3> QED
      BY Zenon, <2>2, <3>1 DEF IInv, TypeOK
  <2>3. ASSUME state' = [state EXCEPT ![current_task] = "TERMINATED"] PROVE Final
    BY Zenon, <2>3 DEF IInv, TypeOK
  <2>4. CASE Park
    BY <2>4 DEF Park
  <2>5. CASE UNCHANGED vars
    BY <2>5 DEF vars
  <2> QED
    BY Zenon, <2>1, <2>2, <2>3, <2>4, <2>5 DEF Next, CreateEarly, Spawn, SYS_CREATE_TASK, task_yield,
       Finish, EnterUser, SYS_YIELD, SYS_EXIT, process_events
<1> QED
  BY <1>1, Invariance, PTL DEF Spec, TerminatedIsFinal

-----------------------------------------------------------------------------
(* The records about tasks.                                                *)

LEMMA Widths ==
  /\ Byte \in Nat \ {0} /\ Byte >= 4
  /\ Byte * Byte \in Nat \ {0} /\ Byte * Byte * Byte \in Nat \ {0}
  /\ Word \in Nat \ {0} /\ Word >= 256
<1>1. Nibble \in Nat /\ Nibble >= 2 /\ Byte = Nibble * Nibble
  BY RecordsAssumption
<1>2. Byte \in Nat /\ Byte >= 4
  BY <1>1
<1>3. Byte * Byte \in Nat /\ Byte * Byte >= 16
  BY <1>2
<1>4. Byte * Byte * Byte \in Nat /\ Byte * Byte * Byte >= 64
  <2>1. Byte * Byte * Byte = (Byte * Byte) * Byte
    OBVIOUS
  <2>. DEFINE q == Byte * Byte
  <2>. HIDE DEF q
  <2>2. q * Byte >= 64 /\ q * Byte \in Nat
    BY <1>2, <1>3 DEF q
  <2>. QED  BY <2>2 DEF q
<1>5. Word \in Nat /\ Word >= 256
  <2>. DEFINE q == Byte * Byte * Byte
  <2>1. q \in Nat /\ q >= 64
    BY <1>4
  <2>. HIDE DEF q
  <2>2. q * Byte >= 256 /\ q * Byte \in Nat
    BY <1>2, <2>1
  <2>. QED  BY <2>2 DEF q, Word
<1>. QED  BY <1>2, <1>3, <1>4, <1>5

(* Four bytes of a word, read back: the value as far as a word holds it.   *)
LEMMA BytesOfWord ==
  ASSUME NEW v \in Int
  PROVE  ByteOf(v, 0) + Byte * ByteOf(v, 1) + Byte * Byte * ByteOf(v, 2)
           + Byte * Byte * Byte * ByteOf(v, 3) = v % Word
<1>1. /\ ByteOf(v, 0) = v % Byte /\ ByteOf(v, 1) = (v \div Byte) % Byte
      /\ ByteOf(v, 2) = (v \div (Byte * Byte)) % Byte
      /\ ByteOf(v, 3) = (v \div (Byte * Byte * Byte)) % Byte
  BY DEF ByteOf, Weights
<1>. QED  BY Zenon, <1>1, Widths, FourDigits DEF Word

LEMMA WordsRead ==
  ASSUME NEW vals, \A i \in 1 .. 4 : vals[i] \in Int
  PROVE  /\ unpack_le32(Packed(vals), 0) = vals[1] % Word
         /\ unpack_le32(Packed(vals), 4) = vals[2] % Word
         /\ unpack_le32(Packed(vals), 8) = vals[3] % Word
         /\ unpack_le32(Packed(vals), 12) = vals[4] % Word
<1>. DEFINE hash == Packed(vals)
<1>1. /\ hash[0] = ByteOf(vals[1], 0) /\ hash[1] = ByteOf(vals[1], 1)
      /\ hash[2] = ByteOf(vals[1], 2) /\ hash[3] = ByteOf(vals[1], 3)
  BY DEF Packed
<1>2. /\ hash[4] = ByteOf(vals[2], 0) /\ hash[5] = ByteOf(vals[2], 1)
      /\ hash[6] = ByteOf(vals[2], 2) /\ hash[7] = ByteOf(vals[2], 3)
  BY DEF Packed
<1>3. /\ hash[8] = ByteOf(vals[3], 0) /\ hash[9] = ByteOf(vals[3], 1)
      /\ hash[10] = ByteOf(vals[3], 2) /\ hash[11] = ByteOf(vals[3], 3)
  BY DEF Packed
<1>4. /\ hash[12] = ByteOf(vals[4], 0) /\ hash[13] = ByteOf(vals[4], 1)
      /\ hash[14] = ByteOf(vals[4], 2) /\ hash[15] = ByteOf(vals[4], 3)
  BY DEF Packed
<1>. HIDE DEF hash
<1>5. /\ unpack_le32(hash, 0) = hash[0] + Byte * hash[1] + Byte * Byte * hash[2]
                                  + Byte * Byte * Byte * hash[3]
      /\ unpack_le32(hash, 4) = hash[4] + Byte * hash[5] + Byte * Byte * hash[6]
                                  + Byte * Byte * Byte * hash[7]
      /\ unpack_le32(hash, 8) = hash[8] + Byte * hash[9] + Byte * Byte * hash[10]
                                  + Byte * Byte * Byte * hash[11]
      /\ unpack_le32(hash, 12) = hash[12] + Byte * hash[13] + Byte * Byte * hash[14]
                                   + Byte * Byte * Byte * hash[15]
  BY DEF unpack_le32
<1>6. vals[1] \in Int /\ vals[2] \in Int /\ vals[3] \in Int /\ vals[4] \in Int
  OBVIOUS
<1>. QED  BY ZenonT(60), <1>1, <1>2, <1>3, <1>4, <1>5, <1>6, BytesOfWord DEF hash

LEMMA FitsWord ==
  /\ \A v \in 0 .. Word - 1 : v % Word = v
  /\ (-1) % Word = Word - 1
<1>1. \A v \in 0 .. Word - 1 : v % Word = v
  <2>. SUFFICES ASSUME NEW v \in 0 .. Word - 1  PROVE v % Word = v
    OBVIOUS
  <2>1. (0 * Word + v) % Word = v
    BY Widths, ModUnique
  <2>. QED  BY <2>1, Widths
<1>2. (-1) % Word = Word - 1
  <2>1. ((-1) * Word + (Word - 1)) % Word = Word - 1
    BY Widths, ModUnique
  <2>2. (-1) * Word + (Word - 1) = -1
    BY Widths
  <2>. QED  BY Zenon, <2>1, <2>2
<1>. QED  BY <1>1, <1>2

LEMMA TaskRead ==
  ASSUME NEW t, task_id[t] \in 0 .. Word - 1, parent_task_id(t) \in 0 .. Word - 1,
         CapWord(cap_mask[t]) \in 0 .. Word - 1, domain[t] \in 0 .. Word - 1
  PROVE  LET k == ReadTask(TaskCreated(t))
         IN  /\ k.task_id = task_id[t] /\ k.parent = parent_task_id(t)
             /\ k.cap_mask = CapWord(cap_mask[t]) /\ k.domain = domain[t]
<1>. DEFINE vals == <<CapWord(cap_mask[t]), domain[t], 0, 0>>
            k == ReadTask(TaskCreated(t))
<1>1. /\ k.task_id = task_id[t] % Word /\ k.parent = parent_task_id(t) % Word
      /\ k.cap_mask = unpack_le32(Packed(vals), 0) /\ k.domain = unpack_le32(Packed(vals), 4)
  BY Zenon DEF ReadTask, TaskCreated, emit_task_create_record, Record
<1>2. (\A i \in 1 .. 4 : vals[i] \in Int) /\ vals[1] = CapWord(cap_mask[t]) /\ vals[2] = domain[t]
  BY Widths
<1>. HIDE DEF vals, k
<1>3. k.cap_mask = CapWord(cap_mask[t]) % Word /\ k.domain = domain[t] % Word
  BY Zenon, <1>1, <1>2, WordsRead
<1>. QED  BY Zenon, <1>1, <1>3, FitsWord DEF k

(* What a signed word says of a code that fits it.                         *)
LEMMA SignedRead ==
  /\ \A code \in Codes : code \in Int /\ Signed(code % Word) = code
  /\ \A rv \in Results : rv \in Int /\ Signed(rv % Word) = rv
<1>1. /\ Word \in Nat /\ Word >= 256 /\ (Word \div 2) \in Nat /\ Word \div 2 >= 1
      /\ Word \div 2 < Word /\ Word \div 2 <= Word - 1 /\ 0 \in 0 .. Word - 1
      /\ (Word \div 2) - 1 \in 0 .. Word - 1
  BY Widths
<1>2. 0 % Word = 0 /\ ((Word \div 2) - 1) % Word = (Word \div 2) - 1 /\ (-1) % Word = Word - 1
  BY Zenon, <1>1, FitsWord
<1>3. Signed(0) = 0 /\ Signed((Word \div 2) - 1) = (Word \div 2) - 1 /\ Signed(Word - 1) = -1
  BY <1>1 DEF Signed
<1>4. Signed(0 % Word) = 0 /\ Signed((-1) % Word) = -1
      /\ Signed(((Word \div 2) - 1) % Word) = (Word \div 2) - 1
  BY Zenon, <1>2, <1>3
<1>5. 0 \in Int /\ -1 \in Int /\ (Word \div 2) - 1 \in Int
  BY <1>1
<1>. QED  BY Zenon, <1>4, <1>5 DEF Codes, Results

LEMMA ExitRead ==
  ASSUME NEW id \in 0 .. Word - 1, NEW code \in Codes
  PROVE  LET e == ReadExit(emit_task_exit_record(id, code))
         IN  e.task_id = id /\ e.exit_code = code
<1>. DEFINE e == ReadExit(emit_task_exit_record(id, code))
<1>1. e.task_id = id % Word /\ e.exit_code = Signed(code % Word)
  BY Zenon DEF ReadExit, emit_task_exit_record, Record
<1>. HIDE DEF e
<1>. QED  BY Zenon, <1>1, FitsWord, SignedRead DEF e

LEMMA WorkflowRead ==
  ASSUME NEW task, NEW id \in 0 .. Word - 1, NEW rv \in Results
  PROVE  LET w == ReadWorkflow(emit_workflow_record(task, Word + id, id, Byte - 1, 1, 0, rv, 2))
         IN  w.owner = id /\ w.id = Word + id /\ w.step = Byte - 1 /\ w.done = 0 /\ w.rv = rv
<1>. DEFINE vals == <<id, 1, 0, rv>>
            w == ReadWorkflow(emit_workflow_record(task, Word + id, id, Byte - 1, 1, 0, rv, 2))
<1>1. /\ w.id = (((Word + id) \div Word) % Word) * Word + (((Word + id) % Word) % Word)
      /\ w.step = Low(Byte - 1)
      /\ w.owner = unpack_le32(Packed(vals), 0) /\ w.done = unpack_le32(Packed(vals), 8)
      /\ w.rv = Signed(unpack_le32(Packed(vals), 12))
  BY Zenon DEF ReadWorkflow, emit_workflow_record, Record
<1>2. /\ \A i \in 1 .. 4 : vals[i] \in Int
      /\ vals[1] = id /\ vals[3] = 0 /\ vals[4] = rv
  BY Widths, SignedRead
<1>. HIDE DEF vals, w
<1>3. w.owner = id % Word /\ w.done = 0 % Word /\ w.rv = Signed(rv % Word)
  BY Zenon, <1>1, <1>2, WordsRead
<1>4. 0 \in 0 .. Word - 1 /\ 1 \in 0 .. Word - 1
  BY Widths
<1>5. w.owner = id /\ w.done = 0 /\ w.rv = rv
  BY Zenon, <1>1, <1>3, <1>4, FitsWord, SignedRead
<1>6. (Word + id) \div Word = 1 /\ (Word + id) % Word = id
  <2>1. (1 * Word + id) % Word = id /\ (1 * Word + id) \div Word = 1
    BY Widths, ModUnique
  <2>. QED  BY <2>1, Widths
<1>7. w.id = 1 * Word + id
  BY Zenon, <1>1, <1>4, <1>6, FitsWord
<1>8. (Byte - 1) % Byte = Byte - 1
  <2>1. 0 \in Int /\ Byte - 1 \in 0 .. Byte - 1
    BY Widths
  <2>2. (0 * Byte + (Byte - 1)) % Byte = Byte - 1
    BY Zenon, <2>1, Widths, ModUnique
  <2>. QED  BY <2>2, Widths
<1>9. 1 * Word = Word
  BY Widths
<1>. QED  BY Zenon, <1>1, <1>5, <1>7, <1>8, <1>9 DEF Low, w

(* The ids of the table are words and name one slot each.                  *)
LEMMA NamesOne ==
  ASSUME IInv
  PROVE  /\ \A t \in Used : task_id[t] \in 0 .. Word - 1 /\ Named(task_id[t]) = {t}
         /\ Named(TASK_PARENT_NONE) = {}
<1>1. /\ Used \subseteq Nat /\ \A t \in Used : task_id[t] = t + 1 /\ t + 1 <= MaxTasks
  BY TableExtent, TaskAssumption DEF IInv, TypeOK, Used
<1>2. MaxTasks \in Nat /\ MaxTasks < Word - 1 /\ Word \in Nat
  BY TaskAssumption, WidthAssumption, Widths
<1>3. \A t \in Used : task_id[t] \in 0 .. Word - 1 /\ task_id[t] # Word - 1
  BY <1>1, <1>2
<1>4. \A t, u \in Used : task_id[t] = task_id[u] => t = u
  BY <1>1
<1>. QED  BY Zenon, <1>3, <1>4 DEF Named, TASK_PARENT_NONE

LEMMA RecordsTell == IInv => ReaderKnowsTasks
<1>. SUFFICES ASSUME IInv  PROVE ReaderKnowsTasks
  OBVIOUS
<1>1. current_task \in Used /\ 0 \in Used /\ Used \subseteq Slots
  BY Zenon, TableExtent DEF IInv, TypeOK
<1>2. ASSUME NEW t \in Used
      PROVE  LET k == ReadTask(TaskCreated(t)) IN
             /\ Named(k.task_id) = {t}
             /\ k.domain = domain[t] /\ k.cap_mask = CapWord(cap_mask[t])
             /\ IF t = 0 THEN Named(k.parent) = {}
                ELSE Named(k.parent) = {parent[t]} /\ parent[t] < t
  <2>. DEFINE k == ReadTask(TaskCreated(t))
  <2>1. task_id[t] \in 0 .. Word - 1 /\ domain[t] \in 0 .. Word - 1
    BY Zenon, <1>1, NamesOne, WidthAssumption DEF IInv, TypeOK
  <2>2. CapWord(cap_mask[t]) \in 0 .. Word - 1
    BY Widths DEF CapWord
  <2>3. t # 0 => parent[t] < t /\ parent[t] \in Used
    <3>. SUFFICES ASSUME t # 0  PROVE parent[t] < t /\ parent[t] \in Used
      OBVIOUS
    <3>1. parent[t] < t /\ parent[t] \in Slots /\ t \in Slots
      BY Zenon, <1>1 DEF IInv, TypeOK, Narrowing
    <3>. QED  BY <3>1, TaskAssumption DEF Slots, Used, IInv, TypeOK
  <2>4. parent_task_id(t) \in 0 .. Word - 1
    <3>1. Word - 1 \in 0 .. Word - 1
      BY Widths
    <3>. QED  BY Zenon, <2>3, <3>1, NamesOne DEF parent_task_id, TASK_PARENT_NONE
  <2>5. /\ k.task_id = task_id[t] /\ k.parent = parent_task_id(t)
        /\ k.cap_mask = CapWord(cap_mask[t]) /\ k.domain = domain[t]
    BY Zenon, <2>1, <2>2, <2>4, TaskRead
  <2>. HIDE DEF k
  <2>. QED  BY Zenon, <2>3, <2>5, NamesOne DEF parent_task_id, k
<1>. DEFINE id == task_id[current_task]
            task == [task_id |-> id, domain |-> domain[current_task]]
<1>3. id \in 0 .. Word - 1 /\ Named(id) = {current_task}
  BY Zenon, <1>1, NamesOne
<1>4. \A code \in Codes :
        LET e == ReadExit(emit_task_exit_record(id, code))
        IN  Named(e.task_id) = {current_task} /\ e.exit_code = code
  <2>. HIDE DEF id
  <2>. QED  BY Zenon, <1>3, ExitRead
<1>5. \A rv \in Results :
        LET w == ReadWorkflow(emit_workflow_record(task, Word + id, id, Byte - 1, 1, 0, rv, 2))
        IN  /\ Named(w.owner) = {current_task}
            /\ w.id = Word + id /\ w.step = Byte - 1 /\ w.done = 0 /\ w.rv = rv
  <2>. HIDE DEF id, task
  <2>1. ASSUME NEW rv \in Results
        PROVE  LET w == ReadWorkflow(
                          emit_workflow_record(task, Word + id, id, Byte - 1, 1, 0, rv, 2))
               IN  /\ w.owner = id
                   /\ w.id = Word + id /\ w.step = Byte - 1 /\ w.done = 0 /\ w.rv = rv
    BY <1>3, WorkflowRead
  <2>. QED  BY Zenon, <1>3, <2>1
<1>6. \A t \in Used :
        LET k == ReadTask(TaskCreated(t)) IN
        /\ Named(k.task_id) = {t}
        /\ k.domain = domain[t] /\ k.cap_mask = CapWord(cap_mask[t])
        /\ IF t = 0 THEN Named(k.parent) = {}
           ELSE Named(k.parent) = {parent[t]} /\ parent[t] < t
  BY Zenon, <1>2
<1>. QED  BY Zenon, <1>4, <1>5, <1>6 DEF ReaderKnowsTasks

(* Whatever table the calls have built, the reader of the records has its  *)
(* tree of tasks, with every field at its full width.                      *)
THEOREM RecordsAreRead == Spec => []ReaderKnowsTasks
BY RecordsTell, Invariance, PTL

-----------------------------------------------------------------------------
(* Lineages.                                                               *)

LEMMA AncestorsAre ==
  ASSUME NEW p \in [Slots -> Slots], NEW t \in Slots
  PROVE  /\ Ancestors(p, t)[0] = t
         /\ \A n \in Nat : Ancestors(p, t)[n + 1] = p[Ancestors(p, t)[n]]
<1>. DEFINE Up(f) == f = [n \in Nat |-> IF n = 0 THEN t ELSE p[f[n - 1]]]
            line == Ancestors(p, t)
<1>1. PICK F \in [Nat -> Slots] : F[0] = t /\ \A n \in Nat : F[n + 1] = p[F[n]]
  BY SMTT(60), ForEver
<1>2. Up(F)
  <2>. SUFFICES ASSUME NEW n \in Nat  PROVE F[n] = IF n = 0 THEN t ELSE p[F[n - 1]]
    BY Zenon
  <2>1. CASE n = 0
    BY Zenon, <1>1, <2>1
  <2>2. CASE n # 0
    <3>1. n - 1 \in Nat /\ (n - 1) + 1 = n
      BY <2>2
    <3>. QED  BY Zenon, <1>1, <2>2, <3>1
  <2>. QED  BY Zenon, <2>1, <2>2
<1>3. line = CHOOSE f : Up(f)
  BY DEF Ancestors
<1>. HIDE DEF line
<1>4. Up(line)
  <2>. HIDE DEF Up
  <2>. QED  BY Zenon, <1>2, <1>3
<1>5. line[0] = t
  BY Zenon, <1>4, 0 \in Nat
<1>6. ASSUME NEW n \in Nat  PROVE line[n + 1] = p[line[n]]
  <2>1. n + 1 \in Nat /\ n + 1 # 0 /\ (n + 1) - 1 = n
    OBVIOUS
  <2>2. line[n + 1] = IF n + 1 = 0 THEN t ELSE p[line[(n + 1) - 1]]
    BY Zenon, <1>4, <2>1
  <2>. QED  BY Zenon, <2>1, <2>2
<1>. QED  BY Zenon, <1>5, <1>6 DEF line

(* The parents of the slots in U are all that the lineage of one of them   *)
(* depends on.                                                             *)
LEMMA SameLine ==
  ASSUME NEW p \in [Slots -> Slots], NEW q \in [Slots -> Slots], NEW U \in SUBSET Slots,
         \A u \in U : p[u] \in U /\ q[u] = p[u], NEW t \in U
  PROVE  \A n \in Nat : Ancestors(q, t)[n] = Ancestors(p, t)[n]
<1>. DEFINE T == {n \in Nat : Ancestors(p, t)[n] \in U /\ Ancestors(q, t)[n] = Ancestors(p, t)[n]}
<1>1. 0 \in T
  BY AncestorsAre, 0 \in Nat
<1>2. ASSUME NEW k \in Nat, k \in T  PROVE k + 1 \in T
  <2>1. k + 1 \in Nat
    OBVIOUS
  <2>2. /\ Ancestors(p, t)[k + 1] = p[Ancestors(p, t)[k]]
        /\ Ancestors(q, t)[k + 1] = q[Ancestors(q, t)[k]]
    BY AncestorsAre
  <2>. QED  BY Zenon, <1>2, <2>1, <2>2
<1>. HIDE DEF T
<1>3. ASSUME NEW n \in Nat  PROVE n \in T
  <2>1. n \in 0 .. n /\ \A k \in 0 .. n - 1 : k \in Nat
    OBVIOUS
  <2>2. \A k \in 0 .. n - 1 : k \in T => k + 1 \in T
    BY Zenon, <1>2, <2>1
  <2>. QED  BY Zenon, <1>1, <2>1, <2>2, UpTo
<1>. QED  BY Zenon, <1>3 DEF T

LEMMA ParentsLine ==
  ASSUME NEW p \in [Slots -> Slots], NEW t \in Slots
  PROVE  \A n \in Nat : Ancestors(p, t)[n + 1] = Ancestors(p, p[t])[n]
<1>. DEFINE T == {n \in Nat : Ancestors(p, t)[n + 1] = Ancestors(p, p[t])[n]}
<1>0. p[t] \in Slots
  OBVIOUS
<1>1. 0 \in T
  <2>1. Ancestors(p, t)[0 + 1] = p[Ancestors(p, t)[0]] /\ Ancestors(p, t)[0] = t
        /\ Ancestors(p, p[t])[0] = p[t]
    BY Zenon, <1>0, AncestorsAre, 0 \in Nat
  <2>. QED  BY Zenon, <2>1, 0 \in Nat
<1>2. ASSUME NEW k \in Nat, k \in T  PROVE k + 1 \in T
  <2>1. k + 1 \in Nat
    OBVIOUS
  <2>2. /\ Ancestors(p, t)[(k + 1) + 1] = p[Ancestors(p, t)[k + 1]]
        /\ Ancestors(p, p[t])[k + 1] = p[Ancestors(p, p[t])[k]]
    BY ZenonT(60), <1>0, <2>1, AncestorsAre
  <2>. QED  BY Zenon, <1>2, <2>1, <2>2
<1>. HIDE DEF T
<1>3. ASSUME NEW n \in Nat  PROVE n \in T
  <2>1. n \in 0 .. n /\ \A k \in 0 .. n - 1 : k \in Nat
    OBVIOUS
  <2>2. \A k \in 0 .. n - 1 : k \in T => k + 1 \in T
    BY Zenon, <1>2, <2>1
  <2>. QED  BY Zenon, <1>1, <2>1, <2>2, UpTo
<1>. QED  BY Zenon, <1>3 DEF T

LEMMA DepthIs ==
  ASSUME NEW line
  PROVE  /\ Depth(line) \in 0 .. NibbleMax
         /\ line[Depth(line)] = 0 \/ Depth(line) = NibbleMax
         /\ \A m \in 0 .. Depth(line) - 1 : line[m] # 0
<1>. DEFINE End(n) == line[n] = 0 \/ n = NibbleMax
            Is(n) == End(n) /\ \A m \in 0 .. n - 1 : line[m] # 0
            T == {n \in 0 .. NibbleMax : End(n)}
<1>1. T \subseteq Nat /\ NibbleMax \in T
  BY TaskAssumption
<1>. HIDE DEF T
<1>2. PICK n \in T : \A m \in T : n <= m
  BY Zenon, <1>1, LeastNat
<1>3. n \in 0 .. NibbleMax /\ Is(n)
  BY <1>2, TaskAssumption DEF T
<1>4. Depth(line) = CHOOSE k \in 0 .. NibbleMax : Is(k)
  BY DEF Depth
<1>5. Depth(line) \in 0 .. NibbleMax /\ Is(Depth(line))
  <2>. HIDE DEF Is
  <2>. QED  BY Zenon, <1>3, <1>4
<1>. QED  BY Zenon, <1>5

LEMMA SameDepth ==
  ASSUME NEW line, NEW d \in 0 .. NibbleMax, line[d] = 0 \/ d = NibbleMax,
         \A m \in 0 .. d - 1 : line[m] # 0
  PROVE  Depth(line) = d
<1>. DEFINE e == Depth(line)
<1>1. /\ e \in 0 .. NibbleMax /\ (line[e] = 0 \/ e = NibbleMax)
      /\ \A m \in 0 .. e - 1 : line[m] # 0
  BY Zenon, DepthIs
<1>. HIDE DEF e
<1>2. e = d
  BY <1>1, TaskAssumption
<1>. QED  BY <1>2 DEF e

(* A line that begins above another one is a step shorter.                 *)
LEMMA Deeper ==
  ASSUME NEW line, NEW above, line[0] # 0, \A n \in Nat : line[n + 1] = above[n]
  PROVE  Depth(line) = IF Depth(above) < NibbleMax THEN Depth(above) + 1 ELSE NibbleMax
<1>. DEFINE d == Depth(above)
<1>1. /\ d \in 0 .. NibbleMax /\ (above[d] = 0 \/ d = NibbleMax)
      /\ \A m \in 0 .. d - 1 : above[m] # 0
  BY Zenon, DepthIs
<1>. HIDE DEF d
<1>2. ASSUME NEW m \in 0 .. d  PROVE line[m] # 0
  <2>1. CASE m = 0
    BY Zenon, <2>1
  <2>2. CASE m # 0
    <3>1. m - 1 \in Nat /\ m - 1 \in 0 .. d - 1 /\ (m - 1) + 1 = m
      BY <1>1, <2>2, TaskAssumption
    <3>. QED  BY Zenon, <1>1, <3>1
  <2>. QED  BY Zenon, <2>1, <2>2
<1>3. CASE d < NibbleMax
  <2>1. /\ d + 1 \in 0 .. NibbleMax /\ (d + 1) - 1 = d /\ d \in Nat /\ d # NibbleMax
    BY <1>1, <1>3, TaskAssumption
  <2>2. line[d + 1] = 0
    BY Zenon, <1>1, <2>1
  <2>3. Depth(line) = d + 1
    <3>1. \A m \in 0 .. (d + 1) - 1 : line[m] # 0
      BY Zenon, <1>2, <2>1
    <3>. QED  BY Zenon, <2>1, <2>2, <3>1, SameDepth
  <2>. QED  BY Zenon, <1>3, <2>3 DEF d
<1>4. CASE ~(d < NibbleMax)
  <2>1. d = NibbleMax /\ NibbleMax \in 0 .. NibbleMax /\ \A m \in 0 .. NibbleMax - 1 : m \in 0 .. d
    BY <1>1, <1>4, TaskAssumption
  <2>2. Depth(line) = NibbleMax
    BY Zenon, <1>2, <2>1, SameDepth
  <2>. QED  BY Zenon, <1>4, <2>2 DEF d
<1>. QED  BY Zenon, <1>3, <1>4

(* kernel_task is its own parent.                                          *)
Rooted == parent[0] = 0

(* No step takes a task out of the table or gives it another parent.       *)
LEMMA ParentsStay ==
  ASSUME IInv, [Next]_vars
  PROVE  Used \subseteq Used' /\ \A t \in Used : parent'[t] = parent[t]
<1>1. /\ task_count \in Nat /\ task_count \notin Used /\ parent \in [Slots -> Slots]
      /\ Used \subseteq Slots
  BY TableExtent DEF IInv, TypeOK, Used
<1>2. ASSUME NEW caps, NEW dom, NEW sp, create_task(caps, dom, sp)
      PROVE  Used \subseteq Used' /\ \A t \in Used : parent'[t] = parent[t]
  <2>1. task_count' = task_count + 1 /\ parent' = [parent EXCEPT ![task_count] = current_task]
    BY <1>2 DEF create_task
  <2>2. Used \subseteq Used'
    BY <1>1, <2>1 DEF Used
  <2>. QED  BY Zenon, <1>1, <2>1, <2>2
<1>3. ASSUME UNCHANGED table
      PROVE  Used \subseteq Used' /\ \A t \in Used : parent'[t] = parent[t]
  BY <1>3 DEF table, Used
<1>4. CASE UNCHANGED vars
  BY <1>3, <1>4 DEF vars, table
<1>5. CASE Next
  BY Zenon, <1>2, <1>3, <1>5 DEF Next, CreateEarly, Spawn, SYS_CREATE_TASK, Park, task_yield, Finish,
     EnterUser, SYS_YIELD, SYS_EXIT, process_events
<1>. QED  BY Zenon, <1>4, <1>5

LEMMA RootStays == IInv /\ Rooted /\ [Next]_vars => Rooted'
BY Zenon, ParentsStay, TableExtent DEF Rooted, IInv

LEMMA InitRooted == Init => Rooted
BY TaskAssumption DEF Init, Rooted, Slots

LEMMA LineageStep ==
  ASSUME IInv, Rooted, IInv', [Next]_vars, NEW t \in Used \ {0}
  PROVE  /\ lineage_depth_of(t)' = IF lineage_depth_of(parent[t]) < NibbleMax
                                   THEN lineage_depth_of(parent[t]) + 1 ELSE NibbleMax
         /\ sibling_count_of(t)' >= sibling_count_of(t)
<1>1. /\ Used \subseteq Slots /\ 0 \in Used /\ t \in Slots /\ t # 0
      /\ parent \in [Slots -> Slots] /\ parent' \in [Slots -> Slots]
  BY Zenon, TableExtent DEF IInv, TypeOK
<1>2. \A u \in Used : parent[u] \in Used /\ parent'[u] = parent[u]
  <2>. SUFFICES ASSUME NEW u \in Used  PROVE parent[u] \in Used
    BY Zenon, ParentsStay
  <2>1. CASE u = 0
    BY Zenon, <1>1, <2>1 DEF Rooted
  <2>2. CASE u # 0
    <3>1. parent[u] < u /\ parent[u] \in Slots
      BY Zenon, <1>1, <2>2 DEF IInv, Narrowing
    <3>2. u < task_count /\ u \in Nat /\ task_count \in Nat /\ parent[u] \in Nat
      <4>1. u < task_count /\ u \in Nat /\ task_count \in Nat
        BY Zenon, TableExtent DEF IInv
      <4>2. parent[u] \in Nat
        BY <3>1, TaskAssumption DEF Slots
      <4>. QED  BY Zenon, <4>1, <4>2
    <3>3. parent[u] < task_count
      BY <3>1, <3>2
    <3>. QED  BY Zenon, <3>1, <3>3, TableExtent DEF IInv
  <2>. QED  BY Zenon, <2>1, <2>2
<1>3. lineage_depth_of(t)' = IF lineage_depth_of(parent[t]) < NibbleMax
                             THEN lineage_depth_of(parent[t]) + 1 ELSE NibbleMax
  <2>. DEFINE line == Ancestors(parent', t)  above == Ancestors(parent, parent[t])
  <2>1. \A n \in Nat : line[n] = Ancestors(parent, t)[n]
    BY <1>1, <1>2, SameLine
  <2>2. \A n \in Nat : Ancestors(parent, t)[n + 1] = above[n]
    BY Zenon, <1>1, ParentsLine
  <2>3. line[0] # 0
    BY Zenon, <1>1, AncestorsAre
  <2>. HIDE DEF line, above
  <2>4. \A n \in Nat : n + 1 \in Nat
    OBVIOUS
  <2>5. \A n \in Nat : line[n + 1] = above[n]
    BY Zenon, <2>1, <2>2, <2>4
  <2>6. Depth(line) = IF Depth(above) < NibbleMax THEN Depth(above) + 1 ELSE NibbleMax
    BY Zenon, <2>3, <2>5, Deeper
  <2>. QED  BY Zenon, <2>6 DEF lineage_depth_of, line, above
<1>4. sibling_count_of(t)' >= sibling_count_of(t)
  <2>1. Siblings(t) \subseteq Siblings(t)'
    BY Zenon, <1>1, <1>2, ParentsStay DEF Siblings
  <2>2. IsFiniteSet(Used')
    <3>1. task_count' \in Nat
      <4>1. task_count' \in 1 .. MaxTasks
        BY Zenon DEF IInv, TypeOK
      <4>. QED  BY <4>1, TaskAssumption
    <3>2. IsFiniteSet(0 .. task_count' - 1)
      BY <3>1, FS_Interval
    <3>. QED  BY Zenon, <3>2 DEF Used
  <2>3. Siblings(t)' \subseteq Used'
    BY Zenon DEF Siblings
  <2>4. IsFiniteSet(Siblings(t)') /\ Cardinality(Siblings(t)') \in Nat
    BY Zenon, <2>2, <2>3, FS_Subset, FS_CardinalityType
  <2>5. Cardinality(Siblings(t)) \in Nat /\ Cardinality(Siblings(t)) <= Cardinality(Siblings(t)')
    BY Zenon, <2>1, <2>4, FS_Subset, FS_CardinalityType
  <2>. DEFINE m == Cardinality(Siblings(t))  n == Cardinality(Siblings(t)')
  <2>6. /\ sibling_count_of(t) = IF m < NibbleMax THEN m ELSE NibbleMax
        /\ sibling_count_of(t)' = IF n < NibbleMax THEN n ELSE NibbleMax
    BY Zenon DEF sibling_count_of
  <2>. HIDE DEF m, n
  <2>7. m \in Nat /\ n \in Nat /\ m <= n
    BY Zenon, <2>4, <2>5 DEF m, n
  <2>. QED  BY <2>6, <2>7, TaskAssumption
<1>. QED  BY Zenon, <1>3, <1>4

(* What a DENY record says of a task's place in the tree stays true of it: *)
(* its depth from its creation on, however the table fills, and its        *)
(* siblings never get fewer.                                               *)
THEOREM LineageStays == Spec => LineageIsStable
<1>1. IInv /\ Rooted /\ IInv' /\ [Next]_vars =>
        \A t \in Used \ {0} :
          /\ lineage_depth_of(t)' = IF lineage_depth_of(parent[t]) < NibbleMax
                                    THEN lineage_depth_of(parent[t]) + 1 ELSE NibbleMax
          /\ sibling_count_of(t)' >= sibling_count_of(t)
  BY Zenon, LineageStep
<1>2. Spec => []Rooted
  BY InitRooted, RootStays, Invariance, PTL DEF Spec
<1>. QED  BY <1>1, <1>2, Invariance, PTL DEF Spec, LineageIsStable
=============================================================================

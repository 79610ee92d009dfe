-------------------------- MODULE MemoryMapProofs ---------------------------
(***************************************************************************)
(* The frame allocator never gives a frame to two callers and its free     *)
(* count is right; the validator of kernel/security.c is exact; and the    *)
(* block allocator's blocks are apart, in the heap, cleared when they are  *)
(* given out and mapped for the kernel alone: for every layout of the      *)
(* memory map and every sequence of calls.                                 *)
(***************************************************************************)
EXTENDS MemoryUtils, Integers, WellFoundedInduction, TLAPS, FiniteSetTheorems, SequenceTheorems

-----------------------------------------------------------------------------
(* Loops.  One that carries a value from round to round is a function on   *)
(* 0 .. n; induction is the least counterexample.                          *)

(* A set of naturals that is not empty has a least element.                *)
LEMMA LeastNat ==
  ASSUME NEW T, T \subseteq Nat, T # {}
  PROVE  \E n \in T : \A m \in T : n <= m
<1>1. PICK n \in T : \A m \in T : ~(<<m, n>> \in OpToRel(<, Nat))
  BY Zenon, WFMin, NatLessThanWellFounded
<1>2. \A m \in T : ~(m < n)
  BY Zenon, <1>1 DEF OpToRel
<1>. QED  BY <1>2

(* A set of naturals with 0 that is closed under +1 up to n holds 0 .. n.  *)
LEMMA UpTo ==
  ASSUME NEW n \in Nat, NEW T, 0 \in T, \A k \in 0 .. n - 1 : k \in T => k + 1 \in T
  PROVE  \A k \in 0 .. n : k \in T
<1>. DEFINE Bad == {k \in 0 .. n : k \notin T}
<1>1. SUFFICES ASSUME Bad # {}  PROVE FALSE
  OBVIOUS
<1>2. Bad \subseteq Nat
  OBVIOUS
<1>3. PICK k \in Bad : \A m \in Bad : k <= m
  <2>. HIDE DEF Bad
  <2>. QED  BY Zenon, <1>1, <1>2, LeastNat
<1>4. k # 0 /\ k - 1 \in 0 .. n - 1
  OBVIOUS
<1>5. k - 1 \in T
  BY <1>3, <1>4
<1>. QED  BY <1>4, <1>5

(* The values a loop goes through: step[i] is what round i does.           *)
Iterates(F, a, step, n) == F[0] = a /\ \A i \in 1 .. n : F[i] = step[i][F[i - 1]]

(* A loop of total rounds has such values.                                 *)
LEMMA IterExists ==
  ASSUME NEW S, NEW a \in S, NEW n \in Nat, NEW step \in [1 .. n -> [S -> S]]
  PROVE  \E F \in [0 .. n -> S] : Iterates(F, a, step, n)
<1>. DEFINE Good == {k \in Nat : \E F \in [0 .. k -> S] : Iterates(F, a, step, k)}
<1>1. 0 \in Good
  <2>. DEFINE F == [i \in 0 .. 0 |-> a]
  <2>1. F \in [0 .. 0 -> S] /\ Iterates(F, a, step, 0)
    BY DEF Iterates
  <2>. QED  BY <2>1
<1>2. ASSUME NEW k \in 0 .. n - 1, k \in Good  PROVE k + 1 \in Good
  <2>1. k \in Nat /\ k + 1 \in Nat /\ k + 1 \in 1 .. n
    OBVIOUS
  <2>2. PICK F \in [0 .. k -> S] : Iterates(F, a, step, k)
    BY <1>2
  <2>. DEFINE G == [i \in 0 .. k + 1 |-> IF i = k + 1 THEN step[k + 1][F[k]] ELSE F[i]]
  <2>3. step[k + 1][F[k]] \in S
    BY <2>1, <2>2
  <2>4. G \in [0 .. k + 1 -> S]
    BY <2>1, <2>3
  <2>5. G[0] = a
    BY <2>1, <2>2 DEF Iterates
  <2>6. \A i \in 1 .. k + 1 : G[i] = step[i][G[i - 1]]
    BY <2>1, <2>2 DEF Iterates
  <2>. HIDE DEF G
  <2>7. Iterates(G, a, step, k + 1)
    BY <2>5, <2>6 DEF Iterates
  <2>. QED  BY <2>1, <2>4, <2>7
<1>. HIDE DEF Good
<1>3. \A k \in 0 .. n : k \in Good
  BY Zenon, <1>1, <1>2, UpTo
<1>4. n \in 0 .. n
  OBVIOUS
<1>. QED  BY <1>3, <1>4 DEF Good

-----------------------------------------------------------------------------
(* Division.                                                               *)

(* A remainder and a quotient are determined by their sum.                 *)
LEMMA ModUnique ==
  ASSUME NEW n \in Nat \ {0}, NEW q \in Int, NEW r \in 0 .. n - 1
  PROVE  (q * n + r) % n = r /\ (q * n + r) \div n = q
  OBVIOUS

(* Quotient and remainder.                                                 *)
LEMMA ModSplit ==
  ASSUME NEW n \in Nat \ {0}, NEW x \in Int
  PROVE  /\ x % n \in 0 .. n - 1
         /\ x \div n \in Int
         /\ x = (x \div n) * n + (x % n)
  OBVIOUS

-----------------------------------------------------------------------------
(* The frame allocator: addresses and indices.                             *)

(* Every frame's address is aligned, and leads back to its index.          *)
LEMMA AddressIsAligned ==
  ASSUME NEW i \in Nat
  PROVE  /\ AddressOf(i) \in Nat /\ AddressOf(i) >= Base
         /\ Aligned(AddressOf(i))
         /\ (AddressOf(i) - Base) \div FrameSize = i
<1> DEFINE b == Base \div FrameSize
<1>1. /\ FrameSize \in Nat \ {0} /\ Base \in Nat /\ Base % FrameSize = 0
  BY FrameAssumption
<1>2. b \in Int /\ Base = b * FrameSize
  <2>1. b \in Int /\ Base = b * FrameSize + (Base % FrameSize)
    BY <1>1, ModSplit
  <2> QED BY <1>1, <2>1
<1>3. i * FrameSize \in Nat
  BY <1>1
<1>4. AddressOf(i) = (b + i) * FrameSize + 0
  <2>1. (b + i) * FrameSize = b * FrameSize + i * FrameSize
    BY <1>1, <1>2
  <2> QED BY <1>1, <1>2, <1>3, <2>1 DEF AddressOf
<1> HIDE DEF b
<1>5. AddressOf(i) % FrameSize = 0
  <2>1. b + i \in Int /\ 0 \in 0 .. FrameSize - 1  BY <1>1, <1>2
  <2> QED BY ZenonT(60), <1>1, <1>4, <2>1, ModUnique
<1>6. (AddressOf(i) - Base) \div FrameSize = i
  <2>1. AddressOf(i) - Base = i * FrameSize + 0  BY <1>1, <1>3 DEF AddressOf
  <2>2. i \in Int /\ 0 \in 0 .. FrameSize - 1  BY <1>1
  <2> QED BY <1>1, <2>1, <2>2, ModUnique
<1> QED BY <1>1, <1>3, <1>5, <1>6 DEF AddressOf, Aligned

(* An aligned address in or above the pool is the address of its index.    *)
LEMMA AlignedIsAddress ==
  ASSUME NEW a \in Nat, a >= Base, Aligned(a)
  PROVE  /\ (a - Base) \div FrameSize \in Nat
         /\ a = AddressOf((a - Base) \div FrameSize)
<1> DEFINE b == Base \div FrameSize  c == a \div FrameSize
<1>1. /\ FrameSize \in Nat \ {0} /\ Base \in Nat /\ Base % FrameSize = 0
      /\ a % FrameSize = 0
  BY FrameAssumption DEF Aligned
<1>2. b \in Int /\ Base = b * FrameSize /\ c \in Int /\ a = c * FrameSize
  <2>1. b \in Int /\ Base = b * FrameSize + (Base % FrameSize)
    BY <1>1, ModSplit
  <2>2. c \in Int /\ a = c * FrameSize + (a % FrameSize)
    BY <1>1, ModSplit
  <2> QED BY <1>1, <2>1, <2>2
<1> HIDE DEF b, c
<1>3. a - Base = (c - b) * FrameSize + 0 /\ c - b \in Int
  <2>1. (c - b) * FrameSize = c * FrameSize - b * FrameSize
    BY <1>1, <1>2
  <2> QED BY <1>1, <1>2, <2>1
<1>4. (a - Base) \div FrameSize = c - b
  <2>1. 0 \in 0 .. FrameSize - 1
    BY <1>1
  <2> QED
    BY <1>1, <1>3, <2>1, ModUnique, ZenonT(60)
<1>5. c - b \in Nat
  <2>1. CASE c - b < 0
    <3>1. (c - b) * FrameSize < 0  BY <1>1, <1>3, <2>1
    <3> QED BY <1>1, <1>3, <3>1
  <2> QED BY <1>3, <2>1
<1> QED BY <1>1, <1>3, <1>4, <1>5 DEF AddressOf

-----------------------------------------------------------------------------
(* The invariant.                                                          *)

LEMMA PoolIsFinite == IsFiniteSet(Pool) /\ Cardinality(Pool) = Frames
  BY FrameAssumption, FS_Interval DEF Pool

LEMMA InitIInv == Init => IInv
  BY FS_EmptySet, FrameAssumption DEF Init, IInv, TypeOK, CountAgrees, HeldIsInUse

LEMMA AllocKeeps == IInv /\ alloc_frame => IInv'
<1> SUFFICES ASSUME IInv, alloc_frame PROVE IInv'
  OBVIOUS
<1>1. ASSUME NEW i \in Pool, Takes(i),
             frame_bitmap' = frame_bitmap \cup {i},
             frames_free' = frames_free - 1,
             result' = AddressOf(i),
             held' = held \cup {AddressOf(i)}
      PROVE  IInv'
  <2>1. IsFiniteSet(frame_bitmap) /\ IsFiniteSet(frame_bitmap')
    BY <1>1, PoolIsFinite, FS_Subset DEF IInv, TypeOK
  <2>2. Cardinality(frame_bitmap') = Cardinality(frame_bitmap) + 1
    BY <1>1, <2>1, FS_AddElement DEF Takes
  <2>3. Cardinality(frame_bitmap') \in 0 .. Frames
    BY <1>1, <2>1, PoolIsFinite, FS_Subset, FS_CardinalityType, FrameAssumption
       DEF IInv, TypeOK
  <2>4. CountAgrees' /\ frames_free' \in 0 .. Frames
    BY SMTT(60), <1>1, <2>1, <2>2, <2>3, FrameAssumption, FS_CardinalityType
       DEF IInv, CountAgrees
  <2>5. HeldIsInUse'
    BY <1>1 DEF IInv, HeldIsInUse
  <2>6. TypeOK'
    BY <1>1, <2>4 DEF IInv, TypeOK
  <2> QED BY <2>4, <2>5, <2>6 DEF IInv
<1>2. CASE result' = 0 /\ UNCHANGED <<frame_bitmap, frames_free, held>>
  BY <1>2 DEF IInv, TypeOK, CountAgrees, HeldIsInUse
<1> QED BY <1>1, <1>2 DEF alloc_frame

LEMMA FreeKeeps ==
  ASSUME IInv, NEW a \in Addresses, free_frame(a)
  PROVE  IInv'
<1> DEFINE idx == (a - Base) \div FrameSize
           accepted == a >= Base /\ Aligned(a) /\ idx < Frames /\ InUse(idx)
<1>0. /\ a \in Nat /\ Base \in Nat /\ Frames \in Nat
      /\ frame_bitmap \subseteq Pool
      /\ held = {AddressOf(i) : i \in frame_bitmap}
  BY FrameAssumption DEF IInv, TypeOK, HeldIsInUse
<1>1. CASE accepted
  <2>1. idx \in frame_bitmap /\ a = AddressOf(idx)
    BY <1>0, <1>1, AlignedIsAddress DEF InUse
  <2>2. frame_bitmap' = frame_bitmap \ {idx} /\ frames_free' = frames_free + 1
        /\ held' = held \ {a} /\ result' = result
    BY <1>1 DEF free_frame
  <2> HIDE DEF idx, accepted
  <2>3. IsFiniteSet(frame_bitmap)
    BY <1>0, PoolIsFinite, FS_Subset
  <2>4. Cardinality(frame_bitmap') = Cardinality(frame_bitmap) - 1
    BY Zenon, <2>1, <2>2, <2>3, FS_RemoveElement
  <2>5. IsFiniteSet(frame_bitmap') /\ Cardinality(frame_bitmap') \in 0 .. Frames
    <3>1. frame_bitmap' \subseteq Pool  BY <1>0, <2>2
    <3> QED BY <1>0, <3>1, PoolIsFinite, FS_Subset, FS_CardinalityType
  <2>6. CountAgrees' /\ frames_free' \in 0 .. Frames
    BY SMTT(60), <1>0, <2>2, <2>3, <2>4, <2>5, FS_CardinalityType DEF IInv, CountAgrees
  <2>7. HeldIsInUse'
    <3>1. \A i \in frame_bitmap : AddressOf(i) = AddressOf(idx) => i = idx
      <4>1. \A i \in Nat : (AddressOf(i) - Base) \div FrameSize = i
        BY AddressIsAligned
      <4>2. frame_bitmap \subseteq Nat  BY <1>0 DEF Pool
      <4> QED BY <2>1, <4>1, <4>2
    <3> QED BY <1>0, <2>1, <2>2, <3>1 DEF HeldIsInUse
  <2>8. TypeOK'
    BY <2>2, <2>6 DEF IInv, TypeOK
  <2> QED BY <2>6, <2>7, <2>8 DEF IInv
<1>2. CASE ~accepted
  <2>1. UNCHANGED <<frame_bitmap, frames_free, result>> /\ held' = held \ {a}
    BY <1>2 DEF free_frame
  <2>2. a \notin held
    <3>1. SUFFICES ASSUME NEW i \in frame_bitmap, a = AddressOf(i) PROVE FALSE
      BY <1>0
    <3>2. i \in Nat /\ i < Frames  BY <1>0 DEF Pool
    <3>3. a >= Base /\ Aligned(a) /\ idx = i
      BY <3>1, <3>2, AddressIsAligned
    <3> QED BY <1>2, <3>2, <3>3 DEF InUse
  <2>3. held' = held
    BY <2>1, <2>2
  <2> QED BY <2>1, <2>3 DEF IInv, TypeOK, CountAgrees, HeldIsInUse
<1> QED BY <1>1, <1>2

LEMMA StepIInv == IInv /\ [Next]_vars => IInv'
<1>1. IInv /\ UNCHANGED vars => IInv'
  BY DEF IInv, TypeOK, CountAgrees, HeldIsInUse, vars
<1> QED BY <1>1, AllocKeeps, FreeKeeps DEF Next

-----------------------------------------------------------------------------
(* Theorems.                                                               *)

(* The invariant holds throughout.                                         *)
THEOREM FrameInvariance == Spec => []IInv
<1> QED BY InitIInv, StepIInv, PTL DEF Spec

(* What frame_count_free reports is the number of free frames.             *)
THEOREM CountIsRight == Spec => []CountAgrees
<1>1. IInv => CountAgrees  BY DEF IInv
<1> QED BY <1>1, FrameInvariance, PTL

(* The frames in use are those the callers hold, whatever free_frame is    *)
(* given.                                                                  *)
THEOREM UseIsHolding == Spec => []HeldIsInUse
<1>1. IInv => HeldIsInUse  BY DEF IInv
<1> QED BY <1>1, FrameInvariance, PTL

(* alloc_frame never gives out a frame that is held, nor fails while one   *)
(* is free.                                                                *)
THEOREM NoSharing == Spec => AllocIsFresh
<1> DEFINE Fresh == alloc_frame => \/ result' # 0 /\ result' \notin held
                                   \/ result' = 0 /\ held = {AddressOf(i) : i \in Pool}
<1>1. IInv /\ [Next]_vars => [Fresh]_vars
  <2> SUFFICES ASSUME IInv, alloc_frame
               PROVE  \/ result' # 0 /\ result' \notin held
                      \/ result' = 0 /\ held = {AddressOf(i) : i \in Pool}
    OBVIOUS
  <2>0. held = {AddressOf(i) : i \in frame_bitmap} /\ frame_bitmap \subseteq Pool
    BY DEF IInv, HeldIsInUse, TypeOK
  <2>1. ASSUME NEW i \in Pool, Takes(i), result' = AddressOf(i)
        PROVE  result' # 0 /\ result' \notin held
    <3>1. \A j \in Nat : /\ AddressOf(j) \in Nat /\ AddressOf(j) >= Base
                         /\ (AddressOf(j) - Base) \div FrameSize = j
      BY AddressIsAligned
    <3>2. i \in Nat /\ frame_bitmap \subseteq Nat /\ i \notin frame_bitmap
      BY <2>0, <2>1 DEF Pool, Takes
    <3>3. result' # 0  BY <2>1, <3>1, <3>2, FrameAssumption
    <3>4. \A j \in frame_bitmap : AddressOf(j) # AddressOf(i)  BY <3>1, <3>2
    <3> QED BY <2>0, <2>1, <3>3, <3>4
  <2>2. CASE Pool \subseteq frame_bitmap /\ result' = 0
    BY <2>0, <2>2
  <2> QED BY <2>1, <2>2 DEF alloc_frame
<1> QED BY <1>1, FrameInvariance, PTL DEF Spec, AllocIsFresh

-----------------------------------------------------------------------------
(* The region table.                                                       *)

(* The region table, once it exists, stays as it was built.                *)
Built ==
  /\ booted \in 0 .. 3
  /\ booted >= 1 => protected_regions = security_regions_init

LEMMA BuiltStep == Built /\ [MapNext]_<<vars, mapVars>> => Built'
<1>. SUFFICES ASSUME Built, [MapNext]_<<vars, mapVars>>  PROVE Built'
  OBVIOUS
<1>. USE DEF Built
<1>0. security_regions_init' = security_regions_init
  BY Zenon DEF security_regions_init, region_add, Guard, KernelText, KernelData,
         KernelHeap, UserSpace, Region
<1>. HIDE DEF security_regions_init
<1>1. CASE FrameCalls
  BY <1>0, <1>1 DEF FrameCalls, mapVars
<1>2. CASE security_init
  BY <1>0, <1>2 DEF security_init
<1>3. CASE memory_init
  BY <1>0, <1>3 DEF memory_init
<1>4. CASE arm_mmu_init
  BY <1>0, <1>4 DEF arm_mmu_init
<1>5. ASSUME NEW n \in Sizes, alloc_memory(n)  PROVE Built'
  BY <1>0, <1>5 DEF alloc_memory
<1>6. ASSUME NEW a \in FreedAddresses, free_memory(a)  PROVE Built'
  BY Zenon, <1>0, <1>6 DEF free_memory
<1>7. ASSUME NEW b \in Blocks, OwnerWrites(b)  PROVE Built'
  BY <1>0, <1>7 DEF OwnerWrites
<1>8. ASSUME NEW s \in FlippedSections, NEW ap \in {"kernel", "user"},
             arm_section_set_ap(s, ap)
      PROVE  Built'
  BY <1>0, <1>8 DEF arm_section_set_ap
<1>9. CASE UNCHANGED <<vars, mapVars>>
  BY <1>0, <1>9 DEF mapVars
<1>. QED
  BY <1>1, <1>2, <1>3, <1>4, <1>5, <1>6, <1>7, <1>8, <1>9 DEF MapNext

LEMMA BuiltInvariance == MapSpec => []Built
<1>1. MapInit => Built
  BY DEF MapInit, Built
<1>. QED  BY <1>1, BuiltStep, PTL DEF MapSpec

-----------------------------------------------------------------------------
(* Tables.                                                                 *)

Regions == [first : Nat, last : Int, read : BOOLEAN, write : BOOLEAN]

(* Region r has nothing against an access, and no region of a table has.   *)
Admits(r, a, end, write) == Overlaps(a, end, r) => r.read /\ (write => r.write)
AllAdmit(table, a, end, write) ==
  \A i \in 1 .. Len(table) : Admits(table[i], a, end, write)

(* An empty region is not entered, and would admit everything in bounds.   *)
LEMMA RegionAdds ==
  ASSUME NEW table \in Seq(Regions), Len(table) < MaxRegions, NEW r \in Regions,
         NEW a \in Nat, NEW end \in Nat, NEW write \in BOOLEAN
  PROVE  /\ region_add(table, r) \in Seq(Regions)
         /\ Len(region_add(table, r)) <= Len(table) + 1
         /\ AllAdmit(region_add(table, r), a, end, write)
              <=> AllAdmit(table, a, end, write)
                    /\ (r.first <= r.last => Admits(r, a, end, write))
<1>0. r.first \in Nat /\ r.last \in Int /\ Len(table) \in Nat
  BY DEF Regions
<1>1. CASE r.last < r.first
  <2>1. region_add(table, r) = table
    BY <1>1 DEF region_add
  <2>2. Len(table) <= Len(table) + 1 /\ ~(r.first <= r.last)
    BY <1>0, <1>1
  <2>. QED  BY <2>1, <2>2, Zenon
<1>2. CASE ~(r.last < r.first)
  <2>. DEFINE new == Append(table, r)
  <2>1. region_add(table, r) = new
    <3>1. MaxRegions \in Nat
      BY MapAssumption
    <3>. QED  BY <1>0, <1>2, <3>1 DEF region_add
  <2>2. /\ new \in Seq(Regions) /\ Len(new) = Len(table) + 1
        /\ new[Len(table) + 1] = r /\ \A i \in 1 .. Len(table) : new[i] = table[i]
    BY <1>0
  <2>. HIDE DEF new
  <2>3. AllAdmit(new, a, end, write)
          <=> AllAdmit(table, a, end, write) /\ Admits(r, a, end, write)
    <3>1. ASSUME NEW n \in Nat  PROVE 1 .. n + 1 = (1 .. n) \union {n + 1}
      OBVIOUS
    <3>2. 1 .. Len(new) = (1 .. Len(table)) \union {Len(table) + 1}
      BY <1>0, <2>2, <3>1, Zenon
    <3>. QED  BY <2>2, <3>2, Zenon DEF AllAdmit
  <2>4. r.first <= r.last /\ Len(new) <= Len(table) + 1
    BY <1>0, <1>2, <2>2
  <2>. QED  BY <2>1, <2>2, <2>3, <2>4, Zenon
<1>. QED  BY <1>1, <1>2

-----------------------------------------------------------------------------
(* What each of the five regions has against an access.                    *)

LEMMA RegionsAre ==
  /\ Guard \in Regions /\ KernelText \in Regions /\ KernelData \in Regions
  /\ KernelHeap \in Regions /\ UserSpace \in Regions
BY MapAssumption DEF Regions, Region, Guard, KernelText, KernelData, KernelHeap, UserSpace

LEMMA RegionsAdmit ==
  ASSUME NEW a \in Nat, NEW end \in Nat, a <= end, NEW write \in BOOLEAN
  PROVE  /\ Guard.first <= Guard.last
         /\ Admits(Guard, a, end, write) <=> a > NullEnd
         /\ Admits(KernelText, a, end, write)
              <=> (write => ~(a <= Text[2] /\ end >= Text[1]))
         /\ Admits(KernelData, a, end, write)
         /\ Admits(KernelHeap, a, end, write)
         /\ Admits(UserSpace, a, end, write)
<1>. USE MapAssumption DEF Admits, Overlaps, Region
<1>1. Guard.first <= Guard.last /\ (Admits(Guard, a, end, write) <=> a > NullEnd)
  BY DEF Guard
<1>2. Admits(KernelText, a, end, write) <=> (write => ~(a <= Text[2] /\ end >= Text[1]))
  BY DEF KernelText
<1>3. Admits(KernelData, a, end, write) /\ Admits(KernelHeap, a, end, write)
        /\ Admits(UserSpace, a, end, write)
  BY DEF KernelData, KernelHeap, UserSpace
<1>. QED  BY Zenon, <1>1, <1>2, <1>3

(* The whole table: the guard for any access, and kernel text for a write. *)
LEMMA TableAdmits ==
  ASSUME NEW a \in Nat, NEW end \in Nat, a <= end, NEW write \in BOOLEAN
  PROVE  AllAdmit(security_regions_init, a, end, write)
           <=> /\ a > NullEnd
               /\ Text[1] <= Text[2] =>
                    (write => ~(a <= Text[2] /\ end >= Text[1]))
<1>. DEFINE t0 == <<>>
            t1 == region_add(t0, Guard)
            t2 == region_add(t1, KernelText)
            t3 == region_add(t2, KernelData)
            t4 == region_add(t3, KernelHeap)
            t5 == region_add(t4, UserSpace)
            All(t) == AllAdmit(t, a, end, write)
            Adds(t, r) == All(t) /\ (r.first <= r.last => Admits(r, a, end, write))
<1>0. t0 \in Seq(Regions) /\ Len(t0) = 0 /\ All(t0) /\ 5 <= MaxRegions /\ MaxRegions \in Nat
  BY MapAssumption DEF AllAdmit
<1>a. security_regions_init = t5
  BY DEF security_regions_init
<1>b. ASSUME NEW t \in Seq(Regions), NEW r \in Regions, NEW n \in 0 .. 4, Len(t) <= n
      PROVE  /\ region_add(t, r) \in Seq(Regions) /\ Len(region_add(t, r)) <= n + 1
             /\ All(region_add(t, r)) <=> Adds(t, r)
  <2>1. Len(t) \in Nat
    BY <1>b
  <2>2. Len(t) < MaxRegions
    BY <1>0, <1>b, <2>1
  <2>3. /\ region_add(t, r) \in Seq(Regions) /\ Len(region_add(t, r)) <= Len(t) + 1
        /\ All(region_add(t, r)) <=> Adds(t, r)
    BY <1>b, <2>2, RegionAdds
  <2>4. Len(region_add(t, r)) \in Nat
    BY <2>3
  <2>5. Len(region_add(t, r)) <= n + 1
    BY <1>b, <2>1, <2>3, <2>4
  <2>. QED  BY <2>3, <2>5
<1>. HIDE DEF t0, All, Adds
<1>1. t1 \in Seq(Regions) /\ Len(t1) <= 1 /\ (All(t1) <=> Adds(t0, Guard))
  <2>1. 0 \in 0 .. 4 /\ Len(t0) <= 0 /\ 0 + 1 = 1
    BY <1>0
  <2>. QED  BY <1>0, <1>b, <2>1, RegionsAre, Zenon
<1>. HIDE DEF t1
<1>2. t2 \in Seq(Regions) /\ Len(t2) <= 2 /\ (All(t2) <=> Adds(t1, KernelText))
  BY <1>1, <1>b, RegionsAre
<1>. HIDE DEF t2
<1>3. t3 \in Seq(Regions) /\ Len(t3) <= 3 /\ (All(t3) <=> Adds(t2, KernelData))
  BY <1>2, <1>b, RegionsAre
<1>. HIDE DEF t3
<1>4. t4 \in Seq(Regions) /\ Len(t4) <= 4 /\ (All(t4) <=> Adds(t3, KernelHeap))
  BY <1>3, <1>b, RegionsAre
<1>. HIDE DEF t4
<1>5. All(t5) <=> Adds(t4, UserSpace)
  BY <1>4, <1>b, RegionsAre
<1>. HIDE DEF t5
<1>6. KernelText.first = Text[1] /\ KernelText.last = Text[2]
  BY DEF KernelText, Region
<1>7. All(t5) <=> /\ a > NullEnd
                  /\ Text[1] <= Text[2] => (write => ~(a <= Text[2] /\ end >= Text[1]))
  BY <1>0, <1>1, <1>2, <1>3, <1>4, <1>5, <1>6, RegionsAdmit, ZenonT(60) DEF Adds
<1>. QED  BY <1>a, <1>7 DEF All

-----------------------------------------------------------------------------

(* Whatever the layout, an access is let through exactly when it ends      *)
(* below SIZE_MAX and touches neither the guard nor, for a write, a byte   *)
(* of kernel text (security_validate_memory_access).                       *)
THEOREM ValidatorIsExact == MapSpec => []ValidatorExact
<1>1. Built => ValidatorExact
  <2>. SUFFICES ASSUME Built, booted = 1, NEW a \in 0 .. AddrMax,
                       NEW n \in 0 .. SectionSize, NEW write \in BOOLEAN
                PROVE  security_validate_memory_access(a, n, write) <=>
                         /\ n = 0 \/ a + n <= AddrMax
                         /\ \A byte \in {a} \union (a .. a + n - 1) :
                              /\ byte > NullEnd
                              /\ write => byte \notin Text[1] .. Text[2]
    BY DEF ValidatorExact
  <2>. DEFINE end == a + n - (IF n > 0 THEN 1 ELSE 0)
  <2>1. /\ AddrMax \in Nat /\ NullEnd \in Nat /\ Text[1] \in Nat /\ Text[2] \in Nat
        /\ a \in Nat /\ n \in Nat /\ end \in Nat /\ a <= end
        /\ {a} \union (a .. a + n - 1) = a .. end
    BY MapAssumption
  <2>2. protected_regions = security_regions_init
    BY DEF Built
  <2>3. security_validate_memory_access(a, n, write) <=>
          /\ ~(a = NULL /\ n > 0) /\ ~(n > 0 /\ AddrMax - n < a)
          /\ AllAdmit(security_regions_init, a, end, write)
    BY <2>1, <2>2 DEF security_validate_memory_access, AllAdmit, Admits
  <2>4. /\ ~(n > 0 /\ AddrMax - n < a) <=> n = 0 \/ a + n <= AddrMax
        /\ a > NullEnd => a # NULL
    BY <2>1 DEF NULL
  <2>5. a > NullEnd <=> \A byte \in a .. end : byte > NullEnd
    BY <2>1
  <2>6. (Text[1] <= Text[2] => ~(a <= Text[2] /\ end >= Text[1]))
          <=> \A byte \in a .. end : byte \notin Text[1] .. Text[2]
    <3>1. ASSUME Text[1] <= Text[2], a <= Text[2], end >= Text[1]
          PROVE  \E byte \in a .. end : byte \in Text[1] .. Text[2]
      <4>1. CASE a >= Text[1]
        BY <2>1, <3>1, <4>1
      <4>2. CASE a < Text[1]
        BY <2>1, <3>1, <4>2
      <4>. QED  BY <2>1, <4>1, <4>2
    <3>2. ASSUME NEW byte \in a .. end, byte \in Text[1] .. Text[2]
          PROVE  Text[1] <= Text[2] /\ a <= Text[2] /\ end >= Text[1]
      BY <2>1, <3>2
    <3>. QED  BY <3>1, <3>2, Zenon
  <2>7. AllAdmit(security_regions_init, a, end, write)
          <=> a > NullEnd /\ (Text[1] <= Text[2] =>
                               (write => ~(a <= Text[2] /\ end >= Text[1])))
    BY <2>1, TableAdmits
  <2>. HIDE DEF end
  <2>. QED  BY Zenon, <2>1, <2>3, <2>4, <2>5, <2>6, <2>7
<1>. QED  BY <1>1, BuiltInvariance, PTL

-----------------------------------------------------------------------------
(* Where memory_init carves the blocks.                                    *)

Classes == 1 .. Len(BlockSizes)

LEMMA HeapFacts ==
  /\ HeapStart \in Nat /\ HeapEnd \in Nat /\ AddrMax \in Nat /\ NullEnd \in Nat
  /\ HeapEnd <= AddrMax /\ NullEnd < HeapStart
  /\ Text[1] \in Nat /\ Text[2] \in Nat /\ Text[2] < HeapStart
  /\ Len(BlockSizes) \in Nat \ {0} /\ BlocksPerSize \in Nat \ {0}
  /\ \A c \in Classes : BlockSizes[c] \in Nat \ {0}
<1>1. BlockSizes \in Seq(Nat \ {0}) /\ BlockSizes # <<>>
  BY HeapAssumption
<1>2. Len(BlockSizes) \in Nat \ {0} /\ \A c \in Classes : BlockSizes[c] \in Nat \ {0}
  BY <1>1 DEF Classes
<1>. QED  BY <1>2, MapAssumption, HeapAssumption

(* current_heap_ptr, from class to class.                                  *)
LEMMA ClassStarts ==
  /\ ClassStart \in [Classes -> Nat]
  /\ ClassStart[1] = HeapStart
  /\ \A c \in Classes \ {1} :
       ClassStart[c] = ClassStart[c - 1] + BlocksPerSize * BlockSizes[c - 1]
<1>. DEFINE n == Len(BlockSizes) - 1
            step == [c \in 1 .. n |-> [x \in Nat |-> x + BlocksPerSize * BlockSizes[c]]]
            Is(f) == f = [c \in Classes |-> IF c = 1 THEN HeapStart
                                ELSE f[c - 1] + BlocksPerSize * BlockSizes[c - 1]]
<1>1. n \in Nat /\ 1 .. n \subseteq Classes
  BY HeapFacts DEF Classes
<1>2. ASSUME NEW c \in Classes  PROVE BlocksPerSize * BlockSizes[c] \in Nat
  BY HeapFacts
<1>3. step \in [1 .. n -> [Nat -> Nat]]
  BY <1>1, <1>2
<1>4. PICK F \in [0 .. n -> Nat] : Iterates(F, HeapStart, step, n)
  BY Zenon, <1>1, <1>3, HeapFacts, IterExists
<1>. DEFINE G == [c \in Classes |-> F[c - 1]]
<1>5. G \in [Classes -> Nat] /\ G[1] = HeapStart
  BY <1>1, <1>4 DEF Classes, Iterates
<1>6. ASSUME NEW c \in Classes, c # 1
      PROVE  G[c] = G[c - 1] + BlocksPerSize * BlockSizes[c - 1]
  <2>1. c - 1 \in 1 .. n /\ c - 1 \in Classes
    BY <1>1, <1>6, HeapFacts DEF Classes
  <2>2. F[c - 1] = step[c - 1][F[c - 1 - 1]] /\ F[c - 1 - 1] \in Nat
    BY SMTT(60), <1>1, <1>4, <2>1 DEF Iterates
  <2>. QED  BY <2>1, <2>2
<1>. HIDE DEF G
<1>7. Is(G)
  BY <1>5, <1>6
<1>8. ClassStart = CHOOSE f : Is(f)
  BY DEF ClassStart, Classes
<1>. HIDE DEF Is
<1>9. Is(ClassStart)
  BY <1>7, <1>8
<1>a. \A c \in Classes : ClassStart[c] = IF c = 1 THEN HeapStart
                                         ELSE ClassStart[c - 1] + BlocksPerSize * BlockSizes[c - 1]
  BY Zenon, <1>9 DEF Is
<1>10. \A c \in Classes : ClassStart[c] = G[c]
  <2>. DEFINE T == {k \in 0 .. n : ClassStart[k + 1] = G[k + 1]}
  <2>1. 0 \in T
    BY <1>1, <1>5, <1>a, HeapFacts DEF Classes
  <2>2. ASSUME NEW k \in 0 .. n - 1, k \in T  PROVE k + 1 \in T
    <3>1. k + 1 \in Classes /\ k + 2 \in Classes /\ k + 2 # 1 /\ k + 1 \in 0 .. n
          /\ k + 2 - 1 = k + 1 /\ k + 1 + 1 = k + 2
      BY <1>1, HeapFacts DEF Classes
    <3>2. ClassStart[k + 2] = ClassStart[k + 1] + BlocksPerSize * BlockSizes[k + 1]
      BY <1>a, <3>1
    <3>3. G[k + 2] = G[k + 1] + BlocksPerSize * BlockSizes[k + 1]
      BY <1>6, <3>1
    <3>. QED  BY <2>2, <3>1, <3>2, <3>3
  <2>. HIDE DEF T
  <2>3. \A k \in 0 .. n : k \in T
    BY Zenon, <1>1, <2>1, <2>2, UpTo
  <2>4. ASSUME NEW c \in Classes  PROVE c - 1 \in 0 .. n /\ c - 1 + 1 = c
    BY HeapFacts DEF Classes
  <2>. QED  BY <2>3, <2>4 DEF T
<1>11. ClassStart \in [Classes -> Nat]
  <2>1. ClassStart = [c \in Classes |-> ClassStart[c]]
    BY <1>9 DEF Is
  <2>. QED  BY <1>5, <1>10, <2>1
<1>12. 1 \in Classes /\ \A c \in Classes \ {1} : c - 1 \in Classes
  BY HeapFacts DEF Classes
<1>. QED  BY <1>5, <1>6, <1>10, <1>11, <1>12

(* Blocks i and below of a class of n blocks of s bytes.                   *)
LEMMA BlocksFit ==
  ASSUME NEW s \in Nat, NEW n \in Nat, NEW i \in 0 .. n - 1
  PROVE  i * s \in Nat /\ i * s + s <= n * s /\ n * s \in Nat
<1>1. i * s + s = (i + 1) * s /\ i * s \in Nat /\ n * s \in Nat
  OBVIOUS
<1>2. PICK d \in Nat : n = i + 1 + d
  <2>1. n - i - 1 \in Nat /\ n = i + 1 + (n - i - 1)
    OBVIOUS
  <2>. QED  BY <2>1
<1>3. n * s = (i + 1) * s + d * s /\ d * s \in Nat
  BY <1>2
<1>. QED  BY <1>1, <1>3

(* A class ends where or before every later class starts.                  *)
LEMMA ClassesApart ==
  ASSUME NEW c \in Classes, NEW d \in Classes, c < d
  PROVE  ClassStart[c] + BlocksPerSize * BlockSizes[c] <= ClassStart[d]
<1>. DEFINE End(k) == ClassStart[k] + BlocksPerSize * BlockSizes[k]
            n == Len(BlockSizes) - c - 1
            T == {k \in 0 .. n : End(c) <= ClassStart[c + 1 + k]}
<1>1. /\ c \in Nat /\ d \in Nat /\ Len(BlockSizes) \in Nat /\ n \in Nat
      /\ \A k \in 0 .. n : c + 1 + k \in Classes \ {1}
  BY HeapFacts DEF Classes
<1>2. \A k \in Classes : ClassStart[k] \in Nat /\ BlocksPerSize * BlockSizes[k] \in Nat
  BY SMTT(60), ClassStarts, HeapFacts
<1>b. \A e \in Classes, f \in Classes : f = e + 1 => ClassStart[f] = End(e)
  <2>1. ASSUME NEW e \in Classes, NEW f \in Classes, f = e + 1  PROVE f # 1 /\ f - 1 = e
    BY <2>1 DEF Classes
  <2>. QED  BY <2>1, ClassStarts
<1>3. 0 \in T
  <2>1. 0 \in 0 .. n /\ c + 1 + 0 \in Classes /\ c + 1 + 0 = c + 1
    BY <1>1
  <2>2. ClassStart[c + 1 + 0] = End(c)
    BY <1>b, <2>1, Zenon
  <2>3. End(c) \in Nat
    BY <1>2
  <2>. QED  BY <2>1, <2>2, <2>3
<1>4. ASSUME NEW k \in 0 .. n - 1, k \in T  PROVE k + 1 \in T
  <2>0. k \in 0 .. n /\ k + 1 \in 0 .. n /\ c + 1 + (k + 1) = (c + 1 + k) + 1
    BY <1>1
  <2>1. c + 1 + k \in Classes /\ c + 1 + (k + 1) \in Classes
    BY <1>1, <2>0, Zenon
  <2>2. ClassStart[c + 1 + (k + 1)] = End(c + 1 + k)
    BY <1>b, <2>0, <2>1, Zenon
  <2>3. End(c) <= ClassStart[c + 1 + k] /\ End(c) \in Nat
    BY SMTT(60), <1>2, <1>4
  <2>4. End(c) <= End(c + 1 + k)
    BY <1>2, <2>1, <2>3
  <2>. QED  BY <2>0, <2>2, <2>4
<1>. HIDE DEF T
<1>5. \A k \in 0 .. n : k \in T
  BY ZenonT(60), <1>1, <1>3, <1>4, UpTo
<1>6. d - c - 1 \in 0 .. n /\ c + 1 + (d - c - 1) = d
  BY <1>1 DEF Classes
<1>. QED  BY <1>5, <1>6 DEF T

Size(b) == BlockSizes[b[1]]

(* Every block has its place in the heap, and no two share a byte.         *)
LEMMA CarvedInHeap ==
  ASSUME NEW b \in Blocks
  PROVE  /\ Size(b) \in Nat \ {0} /\ Carved(b) \in Nat
         /\ Carved(b) = ClassStart[b[1]] + b[2] * Size(b)
         /\ HeapStart <= Carved(b) /\ Carved(b) + Size(b) <= HeapEnd
<1>. DEFINE c == b[1]  i == b[2]  n == Len(BlockSizes)
            a == ClassStart[c] + i * Size(b)
            All == BlocksPerSize * Size(b)
<1>1. c \in Classes /\ i \in 0 .. BlocksPerSize - 1 /\ n \in Classes
  BY HeapFacts DEF Blocks, Classes
<1>2. Size(b) \in Nat \ {0} /\ BlocksPerSize \in Nat
  BY <1>1, HeapFacts DEF Size
<1>3. i * Size(b) \in Nat /\ i * Size(b) + Size(b) <= All /\ All \in Nat
  BY Zenon, <1>1, <1>2, BlocksFit
<1>4. \A k \in Classes : ClassStart[k] \in Nat /\ HeapStart <= ClassStart[k]
  <2>1. ASSUME NEW k \in Classes, k # 1  PROVE HeapStart <= ClassStart[k]
    <3>1. 1 \in Classes /\ 1 < k
      BY <2>1, HeapFacts DEF Classes
    <3>2. BlocksPerSize * BlockSizes[1] \in Nat /\ HeapStart \in Nat
      BY <3>1, HeapFacts
    <3>3. ClassStart[1] + BlocksPerSize * BlockSizes[1] <= ClassStart[k]
      BY <3>1, ClassesApart
    <3>. QED  BY <3>2, <3>3, ClassStarts
  <2>. QED  BY <2>1, ClassStarts, HeapFacts
<1>5. ClassStart[c] + All <= HeapEnd
  <2>1. ClassStart[n] + BlocksPerSize * BlockSizes[n] <= HeapEnd
    BY HeapAssumption
  <2>2. CASE c = n
    BY <2>1, <2>2 DEF Size
  <2>3. CASE c # n
    <3>1. c < n
      BY <1>1, <2>3, HeapFacts DEF Classes
    <3>2. ClassStart[c] + All <= ClassStart[n]
      BY <1>1, <3>1, ClassesApart DEF Size
    <3>3. BlocksPerSize * BlockSizes[n] \in Nat
      BY SMTT(60), <1>1, HeapFacts
    <3>4. ClassStart[c] \in Nat /\ ClassStart[n] \in Nat /\ HeapEnd \in Nat
      BY Zenon, <1>1, <1>4, HeapFacts
    <3>. HIDE DEF c, n, All
    <3>. QED  BY <1>3, <2>1, <3>2, <3>3, <3>4
  <2>. QED  BY <2>2, <2>3
<1>6. a \in Nat /\ HeapStart <= a /\ a + Size(b) <= HeapEnd
  <2>1. ClassStart[c] \in Nat /\ HeapStart <= ClassStart[c] /\ HeapEnd \in Nat
        /\ HeapStart \in Nat
    BY <1>1, <1>4, HeapFacts
  <2>. HIDE DEF c, i, All
  <2>. QED  BY <1>2, <1>3, <1>5, <2>1
<1>7. Carved(b) = a
  BY <1>6 DEF Carved, Size
<1>. QED  BY <1>2, <1>6, <1>7

LEMMA CarvedApart ==
  ASSUME NEW b \in Blocks, NEW d \in Blocks, b # d
  PROVE  Carved(b) + Size(b) <= Carved(d) \/ Carved(d) + Size(d) <= Carved(b)
<1>1. /\ b[1] \in Classes /\ b[2] \in 0 .. BlocksPerSize - 1
      /\ d[1] \in Classes /\ d[2] \in 0 .. BlocksPerSize - 1
      /\ b[1] # d[1] \/ b[2] # d[2]
  BY DEF Blocks, Classes
<1>2. BlocksPerSize \in Nat
  BY HeapFacts
<1>3. ASSUME NEW x \in Blocks, NEW y \in Blocks,
             x[1] \in Classes, x[2] \in 0 .. BlocksPerSize - 1,
             y[1] \in Classes, y[2] \in 0 .. BlocksPerSize - 1, x[1] < y[1]
      PROVE  Carved(x) + Size(x) <= Carved(y)
  <2>1. ClassStart[x[1]] + BlocksPerSize * Size(x) <= ClassStart[y[1]]
    BY <1>3, ClassesApart DEF Size
  <2>2. /\ x[2] * Size(x) \in Nat /\ y[2] * Size(y) \in Nat
        /\ x[2] * Size(x) + Size(x) <= BlocksPerSize * Size(x)
        /\ BlocksPerSize * Size(x) \in Nat
    BY Zenon, <1>2, <1>3, BlocksFit, CarvedInHeap
  <2>3. ClassStart[x[1]] \in Nat /\ ClassStart[y[1]] \in Nat /\ Size(x) \in Nat
    BY Zenon, <1>3, ClassStarts, CarvedInHeap
  <2>4. /\ Carved(x) = ClassStart[x[1]] + x[2] * Size(x)
        /\ Carved(y) = ClassStart[y[1]] + y[2] * Size(y)
    BY CarvedInHeap
  <2>. QED  BY <2>1, <2>2, <2>3, <2>4
<1>4. ASSUME NEW x \in Blocks, NEW y \in Blocks,
             x[1] \in Classes, x[2] \in 0 .. BlocksPerSize - 1,
             y[2] \in 0 .. BlocksPerSize - 1, x[1] = y[1], x[2] < y[2]
      PROVE  Carved(x) + Size(x) <= Carved(y)
  <2>1. x[2] * Size(x) + Size(x) <= y[2] * Size(x)
    <3>1. x[2] \in 0 .. y[2] - 1 /\ y[2] \in Nat
      BY <1>2, <1>4
    <3>. QED  BY <3>1, BlocksFit, CarvedInHeap
  <2>2. Size(y) = Size(x) /\ x[2] * Size(x) \in Nat /\ y[2] * Size(x) \in Nat
    BY Zenon, <1>2, <1>4, BlocksFit, CarvedInHeap DEF Size
  <2>3. ClassStart[x[1]] \in Nat /\ Size(x) \in Nat
    BY Zenon, <1>4, ClassStarts, CarvedInHeap
  <2>4. /\ Carved(x) = ClassStart[x[1]] + x[2] * Size(x)
        /\ Carved(y) = ClassStart[x[1]] + y[2] * Size(x)
    BY Zenon, <1>4, <2>2, CarvedInHeap
  <2>. QED  BY <2>1, <2>2, <2>3, <2>4
<1>5. \/ b[1] < d[1] \/ d[1] < b[1]
      \/ b[1] = d[1] /\ (b[2] < d[2] \/ d[2] < b[2])
  BY SMTT(60), <1>1, <1>2, HeapFacts DEF Classes
<1>. QED  BY Zenon, <1>1, <1>3, <1>4, <1>5

-----------------------------------------------------------------------------
(* Sections.                                                               *)

LEMMA DivMonotone ==
  ASSUME NEW n \in Nat \ {0}, NEW x \in Nat, NEW y \in Nat, x <= y
  PROVE  x \div n \in Nat /\ x \div n <= y \div n
  OBVIOUS

(* Every byte of the heap lies in a section of its own, which arm_mmu_init *)
(* maps for the kernel and which is not the first section of user space.   *)
LEMMA HeapSectionsAre ==
  ASSUME NEW a \in Heap
  PROVE  /\ SectionOf(a) \in Sections /\ SectionOf(a) \in HeapSections
         /\ SectionOf(a) # SectionOf(User[1])
<1>. DEFINE z == SectionSize  u == User[1]
<1>1. /\ z \in Nat \ {0} /\ u \in Nat /\ User[2] \in Nat /\ u <= User[2]
      /\ HeapEnd <= u \/ HeapStart > User[2]
      /\ HeapStart % z = 0 /\ u % z = 0 /\ HeapStart \in Nat /\ HeapEnd \in Nat
      /\ AddrMax \in Nat /\ HeapEnd <= AddrMax
      /\ a \in Nat /\ HeapStart <= a /\ a < HeapEnd
  <2>1. /\ z \in Nat \ {0} /\ u \in Nat /\ User[2] \in Nat
        /\ HeapEnd <= u \/ HeapStart > User[2]
    BY Zenon, MapAssumption
  <2>2. u <= User[2] /\ HeapStart % z = 0 /\ u % z = 0
    BY HeapAssumption, Zenon
  <2>. QED  BY <2>1, <2>2, HeapFacts DEF Heap
<1>a. a \in Int /\ u \in Int /\ HeapStart \in Int
  BY <1>1
<1>. HIDE DEF z, u
<1>2. /\ HeapStart \div z \in Nat /\ HeapStart \div z <= a \div z
      /\ a \div z <= AddrMax \div z /\ AddrMax \div z \in Nat /\ u \div z \in Nat
      /\ a \div z \in Nat
  <2>1. a <= AddrMax /\ u <= u /\ AddrMax <= AddrMax
    BY <1>1
  <2>. QED  BY <1>1, <2>1, DivMonotone, Zenon
<1>3. a \div z + 1 <= (HeapEnd + z - 1) \div z /\ (HeapEnd + z - 1) \div z \in Nat
  <2>1. a + z \in Nat /\ HeapEnd + z - 1 \in Nat /\ a + z <= HeapEnd + z - 1
    BY <1>1
  <2>2. (a + z) \div z = a \div z + 1
    <3>1. a = (a \div z) * z + (a % z) /\ a % z \in 0 .. z - 1
      BY <1>1, <1>a, ModSplit, Zenon
    <3>2. (a \div z + 1) * z = (a \div z) * z + z
      BY <1>1, <1>2
    <3>3. a + z = (a \div z + 1) * z + (a % z)
      BY <1>1, <1>2, <3>1, <3>2
    <3>4. a \div z + 1 \in Int
      BY <1>2
    <3>. QED  BY <1>1, <3>1, <3>3, <3>4, ModUnique, ZenonT(60)
  <2>3. /\ (a + z) \div z <= (HeapEnd + z - 1) \div z
        /\ (HeapEnd + z - 1) \div z \in Nat
    BY <1>1, <2>1, DivMonotone
  <2>. QED  BY <2>2, <2>3
<1>4. a \div z # u \div z
  <2>1. /\ u = (u \div z) * z /\ HeapStart = (HeapStart \div z) * z
        /\ a = (a \div z) * z + (a % z) /\ a % z \in 0 .. z - 1
    <3>1. u = (u \div z) * z + (u % z) /\ HeapStart = (HeapStart \div z) * z + (HeapStart % z)
          /\ a = (a \div z) * z + (a % z) /\ a % z \in 0 .. z - 1
      BY <1>1, <1>a, ModSplit, Zenon
    <3>2. (u \div z) * z \in Nat /\ (HeapStart \div z) * z \in Nat
      BY <1>1, <1>2
    <3>. QED  BY <1>1, <3>1, <3>2
  <2>2. SUFFICES ASSUME a \div z = u \div z  PROVE FALSE
    OBVIOUS
  <2>3. u <= a
    BY <1>1, <2>1, <2>2
  <2>4. HeapStart > u
    BY <1>1, <2>3
  <2>5. HeapStart \div z <= u \div z
    BY <1>2, <2>2
  <2>6. (HeapStart \div z) * z <= (u \div z) * z
    BY <1>1, <1>2, <2>5
  <2>. QED  BY <1>1, <2>1, <2>4, <2>6
<1>. QED  BY <1>2, <1>3, <1>4 DEF SectionOf, Sections, HeapSections, z, u

-----------------------------------------------------------------------------
(* The block allocator.                                                    *)

(* The addresses are the carved ones once memory_init has run; a block is  *)
(* in use exactly when a caller owns its address; and no section of the    *)
(* heap loses its kernel mapping.                                          *)
BlocksInv ==
  /\ Built
  /\ in_use \subseteq Blocks
  /\ booted >= 2 => address = [b \in Blocks |-> Carved(b)]
  /\ booted < 3 => in_use = {}
  /\ owned = {address[b] : b \in in_use}
  /\ booted = 3 => /\ l1_page_table = [s \in Sections |-> l1_page_table[s]]
                   /\ \A a \in Heap : l1_page_table[SectionOf(a)] = "kernel"

LEMMA BlocksInit == MapInit => BlocksInv
BY DEF MapInit, BlocksInv, Built

(* What the invariant says of a block once the allocator is in use.        *)
LEMMA BlockFacts ==
  ASSUME BlocksInv, booted >= 2, NEW b \in Blocks
  PROVE  /\ address[b] = Carved(b) /\ address[b] \in Nat /\ Size(b) \in Nat \ {0}
         /\ HeapStart <= address[b] /\ address[b] + Size(b) <= HeapEnd
         /\ address[b] \in Heap /\ address[b] # NULL
         /\ \A d \in Blocks : address[d] = address[b] => d = b
<1>1. address = [d \in Blocks |-> Carved(d)]
  BY DEF BlocksInv
<1>2. \A d \in Blocks : address[d] = Carved(d)
  BY <1>1
<1>3. \A d \in Blocks : /\ Size(d) \in Nat \ {0} /\ Carved(d) \in Nat
                        /\ HeapStart <= Carved(d) /\ Carved(d) + Size(d) <= HeapEnd
  BY CarvedInHeap
<1>4. Carved(b) \in Heap /\ Carved(b) # NULL
  BY SMTT(60), <1>3, HeapFacts DEF Heap, NULL
<1>5. ASSUME NEW d \in Blocks, Carved(d) = Carved(b)  PROVE d = b
  <2>1. SUFFICES ASSUME d # b  PROVE FALSE
    OBVIOUS
  <2>2. Carved(b) + Size(b) <= Carved(d) \/ Carved(d) + Size(d) <= Carved(b)
    BY <2>1, CarvedApart
  <2>. QED  BY <1>3, <1>5, <2>2
<1>. QED  BY <1>2, <1>3, <1>4, <1>5

LEMMA BootKeepsBlocks ==
  ASSUME BlocksInv, Built', security_init \/ memory_init \/ arm_mmu_init
  PROVE  BlocksInv'
<1>1. Built /\ in_use = {} /\ UNCHANGED <<in_use, owned>> /\ owned = {} /\ booted \in 0 .. 2
  BY DEF BlocksInv, Built, security_init, memory_init, arm_mmu_init
<1>2. /\ in_use' \subseteq Blocks /\ in_use' = {}
      /\ owned' = {address'[b] : b \in in_use'}
  BY <1>1
<1>3. booted' >= 2 => address' = [b \in Blocks |-> Carved(b)]
  BY DEF BlocksInv, security_init, memory_init, arm_mmu_init
<1>4. ASSUME booted' = 3
      PROVE  /\ l1_page_table' = [s \in Sections |-> l1_page_table'[s]]
             /\ \A a \in Heap : l1_page_table'[SectionOf(a)] = "kernel"
  <2>1. arm_mmu_init
    BY <1>4 DEF security_init, memory_init
  <2>2. /\ l1_page_table' = [s \in Sections |-> l1_page_table'[s]]
        /\ \A s \in Sections : s \in HeapSections => l1_page_table'[s] = "kernel"
    BY <2>1 DEF arm_mmu_init
  <2>. QED  BY <2>2, HeapSectionsAre
<1>. QED  BY <1>2, <1>3, <1>4 DEF BlocksInv

LEMMA AllocKeepsBlocks ==
  ASSUME BlocksInv, Built', NEW n, alloc_memory(n)
  PROVE  BlocksInv'
<1>1. /\ booted = 3 /\ UNCHANGED <<booted, l1_page_table, address>>
  BY Zenon DEF alloc_memory
<1>2. in_use' \subseteq Blocks /\ owned' = {address[b] : b \in in_use'}
  <2>1. ASSUME NEW b \in Blocks, in_use' = in_use \union {b},
               owned' = owned \union ({address[b]} \ {NULL})
        PROVE  in_use' \subseteq Blocks /\ owned' = {address[d] : d \in in_use'}
    <3>1. address[b] # NULL
      <4>1. booted >= 2
        BY <1>1
      <4>. QED  BY Zenon, <4>1, BlockFacts
    <3>2. in_use \subseteq Blocks /\ owned = {address[d] : d \in in_use}
      BY DEF BlocksInv
    <3>. QED  BY <2>1, <3>1, <3>2
  <2>2. CASE UNCHANGED <<in_use, owned>>
    BY <2>2 DEF BlocksInv
  <2>. QED  BY Zenon, <2>1, <2>2 DEF alloc_memory
<1>. QED  BY <1>1, <1>2 DEF BlocksInv

LEMMA FreeKeepsBlocks ==
  ASSUME BlocksInv, Built', NEW a, free_memory(a)
  PROVE  BlocksInv'
<1>1. booted = 3 /\ UNCHANGED <<booted, l1_page_table, address>> /\ owned' = owned \ {a}
  BY Zenon DEF free_memory
<1>2. in_use \subseteq Blocks /\ owned = {address[d] : d \in in_use}
  BY DEF BlocksInv
<1>0. booted >= 2
  BY <1>1
<1>3. \A b, d \in in_use : address[d] = address[b] => d = b
  BY Zenon, <1>0, <1>2, BlockFacts
<1>4. in_use' \subseteq Blocks /\ owned' = {address[b] : b \in in_use'}
  <2>1. ASSUME NEW b \in in_use, a = address[b], in_use' = in_use \ {b}
        PROVE  in_use' \subseteq Blocks /\ owned' = {address[d] : d \in in_use'}
    BY <1>1, <1>2, <1>3, <2>1
  <2>2. ASSUME a \notin Heap \/ \A b \in in_use : a # address[b], in_use' = in_use
        PROVE  in_use' \subseteq Blocks /\ owned' = {address[d] : d \in in_use'}
    <3>1. \A b \in in_use : a # address[b]
      BY Zenon, <1>0, <1>2, <2>2, BlockFacts
    <3>2. owned' = owned
      BY Zenon, <1>1, <1>2, <3>1
    <3>. QED  BY Zenon, <1>1, <1>2, <2>2, <3>2
  <2>. QED  BY Zenon, <2>1, <2>2 DEF free_memory, IsAt
<1>. QED  BY <1>1, <1>4 DEF BlocksInv

LEMMA FlipKeepsBlocks ==
  ASSUME BlocksInv, Built', NEW s \in FlippedSections, NEW ap, arm_section_set_ap(s, ap)
  PROVE  BlocksInv'
<1>1. booted = 3 /\ UNCHANGED <<booted, address, in_use, owned>>
  BY DEF arm_section_set_ap
<1>2. /\ l1_page_table = [t \in Sections |-> l1_page_table[t]]
      /\ \A a \in Heap : l1_page_table[SectionOf(a)] = "kernel"
  BY <1>1 DEF BlocksInv
<1>3. CASE l1_page_table[s] = "unmapped"
  <2>1. l1_page_table' = l1_page_table
    BY <1>3 DEF arm_section_set_ap
  <2>. QED  BY <1>1, <2>1 DEF BlocksInv
<1>4. CASE l1_page_table[s] # "unmapped"
  <2>1. l1_page_table' = [l1_page_table EXCEPT ![s] = ap]
    BY <1>4 DEF arm_section_set_ap
  <2>2. s = SectionOf(User[1])
    BY <1>4 DEF FlippedSections
  <2>3. /\ l1_page_table' = [t \in Sections |-> l1_page_table'[t]]
        /\ \A t \in Sections : t # s => l1_page_table'[t] = l1_page_table[t]
    BY <1>2, <2>1
  <2>4. \A a \in Heap : l1_page_table'[SectionOf(a)] = "kernel"
    BY Zenon, <1>2, <2>2, <2>3, HeapSectionsAre
  <2>. QED  BY <1>1, <2>3, <2>4 DEF BlocksInv
<1>. QED  BY <1>3, <1>4

LEMMA BlocksStep == BlocksInv /\ [MapNext]_<<vars, mapVars>> => BlocksInv'
<1>. SUFFICES ASSUME BlocksInv, [MapNext]_<<vars, mapVars>>  PROVE BlocksInv'
  OBVIOUS
<1>0. Built'
  BY BuiltStep DEF BlocksInv
<1>1. CASE UNCHANGED mapVars
  BY Zenon, <1>0, <1>1 DEF BlocksInv, mapVars
<1>2. CASE security_init \/ memory_init \/ arm_mmu_init
  BY <1>0, <1>2, BootKeepsBlocks
<1>3. ASSUME NEW n \in Sizes, alloc_memory(n)  PROVE BlocksInv'
  BY <1>0, <1>3, AllocKeepsBlocks
<1>4. ASSUME NEW a \in FreedAddresses, free_memory(a)  PROVE BlocksInv'
  BY <1>0, <1>4, FreeKeepsBlocks
<1>5. ASSUME NEW b \in Blocks, OwnerWrites(b)  PROVE BlocksInv'
  <2>1. UNCHANGED <<booted, l1_page_table, address, in_use, owned>>
    BY <1>5 DEF OwnerWrites
  <2>. QED  BY Zenon, <1>0, <2>1 DEF BlocksInv
<1>6. ASSUME NEW s \in FlippedSections, NEW ap \in {"kernel", "user"},
             arm_section_set_ap(s, ap)
      PROVE  BlocksInv'
  BY <1>0, <1>6, FlipKeepsBlocks
<1>7. FrameCalls \/ UNCHANGED <<vars, mapVars>> => UNCHANGED mapVars
  BY DEF FrameCalls
<1>. QED  BY Zenon, <1>1, <1>2, <1>3, <1>4, <1>5, <1>6, <1>7 DEF MapNext

LEMMA BlocksInvariance == MapSpec => []BlocksInv
BY BlocksInit, BlocksStep, PTL DEF MapSpec

(* For every layout, number and size of blocks, and after any sequence of  *)
(* good and refused frees: callers own blocks that lie in the heap and     *)
(* share no byte, owned and in_use agree (memory.c), and the section table *)
(* of arm_mmu.c maps every block for the kernel alone.                     *)
THEOREM BlocksStayApart == MapSpec => []BlocksApart
<1>1. BlocksInv => BlocksApart
  <2>. SUFFICES ASSUME BlocksInv  PROVE BlocksApart
    OBVIOUS
  <2>1. booted \in 0 .. 3 /\ in_use \subseteq Blocks /\ owned = {address[b] : b \in in_use}
    BY DEF BlocksInv, Built
  <2>2. ASSUME booted >= 2, NEW b \in Blocks  PROVE Bytes(b) \subseteq Heap
    <3>1. /\ address[b] \in Nat /\ Size(b) \in Nat
          /\ HeapStart <= address[b] /\ address[b] + Size(b) <= HeapEnd
      BY Zenon, <2>2, BlockFacts
    <3>2. HeapStart \in Nat /\ HeapEnd \in Nat
      BY HeapFacts
    <3>3. Bytes(b) = address[b] .. address[b] + Size(b) - 1
      BY Zenon DEF Bytes, Size
    <3>. QED  BY SMTT(60), <3>1, <3>2, <3>3 DEF Heap
  <2>3. booted = 3 => \A b \in Blocks : \A a \in Bytes(b) : l1_page_table[SectionOf(a)] = "kernel"
    BY <2>2 DEF BlocksInv
  <2>4. \A b \in in_use : booted >= 2
    BY <2>1 DEF BlocksInv
  <2>5. ASSUME NEW b \in in_use, NEW c \in in_use, b # c
        PROVE  Bytes(b) \intersect Bytes(c) = {}
    <3>1. booted >= 2 /\ b \in Blocks /\ c \in Blocks
      BY <2>1, <2>4
    <3>2. /\ address[b] = Carved(b) /\ address[b] \in Nat /\ Size(b) \in Nat
          /\ address[c] = Carved(c) /\ address[c] \in Nat /\ Size(c) \in Nat
      BY Zenon, <3>1, BlockFacts
    <3>3. Carved(b) + Size(b) <= Carved(c) \/ Carved(c) + Size(c) <= Carved(b)
      BY <2>5, <3>1, CarvedApart
    <3>. QED  BY <3>2, <3>3 DEF Bytes, Size
  <2>. QED  BY Zenon, <2>1, <2>2, <2>3, <2>4, <2>5 DEF BlocksApart
<1>. QED  BY <1>1, BlocksInvariance, PTL

(* The region table never refuses a memset of bytes of the heap.           *)
LEMMA HeapMayBeWritten ==
  ASSUME Built, booted >= 1, NEW a \in Nat, NEW n \in Nat \ {0},
         HeapStart <= a, a + n <= HeapEnd
  PROVE  security_validate_memory_access(a, n, TRUE)
<1>. DEFINE end == a + n - 1
<1>1. protected_regions = security_regions_init
  BY DEF Built
<1>2. a # NULL /\ ~(AddrMax - n < a) /\ end \in Nat /\ a <= end /\ a > NullEnd
      /\ ~(a <= Text[2])
  BY HeapFacts DEF NULL
<1>3. AllAdmit(security_regions_init, a, end, TRUE)
  BY ZenonT(60), <1>2, TableAdmits
<1>. QED  BY <1>1, <1>2, <1>3 DEF security_validate_memory_access, AllAdmit, Admits

(* alloc_memory gives out zeroed memory, whatever was written before: its  *)
(* memset, which does nothing when the validator refuses, is never refused. *)
THEOREM AllocIsCleared == MapSpec => AllocCleared
<1>. DEFINE Clears == \A b \in Blocks : b \in in_use' \ in_use =>
              \A a \in address[b] .. address[b] + BlockSizes[b[1]] - 1 : a \notin dirty'
<1>1. BlocksInv /\ [MapNext]_<<vars, mapVars>> => [Clears]_mapVars
  <2>. SUFFICES ASSUME BlocksInv, MapNext, NEW b \in Blocks, b \in in_use', b \notin in_use
                PROVE  \A a \in address[b] .. address[b] + BlockSizes[b[1]] - 1 : a \notin dirty'
    BY Zenon DEF mapVars
  <2>1. PICK n \in Sizes : alloc_memory(n)
    BY Zenon DEF MapNext, FrameCalls, mapVars, security_init, memory_init, arm_mmu_init,
           free_memory, OwnerWrites, arm_section_set_ap
  <2>2. booted = 3 /\ dirty' = Zeroed(address[b], BlockSizes[b[1]])
    BY Zenon, <2>1 DEF alloc_memory
  <2>3. /\ address[b] \in Nat /\ Size(b) \in Nat \ {0}
        /\ HeapStart <= address[b] /\ address[b] + Size(b) <= HeapEnd
    <3>1. booted >= 2
      BY <2>2
    <3>. QED  BY Zenon, <3>1, BlockFacts
  <2>4. security_validate_memory_access(address[b], Size(b), TRUE)
    <3>1. Built /\ booted >= 1
      BY <2>2 DEF BlocksInv
    <3>. QED  BY Zenon, <2>3, <3>1, HeapMayBeWritten
  <2>. QED  BY Zenon, <2>2, <2>4 DEF Zeroed, Size
<1>. QED  BY <1>1, BlocksInvariance, PTL DEF MapSpec, AllocCleared
-----------------------------------------------------------------------------
(* The memory and string functions: copies.                                *)

Stores == [Cell -> Chars]

LEMMA CharsAre ==
  Chars \subseteq Nat /\ \A u \in Chars : u \in 0 .. 2 * HighBit - 1 /\ PlainChar(u) \in Int
<1>1. \A u \in 0 .. 2 * HighBit - 1 : u \in Nat /\ u - 2 * HighBit \in Int /\ u \in Int
  BY UtilsAssumption
<1>. QED  BY Zenon, <1>1, UtilsAssumption DEF PlainChar

(* The bytes at from .. upto have been moved by the distance d - s.        *)
Partly(byte, b, d, s, from, upto) ==
  \A a \in Cell : b[a] = IF a \in from .. upto THEN byte[s + (a - d)] ELSE byte[a]

LEMMA MovedIs ==
  ASSUME NEW byte \in Stores, NEW b \in Stores, NEW d \in Int, NEW s \in Int, NEW n \in Int,
         Partly(byte, b, d, s, d, d + n - 1)
  PROVE  b = Moved(byte, d, s, n)
<1>1. b = [a \in Cell |-> b[a]]
  BY Zenon DEF Stores
<1>. QED  BY Zenon, <1>1 DEF Moved, Partly

LEMMA Copies ==
  ASSUME NEW byte \in Stores, NEW d \in Cell, NEW s \in Cell, NEW n \in Nat,
         d + n <= Cells, s + n <= Cells
  PROVE  /\ d <= s \/ s + n <= d => CopyLoop(byte, d, s, Upward(n)) = Moved(byte, d, s, n)
         /\ d > s => CopyLoop(byte, d, s, Downward(n)) = Moved(byte, d, s, n)
(* The loop goes through the memories F[0], F[1], ...                      *)
<1>1. ASSUME NEW off, Len(off) = n, \A k \in 1 .. n : off[k] \in 0 .. n - 1
      PROVE  \E F \in [0 .. n -> Stores] :
               /\ F[0] = byte /\ CopyLoop(byte, d, s, off) = F[n]
               /\ \A k \in 1 .. n : F[k] = [F[k - 1] EXCEPT ![d + off[k]] = F[k - 1][s + off[k]]]
  <2>. DEFINE Is(f) == f = [k \in 0 .. n |->
                              IF k = 0 THEN byte
                              ELSE [f[k - 1] EXCEPT ![d + off[k]] = f[k - 1][s + off[k]]]]
              round(k) == [b \in Stores |-> [b EXCEPT ![d + off[k]] = b[s + off[k]]]]
              step == [k \in 1 .. n |-> round(k)]
  <2>1. ASSUME NEW k \in 1 .. n  PROVE d + off[k] \in Cell /\ s + off[k] \in Cell
    BY SMTT(60), <1>1, UtilsAssumption DEF Cell
  <2>2. ASSUME NEW k \in 1 .. n  PROVE round(k) \in [Stores -> Stores]
    <3>1. ASSUME NEW b \in Stores  PROVE [b EXCEPT ![d + off[k]] = b[s + off[k]]] \in Stores
      BY Zenon, <2>1 DEF Stores
    <3>. QED  BY Zenon, <3>1
  <2>. HIDE DEF round
  <2>3. step \in [1 .. n -> [Stores -> Stores]]
    BY Zenon, <2>2
  <2>4. PICK F \in [0 .. n -> Stores] : Iterates(F, byte, step, n)
    BY Zenon, <2>3, IterExists
  <2>5. \A k \in 1 .. n : k - 1 \in 0 .. n /\ k \in 0 .. n /\ k # 0
    OBVIOUS
  <2>6. F[0] = byte /\ \A k \in 1 .. n : F[k] = [F[k - 1] EXCEPT ![d + off[k]] = F[k - 1][s + off[k]]]
    BY Zenon, <2>4, <2>5 DEF Iterates, round
  <2>. HIDE DEF step
  <2>7. 0 \in 0 .. n /\ n \in 0 .. n /\ \A k \in 0 .. n : k # 0 => k \in 1 .. n
    OBVIOUS
  <2>8. Is(F)
    BY Zenon, <2>4, <2>6, <2>7
  <2>9. PICK f : f = CHOOSE g : Is(g)
    BY Zenon
  <2>10. CopyLoop(byte, d, s, off) = f[n]
    BY Zenon, <1>1, <2>9 DEF CopyLoop
  <2>11. Is(f)
    <3>. HIDE DEF Is
    <3>. QED  BY Zenon, <2>8, <2>9
  <2>12. f[0] = byte /\ \A k \in 1 .. n : f[k] = [f[k - 1] EXCEPT ![d + off[k]] = f[k - 1][s + off[k]]]
    BY Zenon, <2>5, <2>7, <2>11
  <2>13. \A k \in 0 .. n : f[k] = F[k]
    <3>. DEFINE T == {k \in 0 .. n : f[k] = F[k]}
    <3>1. 0 \in T
      BY Zenon, <2>6, <2>7, <2>12
    <3>2. ASSUME NEW k \in 0 .. n - 1, k \in T  PROVE k + 1 \in T
      <4>1. k + 1 \in 1 .. n /\ (k + 1) - 1 = k /\ k + 1 \in 0 .. n
        OBVIOUS
      <4>2. f[k + 1] = [f[k] EXCEPT ![d + off[k + 1]] = f[k][s + off[k + 1]]]
        BY Zenon, <2>12, <4>1
      <4>3. F[k + 1] = [F[k] EXCEPT ![d + off[k + 1]] = F[k][s + off[k + 1]]]
        BY Zenon, <2>6, <4>1
      <4>. QED  BY Zenon, <3>2, <4>1, <4>2, <4>3
    <3>. HIDE DEF T
    <3>3. \A k \in 0 .. n : k \in T
      BY Zenon, <3>1, <3>2, UpTo
    <3>. QED  BY Zenon, <3>3 DEF T
  <2>. QED  BY Zenon, <2>4, <2>6, <2>7, <2>10, <2>13
<1>2. ASSUME d <= s \/ s + n <= d
      PROVE  CopyLoop(byte, d, s, Upward(n)) = Moved(byte, d, s, n)
  <2>1. Len(Upward(n)) = n /\ \A k \in 1 .. n : Upward(n)[k] = k - 1 /\ Upward(n)[k] \in 0 .. n - 1
    BY DEF Upward
  <2>2. PICK F \in [0 .. n -> Stores] :
          /\ F[0] = byte /\ CopyLoop(byte, d, s, Upward(n)) = F[n]
          /\ \A k \in 1 .. n : F[k] = [F[k - 1] EXCEPT ![d + Upward(n)[k]] = F[k - 1][s + Upward(n)[k]]]
    BY Zenon, <2>1, <1>1
  <2>. DEFINE T == {k \in 0 .. n : Partly(byte, F[k], d, s, d, d + k - 1)}
  <2>3. 0 \in T
    <3>1. \A a \in Cell : a \notin d .. d + 0 - 1
      BY DEF Cell
    <3>2. 0 \in 0 .. n
      OBVIOUS
    <3>. QED  BY Zenon, <2>2, <3>1, <3>2 DEF Partly
  <2>4. ASSUME NEW k \in 0 .. n - 1, k \in T  PROVE k + 1 \in T
    <3>1. k + 1 \in 1 .. n /\ (k + 1) - 1 = k /\ k + 1 \in 0 .. n /\ k \in 0 .. n
      OBVIOUS
    <3>2. /\ d + k \in Cell /\ s + k \in Cell /\ s + k \notin d .. d + k - 1
          /\ s + ((d + k) - d) = s + k /\ d + (k + 1) - 1 = d + k
          /\ \A a \in Cell : a # d + k => (a \in d .. d + (k + 1) - 1 <=> a \in d .. d + k - 1)
          /\ d + k \in d .. d + (k + 1) - 1
      BY <1>2, UtilsAssumption DEF Cell
    <3>3. F[k + 1] = [F[k] EXCEPT ![d + k] = F[k][s + k]]
      BY ZenonT(60), <2>1, <2>2, <3>1
    <3>4. F[k] \in [Cell -> Chars]
      BY Zenon, <3>1 DEF Stores
    <3>5. \A a \in Cell : F[k + 1][a] = IF a = d + k THEN F[k][s + k] ELSE F[k][a]
      BY Zenon, <3>2, <3>3, <3>4
    <3>6. F[k][s + k] = byte[s + k]
      BY Zenon, <2>4, <3>2 DEF Partly
    <3>7. ASSUME NEW a \in Cell
          PROVE  F[k + 1][a] = IF a \in d .. d + (k + 1) - 1 THEN byte[s + (a - d)] ELSE byte[a]
      <4>1. CASE a = d + k
        BY Zenon, <3>2, <3>5, <3>6, <4>1
      <4>2. CASE a # d + k
        BY Zenon, <2>4, <3>2, <3>5, <4>2 DEF Partly
      <4>. QED  BY Zenon, <4>1, <4>2
    <3>. QED  BY Zenon, <3>1, <3>7 DEF Partly
  <2>. HIDE DEF T
  <2>5. n \in T /\ n \in 0 .. n
    <3>1. \A k \in 0 .. n : k \in T
      BY Zenon, <2>3, <2>4, UpTo
    <3>2. n \in 0 .. n
      OBVIOUS
    <3>. QED  BY Zenon, <3>1, <3>2
  <2>6. Partly(byte, F[n], d, s, d, d + n - 1) /\ F[n] \in Stores
    BY Zenon, <2>5 DEF T
  <2>7. d \in Int /\ s \in Int /\ n \in Int
    BY DEF Cell
  <2>. QED  BY <2>2, <2>6, <2>7, MovedIs
<1>3. ASSUME d > s
      PROVE  CopyLoop(byte, d, s, Downward(n)) = Moved(byte, d, s, n)
  <2>1. Len(Downward(n)) = n /\ \A k \in 1 .. n : Downward(n)[k] = n - k /\ Downward(n)[k] \in 0 .. n - 1
    BY DEF Downward
  <2>2. PICK F \in [0 .. n -> Stores] :
          /\ F[0] = byte /\ CopyLoop(byte, d, s, Downward(n)) = F[n]
          /\ \A k \in 1 .. n : F[k] = [F[k - 1] EXCEPT ![d + Downward(n)[k]] = F[k - 1][s + Downward(n)[k]]]
    BY Zenon, <2>1, <1>1
  <2>. DEFINE T == {k \in 0 .. n : Partly(byte, F[k], d, s, d + n - k, d + n - 1)}
  <2>3. 0 \in T
    <3>1. \A a \in Cell : a \notin d + n - 0 .. d + n - 1
      BY DEF Cell
    <3>2. 0 \in 0 .. n
      OBVIOUS
    <3>. QED  BY Zenon, <2>2, <3>1, <3>2 DEF Partly
  <2>4. ASSUME NEW k \in 0 .. n - 1, k \in T  PROVE k + 1 \in T
    <3>. DEFINE i == n - (k + 1)
    <3>1. k + 1 \in 1 .. n /\ (k + 1) - 1 = k /\ k + 1 \in 0 .. n /\ k \in 0 .. n
      OBVIOUS
    <3>2. /\ d + i \in Cell /\ s + i \in Cell /\ s + i \notin d + n - k .. d + n - 1
          /\ s + ((d + i) - d) = s + i
          /\ \A a \in Cell : a # d + i => (a \in d + n - (k + 1) .. d + n - 1 <=> a \in d + n - k .. d + n - 1)
          /\ d + i \in d + n - (k + 1) .. d + n - 1
      BY <1>3, UtilsAssumption DEF Cell
    <3>3. F[k + 1] = [F[k] EXCEPT ![d + i] = F[k][s + i]]
      BY Zenon, <2>1, <2>2, <3>1
    <3>. HIDE DEF i
    <3>4. F[k] \in [Cell -> Chars]
      BY Zenon, <3>1 DEF Stores
    <3>5. \A a \in Cell : F[k + 1][a] = IF a = d + i THEN F[k][s + i] ELSE F[k][a]
      BY Zenon, <3>2, <3>3, <3>4
    <3>6. F[k][s + i] = byte[s + i]
      BY Zenon, <2>4, <3>2 DEF Partly
    <3>7. ASSUME NEW a \in Cell
          PROVE  F[k + 1][a] = IF a \in d + n - (k + 1) .. d + n - 1 THEN byte[s + (a - d)] ELSE byte[a]
      <4>1. CASE a = d + i
        BY Zenon, <3>2, <3>5, <3>6, <4>1
      <4>2. CASE a # d + i
        BY Zenon, <2>4, <3>2, <3>5, <4>2 DEF Partly
      <4>. QED  BY Zenon, <4>1, <4>2
    <3>. QED  BY Zenon, <3>1, <3>7 DEF Partly
  <2>. HIDE DEF T
  <2>5. n \in T /\ n \in 0 .. n
    <3>1. \A k \in 0 .. n : k \in T
      BY Zenon, <2>3, <2>4, UpTo
    <3>2. n \in 0 .. n
      OBVIOUS
    <3>. QED  BY Zenon, <3>1, <3>2
  <2>6. Partly(byte, F[n], d, s, d + n - n, d + n - 1) /\ F[n] \in Stores
    BY Zenon, <2>5 DEF T
  <2>7. d \in Int /\ s \in Int /\ n \in Int /\ d + n - n = d
    BY DEF Cell
  <2>. QED  BY <2>2, <2>6, <2>7, MovedIs
<1>. QED  BY Zenon, <1>2, <1>3

Memories == [byte : Stores, read : SUBSET Cell, write : SUBSET Cell]

LEMMA MovesAreRight ==
  ASSUME NEW m \in Memories
  PROVE  MovesRight(m)
<1>. SUFFICES ASSUME NEW r \in Ranges, NEW s \in Cell, s + r[2] <= Cells
              PROVE  LET d == r[1]
                         n == r[2]
                         allowed == Span(d, n) \subseteq m.write /\ Span(s, n) \subseteq m.read
                         expected == IF allowed THEN Moved(m.byte, d, s, n) ELSE m.byte
                     IN /\ memmove(m, d, s, n) = expected
                        /\ (d <= s \/ s + n <= d) => memcpy(m, d, s, n) = expected
  BY Zenon DEF MovesRight
<1>. DEFINE d == r[1]  n == r[2]  byte == m.byte
<1>1. d \in Cell /\ n \in Nat /\ d + n <= Cells /\ byte \in Stores
  BY DEF Ranges, Memories
<1>. HIDE DEF d, n, byte
<1>2. s + n <= Cells
  BY Zenon DEF n
<1>3. /\ d <= s \/ s + n <= d => CopyLoop(byte, d, s, Upward(n)) = Moved(byte, d, s, n)
      /\ d > s => CopyLoop(byte, d, s, Downward(n)) = Moved(byte, d, s, n)
  BY Zenon, <1>1, <1>2, Copies
<1>4. ASSUME d = s
      PROVE  CopyLoop(byte, d, s, <<>>) = Moved(byte, d, s, n)
  <2>1. CopyLoop(byte, d, s, <<>>) = byte
    <3>. DEFINE Is(f) == f = [k \in 0 .. 0 |->
                                IF k = 0 THEN byte
                                ELSE [f[k - 1] EXCEPT ![d + <<>>[k]] = f[k - 1][s + <<>>[k]]]]
    <3>1. Len(<<>>) = 0 /\ \A k \in 0 .. 0 : k = 0
      OBVIOUS
    <3>2. Is([k \in 0 .. 0 |-> byte])
      BY Zenon, <3>1
    <3>3. PICK f : f = CHOOSE g : Is(g)
      OBVIOUS
    <3>4. CopyLoop(byte, d, s, <<>>) = f[0]
      BY Zenon, <3>1, <3>3 DEF CopyLoop
    <3>5. Is(f)
      <4>. HIDE DEF Is
      <4>. QED  BY Zenon, <3>2, <3>3
    <3>6. 0 \in 0 .. 0
      OBVIOUS
    <3>. QED  BY Zenon, <3>4, <3>5, <3>6
  <2>2. \A a \in Cell : s + (a - d) = a
    BY <1>1, <1>4 DEF Cell
  <2>3. Partly(byte, byte, d, s, d, d + n - 1)
    BY Zenon, <2>2 DEF Partly
  <2>4. d \in Int /\ s \in Int /\ n \in Int
    BY <1>1 DEF Cell
  <2>. QED  BY Zenon, <1>1, <2>1, <2>3, <2>4, MovedIs
<1>5. (d < s => d <= s) /\ (d < s \/ d > s \/ d = s) /\ (d = s => ~(d < s) /\ ~(d > s)) /\ (d > s => ~(d < s))
  BY <1>1 DEF Cell
<1>6. /\ memmove(m, d, s, n) = IF Span(d, n) \subseteq m.write /\ Span(s, n) \subseteq m.read
                               THEN Moved(byte, d, s, n) ELSE byte
      /\ (d <= s \/ s + n <= d) =>
           memcpy(m, d, s, n) = IF Span(d, n) \subseteq m.write /\ Span(s, n) \subseteq m.read
                                THEN Moved(byte, d, s, n) ELSE byte
  BY Zenon, <1>3, <1>4, <1>5 DEF memmove, memcpy, Gated, byte
<1>. QED  BY Zenon, <1>6 DEF d, n, byte

-----------------------------------------------------------------------------
(* Searches.  A loop that stops at the first place of a set.               *)

Search(f, stop, val) == f = [n \in 0 .. Cells |-> IF n \in stop THEN val[n] ELSE f[n + 1]]

LEMMA SearchEnds ==
  ASSUME NEW stop \in SUBSET (0 .. Cells), Cells \in stop, NEW val
  PROVE  \E f : Search(f, stop, val)
<1>. DEFINE After(n) == {k \in stop : n <= k}
            Least(S) == CHOOSE k \in S : \A j \in S : k <= j
            F == [n \in 0 .. Cells |-> val[Least(After(n))]]
<1>1. ASSUME NEW n \in stop  PROVE Least(After(n)) = n
  <2>1. n \in After(n) /\ \A j \in After(n) : n <= j
    BY UtilsAssumption
  <2>2. ASSUME NEW k \in After(n), \A j \in After(n) : k <= j  PROVE k = n
    BY <2>1, <2>2, UtilsAssumption
  <2>. HIDE DEF After
  <2>. QED  BY <2>1, <2>2
<1>2. ASSUME NEW n \in 0 .. Cells, n \notin stop  PROVE n + 1 \in 0 .. Cells /\ After(n) = After(n + 1)
  <2>1. n # Cells
    BY Zenon, <1>2
  <2>2. n + 1 \in 0 .. Cells
    BY <2>1, UtilsAssumption
  <2>3. \A k \in stop : n <= k <=> n + 1 <= k
    BY <1>2, UtilsAssumption
  <2>. QED  BY Zenon, <2>2, <2>3
<1>. HIDE DEF After, Least
<1>3. ASSUME NEW n \in 0 .. Cells
      PROVE  F[n] = IF n \in stop THEN val[n] ELSE F[n + 1]
  BY Zenon, <1>1, <1>2, <1>3
<1>4. F = [n \in 0 .. Cells |-> F[n]]
  BY Zenon
<1>. HIDE DEF F
<1>5. F = [n \in 0 .. Cells |-> IF n \in stop THEN val[n] ELSE F[n + 1]]
  BY Zenon, <1>3, <1>4
<1>. QED  BY Zenon, <1>5 DEF Search

(* A search answers with the value of the first stop it meets.             *)
Finds(f, stop, val) ==
  \A a \in 0 .. Cells, k \in stop :
     a <= k /\ (\A j \in a .. k - 1 : j \notin stop) => f[a] = val[k]

LEMMA SearchFinds ==
  ASSUME NEW stop \in SUBSET (0 .. Cells), NEW val, NEW f, Search(f, stop, val)
  PROVE  Finds(f, stop, val)
<1>. SUFFICES ASSUME NEW a \in 0 .. Cells, NEW k \in stop, a <= k, \A j \in a .. k - 1 : j \notin stop
              PROVE  f[a] = val[k]
  BY Zenon DEF Finds
<1>. DEFINE T == {i \in 0 .. k - a : f[a + i] = f[a]}
<1>1. k - a \in Nat /\ a + 0 = a /\ 0 \in 0 .. k - a /\ a + (k - a) = k /\ k - a \in 0 .. k - a
  BY UtilsAssumption
<1>2. 0 \in T
  BY Zenon, <1>1
<1>3. ASSUME NEW i \in 0 .. (k - a) - 1, i \in T  PROVE i + 1 \in T
  <2>1. /\ a + i \in a .. k - 1 /\ a + i \in 0 .. Cells /\ (a + i) + 1 = a + (i + 1)
        /\ i + 1 \in 0 .. k - a
    BY UtilsAssumption
  <2>2. f[a + i] = f[(a + i) + 1]
    BY Zenon, <2>1 DEF Search
  <2>. QED  BY Zenon, <1>3, <2>1, <2>2
<1>. HIDE DEF T
<1>4. \A i \in 0 .. k - a : i \in T
  BY Zenon, <1>1, <1>2, <1>3, UpTo
<1>5. f[k] = f[a]
  <2>1. k - a \in T
    BY Zenon, <1>1, <1>4
  <2>2. f[a + (k - a)] = f[a]
    BY Zenon, <2>1 DEF T
  <2>. QED  BY Zenon, <1>1, <2>2
<1>6. f[k] = val[k]
  BY Zenon DEF Search
<1>. QED  BY Zenon, <1>5, <1>6

-----------------------------------------------------------------------------
(* Strings.                                                                *)

(* x is what the string at s holds.                                        *)
Holds(m, s, x) ==
  /\ x \in Seq(Nat) /\ Len(x) \in 0 .. MaxLength
  /\ \A i \in 0 .. Len(x) : s + i \in m.read /\ s + i \in Cell
  /\ m.byte[s + Len(x)] = 0
  /\ \A i \in 0 .. Len(x) - 1 : m.byte[s + i] # 0 /\ m.byte[s + i] = x[i + 1]

LEMMA Terminated ==
  ASSUME NEW m \in Memories, NEW s \in Int, NEW n \in 0 .. MaxLength,
         \A i \in 0 .. n : s + i \in m.read, m.byte[s + n] = 0,
         \A i \in 0 .. n - 1 : m.byte[s + i] # 0
  PROVE  Holds(m, s, Str(m, s)) /\ Len(Str(m, s)) = n
<1>. DEFINE E == Ends(m, s)  x == Str(m, s)
<1>1. m.byte \in [Cell -> Chars] /\ m.read \subseteq Cell /\ Chars \subseteq Nat /\ MaxLength \in Nat
  BY Zenon, UtilsAssumption, CharsAre DEF Memories, Stores
<1>2. n \in E
  <2>1. Span(s, n + 1) = s .. s + n
    BY <1>1 DEF Span
  <2>2. ASSUME NEW a \in s .. s + n  PROVE a \in m.read
    <3>1. a - s \in 0 .. n /\ s + (a - s) = a
      BY <1>1
    <3>2. s + (a - s) \in m.read
      BY Zenon, <3>1
    <3>. QED  BY Zenon, <3>1, <3>2
  <2>3. Span(s, n + 1) \subseteq m.read
    BY Zenon, <2>1, <2>2
  <2>. QED  BY Zenon, <2>3 DEF Ends
<1>3. \A k \in E : k \in Nat /\ m.byte[s + k] = 0
  BY <1>1 DEF Ends
<1>4. \A k \in E : n <= k
  <2>. SUFFICES ASSUME NEW k \in E, k < n  PROVE FALSE
    BY <1>1, <1>3
  <2>1. k \in 0 .. n - 1
    BY <1>1, <1>3
  <2>. QED  BY Zenon, <1>3, <2>1
<1>. HIDE DEF E
<1>5. ASSUME NEW k \in E, \A j \in E : k <= j  PROVE k = n
  <2>1. k \in Nat /\ n \in Nat /\ k <= n /\ n <= k
    BY Zenon, <1>2, <1>3, <1>4, <1>5
  <2>. QED  BY <2>1
<1>6. (CHOOSE k \in E : \A j \in E : k <= j) = n
  BY ZenonT(60), <1>2, <1>4, <1>5
<1>7. x = [i \in 1 .. n |-> m.byte[s + i - 1]]
  BY Zenon, <1>6 DEF Str, E
<1>. HIDE DEF x
<1>8. \A i \in 0 .. n : s + i \in Cell
  BY Zenon, <1>1
<1>9. \A i \in 1 .. n : m.byte[s + i - 1] \in Nat
  <2>. SUFFICES ASSUME NEW i \in 1 .. n  PROVE m.byte[s + i - 1] \in Nat
    BY Zenon
  <2>1. i - 1 \in 0 .. n /\ s + i - 1 = s + (i - 1)
    OBVIOUS
  <2>. QED  BY Zenon, <1>1, <1>8, <2>1
<1>10. x \in Seq(Nat) /\ Len(x) = n
  BY <1>7, <1>9
<1>11. ASSUME NEW i \in 0 .. n - 1  PROVE m.byte[s + i] = x[i + 1]
  <2>1. i + 1 \in 1 .. n /\ s + (i + 1) - 1 = s + i
    OBVIOUS
  <2>. QED  BY Zenon, <1>7, <2>1
<1>. QED  BY Zenon, <1>8, <1>10, <1>11 DEF Holds, x

LEMMA StringIs ==
  ASSUME NEW m \in Memories, NEW s \in Cell, IsString(m, s)
  PROVE  Holds(m, s, Str(m, s))
<1>. DEFINE E == Ends(m, s)
<1>1. E # {} /\ E \subseteq Nat
  BY UtilsAssumption DEF Ends, IsString
<1>. HIDE DEF E
<1>2. PICK n \in E : \A k \in E : n <= k
  BY Zenon, <1>1, LeastNat
<1>3. n \in 0 .. MaxLength /\ Span(s, n + 1) \subseteq m.read /\ m.byte[s + n] = 0
  BY Zenon DEF E, Ends
<1>4. s \in Int /\ MaxLength \in Nat
  BY UtilsAssumption DEF Cell
<1>5. \A i \in 0 .. n : s + i \in m.read
  <2>1. \A i \in 0 .. n : s + i \in Span(s, n + 1)
    BY <1>3, <1>4 DEF Span
  <2>. QED  BY Zenon, <1>3, <2>1
<1>6. ASSUME NEW i \in 0 .. n - 1  PROVE m.byte[s + i] # 0
  <2>1. i \in 0 .. MaxLength /\ i \notin E
    BY <1>2, <1>3, <1>4
  <2>2. \A a \in Span(s, i + 1) : a \in Span(s, n + 1)
    BY <1>3, <1>4 DEF Span
  <2>. QED  BY Zenon, <1>3, <2>1, <2>2 DEF E, Ends
<1>. QED  BY Zenon, <1>3, <1>4, <1>5, <1>6, Terminated

LEMMA LengthIs ==
  ASSUME NEW m \in Memories, NEW s \in Cell, NEW x, Holds(m, s, x)
  PROVE  strlen(m, s) = Len(x)
<1>. DEFINE stop == {n \in 0 .. Cells : s + n \notin m.read \/ m.byte[s + n] = 0 \/ n + 1 > MaxLength}
            val == [n \in 0 .. Cells |-> IF s + n \notin m.read \/ m.byte[s + n] = 0 THEN n ELSE 0]
            Is(f) == f = [n \in 0 .. Cells |->
                            IF s + n \notin m.read \/ m.byte[s + n] = 0 THEN n
                            ELSE IF n + 1 > MaxLength THEN 0
                            ELSE f[n + 1]]
            p == Len(x)
<1>1. \A f : Is(f) <=> Search(f, stop, val)
  <2>. SUFFICES ASSUME NEW f
                PROVE  [n \in 0 .. Cells |->
                            IF s + n \notin m.read \/ m.byte[s + n] = 0 THEN n
                            ELSE IF n + 1 > MaxLength THEN 0
                            ELSE f[n + 1]]
                       = [n \in 0 .. Cells |-> IF n \in stop THEN val[n] ELSE f[n + 1]]
    BY Zenon DEF Search
  <2>. QED  BY Zenon
<1>2. m.read \subseteq Cell /\ Cells \in Nat /\ Cells \in 0 .. Cells /\ s + Cells \notin Cell /\ 0 \in 0 .. Cells
  BY UtilsAssumption DEF Memories, Cell
<1>3. stop \in SUBSET (0 .. Cells) /\ Cells \in stop
  BY Zenon, <1>2
<1>4. p \in 0 .. MaxLength /\ s + p \in Cell
  <2>1. Len(x) \in Nat /\ Len(x) \in 0 .. Len(x)
    BY UtilsAssumption DEF Holds
  <2>. QED  BY Zenon, <2>1 DEF Holds
<1>5. p \in stop /\ 0 <= p /\ val[p] = p
  <2>1. p \in 0 .. Cells /\ 0 <= p
    BY <1>4, UtilsAssumption DEF Cell
  <2>. QED  BY Zenon, <2>1 DEF Holds
<1>6. ASSUME NEW j \in 0 .. p - 1  PROVE j \notin stop
  <2>1. j \in 0 .. p /\ ~(j + 1 > MaxLength)
    BY <1>4, UtilsAssumption
  <2>. QED  BY Zenon, <2>1 DEF Holds
<1>7. PICK f : f = CHOOSE g : Is(g)
  BY Zenon
<1>8. strlen(m, s) = f[0]
  BY Zenon, <1>7 DEF strlen
<1>. HIDE DEF stop, val, p
<1>9. Search(f, stop, val)
  <2>1. \E g : Search(g, stop, val)
    BY Zenon, <1>3, SearchEnds
  <2>. HIDE DEF Is
  <2>. QED  BY Zenon, <1>1, <1>7, <2>1
<1>10. f[0] = val[p]
  <2>1. Finds(f, stop, val)
    BY Zenon, <1>3, <1>9, SearchFinds
  <2>. QED  BY Zenon, <1>2, <1>5, <1>6, <2>1 DEF Finds
<1>. QED  BY Zenon, <1>5, <1>8, <1>10 DEF p

(* Part of a sequence, element by element.                                 *)
LEMMA PartIs ==
  ASSUME NEW x \in Seq(Nat), NEW k \in Nat, NEW n \in Nat, k + n <= Len(x)
  PROVE  SubSeq(x, k + 1, k + n) = [i \in 1 .. n |-> x[k + i]]
<1>1. \A i \in k + 1 .. k + n : x[i] \in Nat
  OBVIOUS
<1>2. k + 1 \in Int /\ k + n \in Int
  OBVIOUS
<1>3. /\ SubSeq(x, k + 1, k + n) \in Seq(Nat)
      /\ Len(SubSeq(x, k + 1, k + n)) = IF k + 1 <= k + n THEN (k + n) - (k + 1) + 1 ELSE 0
      /\ \A i \in 1 .. (k + n) - (k + 1) + 1 : SubSeq(x, k + 1, k + n)[i] = x[(k + 1) + i - 1]
  BY <1>1, <1>2, SubSeqProperties
<1>. DEFINE y == SubSeq(x, k + 1, k + n)
<1>. HIDE DEF y
<1>4. y \in Seq(Nat) /\ Len(y) = n
  BY <1>3 DEF y
<1>5. \A i \in 1 .. n : y[i] = x[k + i]
  <2>. SUFFICES ASSUME NEW i \in 1 .. n  PROVE y[i] = x[k + i]
    BY Zenon
  <2>1. i \in 1 .. (k + n) - (k + 1) + 1 /\ (k + 1) + i - 1 = k + i
    OBVIOUS
  <2>. QED  BY Zenon, <1>3, <2>1 DEF y
<1>6. y = [i \in 1 .. n |-> y[i]]
  BY <1>4
<1>. QED  BY Zenon, <1>5, <1>6 DEF y

LEMMA SamePart ==
  ASSUME NEW x \in Seq(Nat), NEW y \in Seq(Nat), NEW k \in Nat, k + Len(y) <= Len(x)
  PROVE  SubSeq(x, k + 1, k + Len(y)) = y <=> \A i \in 1 .. Len(y) : x[k + i] = y[i]
<1>1. Len(y) \in Nat /\ y = [i \in 1 .. Len(y) |-> y[i]]
  OBVIOUS
<1>2. SubSeq(x, k + 1, k + Len(y)) = [i \in 1 .. Len(y) |-> x[k + i]]
  BY Zenon, <1>1, PartIs
<1>. QED  BY Zenon, <1>1, <1>2

LEMMA SamePrefix ==
  ASSUME NEW x \in Seq(Nat), NEW y \in Seq(Nat), NEW k \in Nat, k <= Len(x), k <= Len(y)
  PROVE  SubSeq(x, 1, k) = SubSeq(y, 1, k) <=> \A i \in 1 .. k : x[i] = y[i]
<1>1. 0 \in Nat /\ 0 + k = k /\ 0 + 1 = 1 /\ \A i \in 1 .. k : 0 + i = i
  OBVIOUS
<1>2. SubSeq(x, 1, k) = [i \in 1 .. k |-> x[0 + i]] /\ SubSeq(y, 1, k) = [i \in 1 .. k |-> y[0 + i]]
  BY <1>1, PartIs
<1>3. SubSeq(x, 1, k) = [i \in 1 .. k |-> x[i]] /\ SubSeq(y, 1, k) = [i \in 1 .. k |-> y[i]]
  BY Zenon, <1>1, <1>2
<1>. QED  BY Zenon, <1>3

(* The value strcmp returns: the difference at the first place k where the *)
(* strings differ or end.                                                  *)
LEMMA ComparesFirst ==
  ASSUME NEW m \in Memories, NEW s \in Cell, NEW t \in Cell, NEW x, NEW y,
         Holds(m, s, x), Holds(m, t, y)
  PROVE  \E k \in 0 .. Len(x) :
           /\ k <= Len(y)
           /\ \A i \in 0 .. k - 1 : m.byte[s + i] = m.byte[t + i]
           /\ m.byte[s + k] # m.byte[t + k] \/ m.byte[s + k] = 0
           /\ strcmp(m, s, t) = PlainChar(m.byte[s + k]) - PlainChar(m.byte[t + k])
<1>. DEFINE b == m.byte
            stop == {i \in 0 .. Cells : \/ ~({s + i, t + i} \subseteq m.read)
                                        \/ b[s + i] # b[t + i] \/ b[s + i] = 0 \/ i + 1 > MaxLength}
            val == [i \in 0 .. Cells |->
                      IF {s + i, t + i} \subseteq m.read /\ b[s + i] # b[t + i]
                      THEN PlainChar(b[s + i]) - PlainChar(b[t + i]) ELSE 0]
            Is(f) == f = [i \in 0 .. Cells |->
                            IF {s + i, t + i} \subseteq m.read
                            THEN IF m.byte[s + i] # m.byte[t + i]
                                 THEN PlainChar(m.byte[s + i]) - PlainChar(m.byte[t + i])
                                 ELSE IF m.byte[s + i] = 0 \/ i + 1 > MaxLength THEN 0
                                 ELSE f[i + 1]
                            ELSE 0]
            p == Len(x)
            q == Len(y)
            D == {i \in 0 .. p : i <= q /\ (b[s + i] # b[t + i] \/ b[s + i] = 0)}
<1>1. /\ p \in 0 .. MaxLength /\ q \in 0 .. MaxLength /\ MaxLength \in Nat
      /\ \A i \in 0 .. p : s + i \in m.read /\ s + i \in Cell
      /\ \A i \in 0 .. q : t + i \in m.read /\ t + i \in Cell
      /\ b[s + p] = 0 /\ b[t + q] = 0
      /\ \A i \in 0 .. p - 1 : b[s + i] # 0
      /\ \A i \in 0 .. q - 1 : b[t + i] # 0
  BY Zenon, UtilsAssumption DEF Holds
<1>2. b \in [Cell -> Chars]
  BY Zenon DEF Memories, Stores
<1>3. \A f : Is(f) <=> Search(f, stop, val)
  <2>. SUFFICES ASSUME NEW f
                PROVE  [i \in 0 .. Cells |->
                            IF {s + i, t + i} \subseteq m.read
                            THEN IF m.byte[s + i] # m.byte[t + i]
                                 THEN PlainChar(m.byte[s + i]) - PlainChar(m.byte[t + i])
                                 ELSE IF m.byte[s + i] = 0 \/ i + 1 > MaxLength THEN 0
                                 ELSE f[i + 1]
                            ELSE 0]
                       = [n \in 0 .. Cells |-> IF n \in stop THEN val[n] ELSE f[n + 1]]
    BY ZenonT(60) DEF Search
  <2>. QED  BY Zenon
<1>4. m.read \subseteq Cell /\ Cells \in 0 .. Cells /\ s + Cells \notin Cell /\ 0 \in 0 .. Cells
  BY UtilsAssumption DEF Memories, Cell
<1>5. stop \in SUBSET (0 .. Cells) /\ Cells \in stop
  BY Zenon, <1>4
<1>00. p \in 0 .. MaxLength /\ q \in 0 .. MaxLength /\ MaxLength \in Nat
  BY Zenon, <1>1
<1>0. D \subseteq Nat
  <2>1. \A i \in 0 .. p : i \in Nat
    OBVIOUS
  <2>. QED  BY Zenon, <2>1
<1>6. D # {} /\ D \subseteq Nat
  <2>1. CASE p <= q
    <3>1. p \in 0 .. p
      BY <1>00
    <3>2. p \in D
      BY Zenon, <1>1, <2>1, <3>1
    <3>. QED  BY Zenon, <3>2, <1>0
  <2>2. CASE ~(p <= q)
    <3>1. q \in 0 .. p /\ q <= q /\ q \in 0 .. p - 1
      BY <1>00, <2>2
    <3>2. q \in D
      BY Zenon, <1>1, <3>1
    <3>. QED  BY Zenon, <3>2, <1>0
  <2>. QED  BY Zenon, <2>1, <2>2
<1>. HIDE DEF b, stop, val, Is, p, q
<1>7. PICK k \in D : \A j \in D : k <= j
  <2>. HIDE DEF D
  <2>. QED  BY Zenon, <1>6, LeastNat
<1>8. k \in 0 .. p /\ k <= q /\ (b[s + k] # b[t + k] \/ b[s + k] = 0)
  BY Zenon, <1>7
<1>9. ASSUME NEW j \in 0 .. k - 1
      PROVE  /\ j \in 0 .. p /\ j \in 0 .. q /\ ~(j + 1 > MaxLength)
             /\ b[s + j] = b[t + j] /\ b[s + j] # 0
  <2>1. j \in 0 .. p /\ j \in 0 .. q /\ j <= q /\ ~(j + 1 > MaxLength) /\ ~(k <= j)
    <3>1. k \in 0 .. p /\ k <= q
      BY Zenon, <1>8
    <3>. QED  BY <1>00, <3>1
  <2>2. j \notin D
    BY Zenon, <1>7, <2>1
  <2>. QED  BY Zenon, <2>1, <2>2
<1>. HIDE DEF D
<1>10. k \in 0 .. Cells /\ k \in 0 .. q /\ 0 <= k
  <2>1. s + k \in Cell
    BY Zenon, <1>1, <1>8
  <2>2. k \in 0 .. p /\ k <= q
    BY Zenon, <1>8
  <2>. QED  BY <1>00, <2>1, <2>2, UtilsAssumption DEF Cell
<1>11. {s + k, t + k} \subseteq m.read /\ k \in stop
  BY Zenon, <1>1, <1>8, <1>10 DEF stop
<1>12. \A j \in 0 .. k - 1 : j \notin stop
  BY Zenon, <1>1, <1>9 DEF stop
<1>13. PICK f : f = CHOOSE g : Is(g)
  OBVIOUS
<1>14. strcmp(m, s, t) = f[0]
  BY Zenon, <1>13 DEF strcmp, Is
<1>15. Search(f, stop, val)
  <2>1. \E g : Search(g, stop, val)
    BY Zenon, <1>5, SearchEnds
  <2>. QED  BY Zenon, <1>3, <1>13, <2>1
<1>16. f[0] = val[k]
  <2>1. Finds(f, stop, val)
    BY Zenon, <1>5, <1>15, SearchFinds
  <2>. QED  BY Zenon, <1>4, <1>10, <1>11, <1>12, <2>1 DEF Finds
<1>17. val[k] = PlainChar(b[s + k]) - PlainChar(b[t + k])
  <2>1. s + k \in Cell /\ t + k \in Cell
    BY Zenon, <1>1, <1>8, <1>10
  <2>2. PlainChar(b[t + k]) \in Int
    BY Zenon, <1>2, <2>1, CharsAre
  <2>3. PlainChar(b[t + k]) - PlainChar(b[t + k]) = 0
    BY <2>2
  <2>. QED  BY Zenon, <1>10, <1>11, <2>3 DEF val
<1>. QED  BY Zenon, <1>8, <1>9, <1>14, <1>16, <1>17 DEF b, p, q

(* How the order of plain chars and that of bytes differ.                  *)
LEMMA PlainOrder ==
  ASSUME NEW u \in Chars, NEW v \in Chars
  PROVE  LET c == PlainChar(u) - PlainChar(v)
         IN  /\ c = 0 <=> u = v
             /\ c < 0 <=> ((u < v) # (CharSigned /\ ((u < HighBit) # (v < HighBit))))
<1>1. u \in 0 .. 2 * HighBit - 1 /\ v \in 0 .. 2 * HighBit - 1 /\ HighBit \in Nat \ {0}
  BY Zenon, UtilsAssumption
<1>2. CASE CharSigned = TRUE
  BY <1>1, <1>2 DEF PlainChar
<1>3. CASE CharSigned = FALSE
  BY <1>1, <1>3 DEF PlainChar
<1>. QED  BY Zenon, <1>2, <1>3, UtilsAssumption

LEMMA ComparesRight ==
  ASSUME NEW m \in Memories, NEW s \in Cell, NEW t \in Cell, NEW x, NEW y,
         Holds(m, s, x), Holds(m, t, y)
  PROVE  /\ strcmp(m, s, t) = 0 <=> x = y
         /\ strcmp(m, s, t) < 0 <=> (Precedes(x, y) # (CharSigned /\ Straddles(x, y)))
<1>. DEFINE b == m.byte  p == Len(x)  q == Len(y)
<1>1. /\ x \in Seq(Nat) /\ y \in Seq(Nat) /\ p \in Nat /\ q \in Nat
      /\ b[s + p] = 0 /\ b[t + q] = 0
      /\ \A i \in 0 .. p - 1 : b[s + i] # 0 /\ b[s + i] = x[i + 1]
      /\ \A i \in 0 .. q - 1 : b[t + i] # 0 /\ b[t + i] = y[i + 1]
  BY UtilsAssumption DEF Holds
<1>2. \A i \in 0 .. p : b[s + i] \in Chars
  BY Zenon DEF Holds, Memories, Stores
<1>3. \A i \in 0 .. q : b[t + i] \in Chars
  BY Zenon DEF Holds, Memories, Stores
<1>4. PICK k \in 0 .. p :
        /\ k <= q
        /\ \A i \in 0 .. k - 1 : b[s + i] = b[t + i]
        /\ b[s + k] # b[t + k] \/ b[s + k] = 0
        /\ strcmp(m, s, t) = PlainChar(b[s + k]) - PlainChar(b[t + k])
  BY SMTT(60), ComparesFirst
<1>. DEFINE c == strcmp(m, s, t)  u == b[s + k]  v == b[t + k]
<1>. HIDE DEF b, p, q
<1>5. k \in 0 .. q /\ k \in Nat /\ k <= p
  <2>1. p \in Nat /\ q \in Nat /\ k <= q
    BY Zenon, <1>1, <1>4
  <2>. QED  BY <2>1
<1>6. u \in Chars /\ v \in Chars /\ c = PlainChar(u) - PlainChar(v)
  BY Zenon, <1>2, <1>3, <1>4, <1>5
<1>7. ASSUME u = v  PROVE x = y
  <2>1. b[s + k] = 0 /\ b[t + k] = 0
    BY Zenon, <1>4, <1>7
  <2>2. k = p /\ k = q
    BY <1>1, <1>4, <1>5, <2>1
  <2>3. \A i \in 1 .. p : x[i] = y[i]
    <3>. SUFFICES ASSUME NEW i \in 1 .. p  PROVE x[i] = y[i]
      BY Zenon
    <3>1. i - 1 \in 0 .. p - 1 /\ i - 1 \in 0 .. q - 1 /\ i - 1 \in 0 .. k - 1 /\ (i - 1) + 1 = i
      BY <1>1, <2>2
    <3>2. b[s + (i - 1)] = x[(i - 1) + 1] /\ b[t + (i - 1)] = y[(i - 1) + 1]
      BY Zenon, <1>1, <3>1
    <3>3. b[s + (i - 1)] = b[t + (i - 1)]
      BY Zenon, <1>4, <3>1
    <3>. QED  BY Zenon, <3>1, <3>2, <3>3
  <2>4. x = [i \in 1 .. p |-> x[i]] /\ y = [i \in 1 .. q |-> y[i]]
    BY <1>1 DEF p, q
  <2>. QED  BY Zenon, <2>2, <2>3, <2>4
<1>8. ASSUME x = y  PROVE u = v
  <2>1. p = q
    BY Zenon, <1>8 DEF p, q
  <2>2. CASE k = p
    BY Zenon, <1>1, <2>1, <2>2
  <2>3. CASE k # p
    <3>1. k \in 0 .. p - 1
      BY <1>1, <1>4, <2>3
    <3>. QED  BY Zenon, <1>1, <1>8, <2>1, <3>1
  <2>. QED  BY Zenon, <2>2, <2>3
<1>9. /\ \A i \in 0 .. p : CharAt(x, i) = b[s + i]
      /\ \A i \in 0 .. q : CharAt(y, i) = b[t + i]
  <2>1. \A i \in 0 .. p : (i < p => i \in 0 .. p - 1) /\ (~(i < p) => i = p)
    BY <1>1
  <2>2. \A i \in 0 .. q : (i < q => i \in 0 .. q - 1) /\ (~(i < q) => i = q)
    BY <1>1
  <2>3. \A i \in 0 .. p : CharAt(x, i) = b[s + i]
    BY Zenon, <1>1, <2>1 DEF CharAt, p
  <2>4. \A i \in 0 .. q : CharAt(y, i) = b[t + i]
    BY Zenon, <1>1, <2>2 DEF CharAt, q
  <2>. QED  BY Zenon, <2>3, <2>4
<1>10. SubSeq(x, 1, k) = SubSeq(y, 1, k)
  <2>1. ASSUME NEW i \in 1 .. k  PROVE x[i] = y[i]
    <3>1. i - 1 \in 0 .. p - 1 /\ i - 1 \in 0 .. q - 1 /\ i - 1 \in 0 .. k - 1 /\ (i - 1) + 1 = i
      BY <1>1, <1>5
    <3>2. b[s + (i - 1)] = x[(i - 1) + 1] /\ b[t + (i - 1)] = y[(i - 1) + 1]
      BY Zenon, <1>1, <3>1
    <3>3. b[s + (i - 1)] = b[t + (i - 1)]
      BY Zenon, <1>4, <3>1
    <3>. QED  BY Zenon, <3>1, <3>2, <3>3
  <2>. QED  BY Zenon, <1>1, <1>4, <1>5, <2>1, SamePrefix DEF p, q
<1>11. ASSUME NEW l \in Parting(x, y)  PROVE l = k
  <2>1. l \in 0 .. p /\ l <= q /\ SubSeq(x, 1, l) = SubSeq(y, 1, l) /\ CharAt(x, l) # CharAt(y, l)
    BY Zenon DEF Parting, p, q
  <2>2. l \in Nat /\ l <= p /\ l \in 0 .. q
    BY <1>1, <2>1
  <2>3. b[s + l] # b[t + l]
    BY Zenon, <1>9, <2>1, <2>2
  <2>4. \A i \in 1 .. l : x[i] = y[i]
    BY Zenon, <1>1, <2>1, <2>2, SamePrefix DEF p, q
  <2>5. ASSUME NEW j \in 0 .. l - 1  PROVE b[s + j] = b[t + j] /\ b[s + j] # 0
    <3>1. j \in 0 .. p - 1 /\ j \in 0 .. q - 1 /\ j + 1 \in 1 .. l
      BY <1>1, <2>2
    <3>. QED  BY Zenon, <1>1, <2>4, <3>1
  <2>6. k \notin 0 .. l - 1
    BY Zenon, <1>4, <2>5
  <2>7. l \notin 0 .. k - 1
    BY Zenon, <1>4, <2>3
  <2>. QED  BY <1>5, <2>2, <2>6, <2>7
<1>12. CharAt(x, k) = u /\ CharAt(y, k) = v
  BY Zenon, <1>4, <1>5, <1>9
<1>13. \A l : l \in Parting(x, y) <=> l = k /\ u # v
  BY Zenon, <1>4, <1>10, <1>11, <1>12 DEF Parting, p, q
<1>. HIDE DEF c, u, v
<1>14. Precedes(x, y) <=> u # v /\ u < v
  BY Zenon, <1>12, <1>13 DEF Precedes
<1>15. Straddles(x, y) <=> u # v /\ ((u < HighBit) # (v < HighBit))
  <2>1. Straddles(x, y) <=> u # v /\ ((CharAt(x, k) < HighBit) # (CharAt(y, k) < HighBit))
    <3>1. ASSUME Straddles(x, y)
          PROVE  u # v /\ ((CharAt(x, k) < HighBit) # (CharAt(y, k) < HighBit))
      <4>1. PICK l \in Parting(x, y) : (CharAt(x, l) < HighBit) # (CharAt(y, l) < HighBit)
        BY Zenon, <3>1 DEF Straddles
      <4>2. l = k /\ u # v
        BY Zenon, <1>13, <4>1
      <4>. QED  BY SMT, <4>1, <4>2
    <3>2. ASSUME u # v, (CharAt(x, k) < HighBit) # (CharAt(y, k) < HighBit)
          PROVE  Straddles(x, y)
      BY Zenon, <1>13, <3>2 DEF Straddles
    <3>. QED  BY Zenon, <3>1, <3>2
  <2>. QED  BY SMT, <1>12, <2>1
<1>16. /\ c = 0 <=> u = v
       /\ c < 0 <=> ((u < v) # (CharSigned /\ ((u < HighBit) # (v < HighBit))))
  BY Zenon, <1>6, PlainOrder
<1>17. u \in Nat /\ v \in Nat /\ HighBit \in Nat /\ CharSigned \in BOOLEAN
  BY Zenon, <1>6, CharsAre, UtilsAssumption
<1>18. Precedes(x, y) \in BOOLEAN /\ Straddles(x, y) \in BOOLEAN
  BY Zenon DEF Precedes, Straddles
<1>. HIDE DEF c
<1>19. c < 0 <=> (Precedes(x, y) # (CharSigned /\ Straddles(x, y)))
  BY SMT, <1>14, <1>15, <1>16, <1>17, <1>18
<1>. QED  BY Zenon, <1>7, <1>8, <1>16, <1>19 DEF c

(* strstr's test succeeds exactly where the needle occurs.                 *)
LEMMA MatchIs ==
  ASSUME NEW m \in Memories, NEW s \in Cell, NEW t \in Cell, NEW x, NEW y,
         Holds(m, s, x), Holds(m, t, y)
  PROVE  \A j \in 0 .. Len(x) : MatchesAt(m, s + j, t, Len(y)) <=> j \in Occurrences(x, y)
<1>. DEFINE b == m.byte  p == Len(x)  q == Len(y)
<1>. SUFFICES ASSUME NEW j \in 0 .. p
              PROVE  MatchesAt(m, s + j, t, q) <=> j \in Occurrences(x, y)
  BY Zenon
<1>1. /\ x \in Seq(Nat) /\ y \in Seq(Nat) /\ b[s + p] = 0
      /\ \A i \in 0 .. p - 1 : b[s + i] # 0 /\ b[s + i] = x[i + 1]
      /\ \A i \in 0 .. q - 1 : b[t + i] = y[i + 1]
  BY Zenon DEF Holds
<1>0. p \in Nat /\ q \in Nat /\ j \in Nat /\ s \in Int /\ t \in Int
  <2>1. x \in Seq(Nat) /\ y \in Seq(Nat)
    BY Zenon, <1>1
  <2>. QED  BY <2>1, UtilsAssumption DEF Cell
<1>2. j \in Occurrences(x, y) <=> j + q <= p /\ \A i \in 1 .. q : x[j + i] = y[i]
  <2>1. j \in 0 .. p - q <=> j + q <= p
    BY <1>0
  <2>2. j + q <= p => (SubSeq(x, j + 1, j + q) = y <=> \A i \in 1 .. q : x[j + i] = y[i])
    BY ZenonT(60), <1>0, <1>1, SamePart
  <2>. QED  BY Zenon, <2>1, <2>2 DEF Occurrences
<1>. HIDE DEF b, p, q
<1>3. MatchesAt(m, s + j, t, q) <=> \A i \in 0 .. q - 1 : b[(s + j) + i] # 0 /\ b[(s + j) + i] = b[t + i]
  BY Zenon DEF MatchesAt, b
<1>4. ASSUME MatchesAt(m, s + j, t, q)  PROVE j \in Occurrences(x, y)
  <2>1. j + q <= p
    <3>. SUFFICES ASSUME ~(j + q <= p)  PROVE FALSE
      BY Zenon
    <3>1. p - j \in 0 .. q - 1 /\ (s + j) + (p - j) = s + p
      BY <1>0
    <3>2. b[(s + j) + (p - j)] # 0
      BY Zenon, <1>3, <1>4, <3>1
    <3>. QED  BY Zenon, <1>1, <3>1, <3>2
  <2>2. ASSUME NEW i \in 1 .. q  PROVE x[j + i] = y[i]
    <3>1. /\ i - 1 \in 0 .. q - 1 /\ (s + j) + (i - 1) = s + (j + (i - 1)) /\ j + (i - 1) \in 0 .. p - 1
          /\ (j + (i - 1)) + 1 = j + i /\ (i - 1) + 1 = i
      BY <1>0, <2>1
    <3>2. b[s + (j + (i - 1))] = x[(j + (i - 1)) + 1] /\ b[t + (i - 1)] = y[(i - 1) + 1]
      BY Zenon, <1>1, <3>1
    <3>3. b[(s + j) + (i - 1)] = b[t + (i - 1)]
      BY Zenon, <1>3, <1>4, <3>1
    <3>. QED  BY Zenon, <3>1, <3>2, <3>3
  <2>. QED  BY Zenon, <1>2, <2>1, <2>2
<1>5. ASSUME j \in Occurrences(x, y)  PROVE MatchesAt(m, s + j, t, q)
  <2>. SUFFICES ASSUME NEW i \in 0 .. q - 1
                PROVE  b[(s + j) + i] # 0 /\ b[(s + j) + i] = b[t + i]
    BY Zenon, <1>3
  <2>0. j + q <= p
    BY Zenon, <1>2, <1>5
  <2>1. /\ i + 1 \in 1 .. q /\ (s + j) + i = s + (j + i) /\ j + i \in 0 .. p - 1
        /\ (j + i) + 1 = j + (i + 1)
    BY <1>0, <2>0
  <2>2. b[s + (j + i)] # 0 /\ b[s + (j + i)] = x[(j + i) + 1] /\ b[t + i] = y[i + 1]
    BY Zenon, <1>1, <2>1
  <2>3. x[j + (i + 1)] = y[i + 1]
    BY Zenon, <1>2, <1>5, <2>1
  <2>. QED  BY Zenon, <2>1, <2>2, <2>3
<1>. QED  BY Zenon, <1>4, <1>5

LEMMA LeastFound ==
  ASSUME NEW s \in Nat, NEW O \in SUBSET Nat, NEW k \in O, \A j \in O : k <= j
  PROVE  LET found == {s + j : j \in O}
         IN found # {} /\ (CHOOSE a \in found : \A c \in found : a <= c) = s + k
<1>. DEFINE found == {s + j : j \in O}
<1>1. s + k \in found
  BY Zenon
<1>2. \A c \in found : s + k <= c
  <2>. SUFFICES ASSUME NEW j \in O  PROVE s + k <= s + j
    BY Zenon
  <2>1. k \in Nat /\ j \in Nat /\ k <= j
    BY Zenon
  <2>. QED  BY <2>1
<1>3. found \subseteq Nat
  OBVIOUS
<1>. HIDE DEF found
<1>4. ASSUME NEW a \in found, \A c \in found : a <= c  PROVE a = s + k
  <2>1. a \in Nat /\ s + k \in Nat /\ a <= s + k /\ s + k <= a
    BY Zenon, <1>1, <1>2, <1>3, <1>4
  <2>. QED  BY <2>1
<1>5. (CHOOSE a \in found : \A c \in found : a <= c) = s + k
  BY Zenon, <1>1, <1>2, <1>4
<1>. QED  BY Zenon, <1>1, <1>5 DEF found

FirstFound(s, x, y) ==
  LET found == {s + k : k \in Occurrences(x, y)}
  IN IF found = {} THEN Nowhere ELSE CHOOSE a \in found : \A b \in found : a <= b

LEMMA FindsRight ==
  ASSUME NEW m \in Memories, NEW s \in Cell, NEW t \in Cell, NEW x, NEW y,
         Holds(m, s, x), Holds(m, t, y)
  PROVE  strstr(m, s, t) = FirstFound(s, x, y)
<1>. DEFINE b == m.byte  p == Len(x)  q == Len(y)  O == Occurrences(x, y)
            found == {s + k : k \in O}
<1>0. /\ x \in Seq(Nat) /\ y \in Seq(Nat)
      /\ \A i \in 0 .. p : s + i \in m.read /\ s + i \in Cell
      /\ \A i \in 0 .. q : t + i \in m.read
      /\ b[s + p] = 0
      /\ \A i \in 0 .. p - 1 : b[s + i] # 0
  BY Zenon DEF Holds
<1>8. p \in Nat /\ q \in Nat /\ s \in Nat /\ t \in Nat
  BY <1>0, UtilsAssumption DEF Cell
<1>1. /\ x \in Seq(Nat) /\ y \in Seq(Nat) /\ p \in Nat /\ q \in Nat /\ s \in Nat /\ t \in Nat
      /\ \A i \in 0 .. p : s + i \in m.read /\ s + i \in Cell
      /\ \A i \in 0 .. q : t + i \in m.read
      /\ b[s + p] = 0
      /\ \A i \in 0 .. p - 1 : b[s + i] # 0
  BY Zenon, <1>0, <1>8
<1>2. {s, t} \subseteq m.read
  <2>1. 0 \in 0 .. p /\ 0 \in 0 .. q /\ s + 0 = s /\ t + 0 = t
    BY <1>8
  <2>. QED  BY Zenon, <1>1, <2>1
<1>3. strlen(m, t) = q
  BY Zenon, LengthIs
<1>4. \A j \in 0 .. p : MatchesAt(m, s + j, t, q) <=> j \in O
  BY Zenon, MatchIs
<1>5. O \in SUBSET Nat /\ \A k \in O : k \in 0 .. p - q /\ k \in 0 .. p
  <2>1. \A k \in 0 .. p - q : k \in Nat /\ k \in 0 .. p
    BY <1>8
  <2>. QED  BY Zenon, <2>1 DEF Occurrences
<1>6. CASE q = 0
  <2>1. 0 \in O
    <3>1. 0 \in 0 .. p
      BY <1>8
    <3>2. MatchesAt(m, s + 0, t, 0)
      <4>1. 0 .. 0 - 1 = {}
        OBVIOUS
      <4>. QED  BY Zenon, <4>1 DEF MatchesAt
    <3>. QED  BY Zenon, <1>4, <1>6, <3>1, <3>2
  <2>2. \A j \in O : 0 <= j
    BY <1>5
  <2>3. found # {} /\ (CHOOSE a \in found : \A c \in found : a <= c) = s + 0
    <3>. HIDE DEF O
    <3>. QED  BY ZenonT(60), <1>1, <1>5, <2>1, <2>2, LeastFound
  <2>4. s + 0 = s
    BY <1>8
  <2>5. strstr(m, s, t) = s
    BY Zenon, <1>2, <1>3, <1>6 DEF strstr
  <2>. QED  BY Zenon, <2>3, <2>4, <2>5 DEF FirstFound
<1>7. CASE q # 0
  <2>. DEFINE stop == {h \in 0 .. Cells : b[h] = 0 \/ MatchesAt(m, h, t, q) \/ h + 1 \notin m.read}
              val == [h \in 0 .. Cells |-> IF b[h] = 0 THEN Nowhere
                                           ELSE IF MatchesAt(m, h, t, q) THEN h ELSE Nowhere]
              Is(f) == f = [h \in 0 .. Cells |->
                              IF m.byte[h] = 0 THEN Nowhere
                              ELSE IF MatchesAt(m, h, t, q) THEN h
                              ELSE IF h + 1 \notin m.read THEN Nowhere
                              ELSE f[h + 1]]
  <2>1. \A f : Is(f) <=> Search(f, stop, val)
    <3>. SUFFICES ASSUME NEW f
                  PROVE  [h \in 0 .. Cells |->
                              IF m.byte[h] = 0 THEN Nowhere
                              ELSE IF MatchesAt(m, h, t, q) THEN h
                              ELSE IF h + 1 \notin m.read THEN Nowhere
                              ELSE f[h + 1]]
                         = [n \in 0 .. Cells |-> IF n \in stop THEN val[n] ELSE f[n + 1]]
      BY Zenon DEF Search
    <3>. QED  BY Zenon
  <2>2. m.read \subseteq Cell /\ Cells \in 0 .. Cells /\ Cells + 1 \notin Cell
    BY UtilsAssumption DEF Memories, Cell
  <2>3. stop \in SUBSET (0 .. Cells) /\ Cells \in stop
    BY Zenon, <2>2
  <2>. HIDE DEF stop, val, Is, b, p, q, O
  <2>4. PICK f : f = CHOOSE g : Is(g)
    BY Zenon
  <2>5. strstr(m, s, t) = f[s]
    BY Zenon, <1>2, <1>3, <1>7, <2>4 DEF strstr, Is
  <2>6. Search(f, stop, val)
    <3>1. \E g : Search(g, stop, val)
      BY Zenon, <2>3, SearchEnds
    <3>. QED  BY Zenon, <2>1, <2>4, <3>1
  <2>7. Finds(f, stop, val)
    BY Zenon, <2>3, <2>6, SearchFinds
  <2>8. \A i \in 0 .. p : s + i \in 0 .. Cells
    <3>1. \A c \in Cell : c \in 0 .. Cells
      BY UtilsAssumption DEF Cell
    <3>. QED  BY Zenon, <1>1, <3>1
  <2>9. ASSUME NEW k \in 0 .. p, s + k \in stop, \A j \in 0 .. k - 1 : j \notin O
        PROVE  f[s] = val[s + k]
    <3>1. ASSUME NEW h \in s .. (s + k) - 1  PROVE h \notin stop
      <4>1. /\ h - s \in 0 .. k - 1 /\ h - s \in 0 .. p - 1 /\ h - s \in 0 .. p /\ s + (h - s) = h
            /\ (h - s) + 1 \in 0 .. p /\ s + ((h - s) + 1) = h + 1
        BY <1>8
      <4>2. b[h] # 0 /\ h + 1 \in m.read /\ ~MatchesAt(m, h, t, q)
        <5>1. b[s + (h - s)] # 0 /\ s + ((h - s) + 1) \in m.read /\ ~MatchesAt(m, s + (h - s), t, q)
          BY Zenon, <1>1, <1>4, <2>9, <4>1
        <5>. QED  BY Zenon, <4>1, <5>1
      <4>. QED  BY Zenon, <4>2 DEF stop
    <3>2. s <= s + k /\ s + 0 = s /\ 0 \in 0 .. p
      BY <1>8
    <3>3. s \in 0 .. Cells
      BY Zenon, <2>8, <3>2
    <3>. QED  BY Zenon, <2>7, <2>9, <3>1, <3>2, <3>3 DEF Finds
  <2>10. CASE O = {}
    <3>1. p \in 0 .. p
      BY <1>8
    <3>2. s + p \in stop /\ val[s + p] = Nowhere
      BY Zenon, <1>1, <2>8, <3>1 DEF stop, val
    <3>3. f[s] = Nowhere
      BY Zenon, <2>9, <2>10, <3>1, <3>2
    <3>4. found = {}
      BY Zenon, <2>10
    <3>. QED  BY Zenon, <2>5, <3>3, <3>4 DEF O, FirstFound
  <2>11. CASE O # {}
    <3>1. PICK k \in O : \A j \in O : k <= j
      BY Zenon, <1>5, <2>11, LeastNat
    <3>2. k \in 0 .. p /\ k \in 0 .. p - 1
      <4>1. k \in 0 .. p - q
        BY Zenon, <1>5
      <4>. QED  BY <1>7, <1>8, <4>1
    <3>3. MatchesAt(m, s + k, t, q) /\ b[s + k] # 0
      BY Zenon, <1>1, <1>4, <3>2
    <3>4. s + k \in stop /\ val[s + k] = s + k
      BY Zenon, <2>8, <3>2, <3>3 DEF stop, val
    <3>5. \A j \in 0 .. k - 1 : j \notin O
      <4>. SUFFICES ASSUME NEW j \in 0 .. k - 1, j \in O  PROVE FALSE
        BY Zenon
      <4>1. k <= j
        BY Zenon, <3>1
      <4>. QED  BY <1>8, <3>2, <4>1
    <3>6. f[s] = s + k
      BY Zenon, <2>9, <3>2, <3>4, <3>5
    <3>7. found # {} /\ (CHOOSE a \in found : \A c \in found : a <= c) = s + k
      BY Zenon, <1>1, <1>5, <3>1, LeastFound
    <3>. QED  BY Zenon, <2>5, <3>6, <3>7 DEF O, FirstFound
  <2>. QED  BY Zenon, <2>10, <2>11
<1>. QED  BY Zenon, <1>6, <1>7

LEMMA StringsAreRight ==
  ASSUME NEW m \in Memories
  PROVE  StringsRight(m)
<1>. SUFFICES ASSUME NEW s \in Cell, NEW t \in Cell, IsString(m, s), IsString(m, t)
              PROVE  LET x == Str(m, s)
                         y == Str(m, t)
                         found == {s + k : k \in Occurrences(x, y)}
                     IN /\ strlen(m, s) = Len(x)
                        /\ strcmp(m, s, t) = 0 <=> x = y
                        /\ strcmp(m, s, t) < 0 <=> (Precedes(x, y) # (CharSigned /\ Straddles(x, y)))
                        /\ strstr(m, s, t) = IF found = {} THEN Nowhere
                                             ELSE CHOOSE a \in found : \A b \in found : a <= b
  BY Zenon DEF StringsRight
<1>1. PICK x : x = Str(m, s)
  OBVIOUS
<1>2. PICK y : y = Str(m, t)
  BY Zenon
<1>3. Holds(m, s, x) /\ Holds(m, t, y)
  BY Zenon, StringIs, <1>1, <1>2
<1>4. strlen(m, s) = Len(x)
  BY Zenon, <1>3, LengthIs
<1>5. /\ strcmp(m, s, t) = 0 <=> x = y
      /\ strcmp(m, s, t) < 0 <=> (Precedes(x, y) # (CharSigned /\ Straddles(x, y)))
  BY <1>3, ComparesRight
<1>6. strstr(m, s, t) = FirstFound(s, x, y)
  BY <1>3, FindsRight
<1>. QED  BY Zenon, <1>1, <1>2, <1>4, <1>5, <1>6 DEF FirstFound

LEMMA CopiesAreRight ==
  ASSUME NEW m \in Memories
  PROVE  CopiesRight(m)
<1>. SUFFICES ASSUME NEW s \in Cell, NEW d \in Cell, IsString(m, s), d + Len(Str(m, s)) < Cells
              PROVE  LET n == Len(Str(m, s)) + 1
                         after == [m EXCEPT !.byte = strcpy(m, d, s)]
                     IN Span(d, n) \subseteq m.write /\ (d + n <= s \/ s + n <= d)
                          => /\ after.byte = Moved(m.byte, d, s, n)
                             /\ Len(Str([after EXCEPT !.read = Cell], d)) = n - 1
  BY Zenon DEF CopiesRight
<1>1. PICK x : x = Str(m, s)
  OBVIOUS
<1>2. Holds(m, s, x) /\ d + Len(x) < Cells
  BY Zenon, StringIs, <1>1
<1>. DEFINE p == Len(x)  n == p + 1  b == strcpy(m, d, s)  M == Moved(m.byte, d, s, n)
            after == [m EXCEPT !.byte = b]
            seen == [after EXCEPT !.read = Cell]
<1>0. MaxLength \in Nat /\ s \in Nat /\ d \in Nat /\ Cells \in Nat
  BY UtilsAssumption DEF Cell
<1>3. /\ p \in 0 .. MaxLength /\ MaxLength \in Nat /\ s \in Nat /\ d \in Nat /\ Cells \in Nat
      /\ \A i \in 0 .. p : s + i \in m.read /\ s + i \in Cell
      /\ m.byte[s + p] = 0
      /\ \A i \in 0 .. p - 1 : m.byte[s + i] # 0
  BY Zenon, <1>0, <1>2 DEF Holds
<1>. SUFFICES ASSUME Span(d, n) \subseteq m.write, d + n <= s \/ s + n <= d
              PROVE  after.byte = M /\ Len(Str(seen, d)) = n - 1
  BY Zenon, <1>1
<1>4. s + p \in Cell /\ p \in Nat
  <2>1. p \in 0 .. p
    BY <1>3
  <2>. QED  BY <1>3, <2>1
<1>5. <<d, n>> \in Ranges /\ s + n <= Cells /\ d + n <= Cells /\ n \in Nat
  <2>1. n \in 0 .. Cells /\ s + n <= Cells /\ d + n <= Cells /\ n \in Nat
    BY <1>2, <1>3, <1>4 DEF Cell
  <2>2. <<d, n>> \in Cell \X (0 .. Cells) /\ <<d, n>>[1] = d /\ <<d, n>>[2] = n
    BY Zenon, <2>1
  <2>. QED  BY Zenon, <2>1, <2>2 DEF Ranges
<1>6. Span(s, n) \subseteq m.read
  <2>1. \A a \in Span(s, n) : a - s \in 0 .. p /\ s + (a - s) = a
    BY <1>3, <1>4 DEF Span
  <2>. QED  BY ZenonT(60), <1>3, <2>1
<1>7. d <= s \/ s + n <= d
  BY <1>3, <1>5
<1>8. b = M
  <2>1. strlen(m, s) = p
    BY Zenon, <1>2, LengthIs
  <2>2. <<d, n>>[1] = d /\ <<d, n>>[2] = n
    BY Zenon
  <2>3. memcpy(m, d, s, n) = M
    <3>. HIDE DEF n, p
    <3>. QED  BY Zenon, MovesAreRight, <1>5, <1>6, <1>7, <2>2 DEF MovesRight
  <2>. QED  BY Zenon, <2>1, <2>3 DEF strcpy
<1>9. after = [m EXCEPT !.byte = M] /\ seen = [after EXCEPT !.read = Cell]
  BY Zenon, <1>8
<1>. HIDE DEF after, seen, b, n
<1>10. m.byte \in Stores /\ m.read \in SUBSET Cell /\ m.write \in SUBSET Cell
  BY Zenon DEF Memories
<1>11. M \in Stores
  <2>1. ASSUME NEW a \in Cell, a \in d .. d + n - 1  PROVE s + (a - d) \in Cell
    <3>1. s \in Nat /\ d \in Nat /\ Cells \in Nat /\ n \in Nat /\ s + n <= Cells
      BY Zenon, <1>3, <1>5
    <3>. QED  BY <2>1, <3>1 DEF Cell
  <2>2. ASSUME NEW a \in Cell
        PROVE  (IF a \in d .. d + n - 1 THEN m.byte[s + (a - d)] ELSE m.byte[a]) \in Chars
    BY Zenon, <1>10, <2>1 DEF Stores
  <2>. QED  BY Zenon, <2>2 DEF Moved, Stores
<1>. HIDE DEF M
<1>12. after.byte = M /\ seen \in Memories /\ seen.byte = M /\ seen.read = Cell
  BY Zenon, <1>9, <1>10, <1>11 DEF Memories
<1>13. ASSUME NEW i \in 0 .. p  PROVE d + i \in Cell /\ M[d + i] = m.byte[s + i]
  <2>1. d + i \in Cell /\ d + i \in d .. d + n - 1 /\ s + ((d + i) - d) = s + i
    BY <1>2, <1>3 DEF Cell, n
  <2>. QED  BY Zenon, <2>1 DEF M, Moved
<1>14. M[d + p] = 0 /\ \A i \in 0 .. p - 1 : M[d + i] # 0
  <2>1. p \in 0 .. p /\ \A i \in 0 .. p - 1 : i \in 0 .. p
    BY <1>3
  <2>. QED  BY Zenon, <1>3, <1>13, <2>1
<1>15. d \in Int
  BY <1>3
<1>16. Len(Str(seen, d)) = p
  <2>1. /\ \A i \in 0 .. p : d + i \in seen.read
        /\ seen.byte[d + p] = 0 /\ \A i \in 0 .. p - 1 : seen.byte[d + i] # 0
    BY Zenon, <1>12, <1>13, <1>14
  <2>. QED  BY Zenon, <1>3, <1>12, <1>15, <2>1, Terminated
<1>17. p = n - 1
  BY <1>3 DEF n
<1>. QED  BY Zenon, <1>12, <1>16, <1>17

LEMMA UtilsAreRight ==
  ASSUME NEW m \in Memories
  PROVE  UtilsRight(m)
BY Zenon, MovesAreRight, StringsAreRight, CopiesAreRight DEF UtilsRight

(* The memory functions are the C library's on every window of the memory *)
(* map, whatever it holds, for every layout, size of window and bound on   *)
(* the length of strings.  The one exception is the sign of strcmp, which  *)
(* is the opposite one exactly where chars are signed and only one of the  *)
(* bytes the strings part in has its high bit set.                         *)
THEOREM UtilsStayStandard == MapSpec => []UtilsAreStandard
<1>1. ASSUME NEW w, NEW b \in [Cell -> Chars]  PROVE Window(w, b) \in Memories
  BY Zenon DEF Window, Memories, Stores
<1>2. UtilsAreStandard
  BY Zenon, <1>1, UtilsAreRight DEF UtilsAreStandard
<1>. QED  BY <1>2, PTL

=============================================================================

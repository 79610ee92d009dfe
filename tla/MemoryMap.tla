----------------------------- MODULE MemoryMap ------------------------------
(***************************************************************************)
(* The kernel's memory map: the block allocator (kernel/mm/memory.c), the  *)
(* region table that memset and the other memory functions consult before  *)
(* they touch anything (kernel/security.c, kernel/mm/memory_utils.c), and  *)
(* the section table of the MMU (kernel/mm/arm_mmu.c).  The three describe *)
(* the same addresses independently, from include/memory.h and the linker  *)
(* symbols.                                                                *)
(*                                                                         *)
(* dirty is the set of heap addresses that do not hold zero; owned, which   *)
(* no code keeps, is the set of addresses callers were given and have not  *)
(* freed.                                                                  *)
(***************************************************************************)
EXTENDS FrameAllocator, Sequences

CONSTANTS
  AddrMax,            \* SIZE_MAX
  NullEnd,            \* last address of the null pointer guard
  Text, Data, User,   \* <<first, last>> of the sections and of user space
  HeapStart, HeapEnd, \* MM_HEAP_START, MM_HEAP_END
  SectionSize,        \* 1 MB
  Device,             \* the section of the device registers
  BlockSizes,         \* block_sizes[]
  BlocksPerSize,      \* MEM_BLOCKS_PER_SIZE
  MaxRegions          \* MAX_PROTECTED_REGIONS

(* The _Static_asserts of memory.c, the order of the sections in the       *)
(* linker scripts, and a table with room for what security_init adds.      *)
ASSUME MapAssumption ==
  /\ {NullEnd, HeapStart, HeapEnd, Device, AddrMax} \subseteq Nat
  /\ {Text, Data, User} \subseteq Nat \X Nat
  /\ NullEnd < Text[1] /\ Text[2] < Data[1]
  /\ HeapEnd <= User[1] \/ HeapStart > User[2]
  /\ HeapStart < HeapEnd /\ HeapEnd <= AddrMax
  /\ SectionSize \in Nat \ {0} /\ BlocksPerSize \in Nat \ {0}
  /\ MaxRegions \in Nat /\ MaxRegions >= 5

VARIABLES
  booted,             \* how far kmain is: 0, then after each of its three calls
  protected_regions, l1_page_table,
  address,            \* memory_blocks[..].address, NULL before memory_init
  in_use, dirty, owned

mapVars == <<booted, protected_regions, l1_page_table, address, in_use, dirty,
          owned>>

-----------------------------------------------------------------------------

NULL == 0
Blocks == (1 .. Len(BlockSizes)) \X (0 .. BlocksPerSize - 1)
Bytes(b) == address[b] .. address[b] + BlockSizes[b[1]] - 1
Heap == HeapStart .. HeapEnd - 1
Sections == 0 .. AddrMax \div SectionSize

MapInit ==
  /\ Init
  /\ booted = 0
  /\ protected_regions = <<>>
  /\ l1_page_table = [s \in Sections |-> "unmapped"]
  /\ address = [b \in Blocks |-> NULL]
  /\ in_use = {} /\ dirty = Heap /\ owned = {}

-----------------------------------------------------------------------------
(* security.c.                                                             *)

Region(first, last, r, w) == [first |-> first, last |-> last, read |-> r, write |-> w]

region_add(table, r) ==
  IF Len(table) >= MaxRegions \/ r.last < r.first THEN table ELSE Append(table, r)

Guard == Region(0, NullEnd, FALSE, FALSE)
KernelText == Region(Text[1], Text[2], TRUE, FALSE)
KernelData == Region(Data[1], Data[2], TRUE, TRUE)
KernelHeap == Region(HeapStart, HeapEnd - 1, TRUE, TRUE)
UserSpace == Region(User[1], User[2], TRUE, TRUE)

security_regions_init ==
  region_add(region_add(region_add(region_add(region_add(<<>>,
    Guard), KernelText), KernelData), KernelHeap), UserSpace)

(* Mutant: an access is compared by its first address only.                *)
MutOverlaps(a, end, r) == a <= r.last /\ a >= r.first

Overlaps(a, end, r) == a <= r.last /\ end >= r.first

(* A zero-sized access counts as one of the byte at its address.           *)
security_validate_memory_access(a, n, write) ==
  LET end == a + n - (IF n > 0 THEN 1 ELSE 0) IN
  /\ ~(a = NULL /\ n > 0)
  /\ ~(n > 0 /\ AddrMax - n < a)
  /\ \A i \in 1 .. Len(protected_regions) :
       LET r == protected_regions[i] IN
       Overlaps(a, end, r) => r.read /\ (write => r.write)

(* Mutant: the validator refuses the heap, and nothing is cleared.         *)
MutZeroed(a, n) == dirty

(* memset(a, 0, n): silently nothing, when the validator refuses.          *)
Zeroed(a, n) ==
  IF security_validate_memory_access(a, n, TRUE)
  THEN dirty \ (a .. a + n - 1) ELSE dirty

security_init ==
  /\ booted = 0
  /\ booted' = 1
  /\ protected_regions' = security_regions_init
  /\ UNCHANGED <<vars, l1_page_table, address, in_use, dirty, owned>>

-----------------------------------------------------------------------------
(* memory.c.                                                               *)

(* Where current_heap_ptr is when the blocks of class c are carved.        *)
ClassStart[c \in 1 .. Len(BlockSizes)] ==
  IF c = 1 THEN HeapStart
  ELSE ClassStart[c - 1] + BlocksPerSize * BlockSizes[c - 1]

(* Mutant: the heap pointer is not advanced past a class's last block.     *)
MutCarved(b) ==
  ClassStart[b[1]] + b[2] * BlockSizes[b[1]] - (b[1] - 1)

(* A block the heap has no room for, and all after it, keep address NULL.  *)
Carved(b) ==
  LET a == ClassStart[b[1]] + b[2] * BlockSizes[b[1]] IN
  IF a + BlockSizes[b[1]] <= HeapEnd THEN a ELSE NULL

(* The values of memory.h and memory.c, and where the linker scripts put    *)
(* the image: the heap starts above the guard and kernel text, user space  *)
(* and the heap start with a section, and there is room for every block    *)
(* (174080 of 1048576 bytes).                                              *)
ASSUME HeapAssumption ==
  /\ NullEnd < HeapStart /\ Text[2] < HeapStart /\ User[1] <= User[2]
  /\ HeapStart % SectionSize = 0 /\ User[1] % SectionSize = 0
  /\ BlockSizes \in Seq(Nat \ {0}) /\ BlockSizes # <<>>
  /\ ClassStart[Len(BlockSizes)] + BlocksPerSize * BlockSizes[Len(BlockSizes)]
       <= HeapEnd

memory_init ==
  /\ booted = 1
  /\ booted' = 2
  /\ address' = [b \in Blocks |-> Carved(b)]
  /\ UNCHANGED <<vars, protected_regions, l1_page_table, in_use, dirty, owned>>

(* The smallest class that is large enough.                                *)
find_size_class(n) ==
  {c \in 1 .. Len(BlockSizes) :
     n <= BlockSizes[c] /\ \A d \in 1 .. c - 1 : n > BlockSizes[d]}

TakesBlock(n, b) ==
  /\ b[1] \in find_size_class(n)
  /\ b \notin in_use
  /\ \A i \in 0 .. b[2] - 1 : <<b[1], i>> \in in_use

alloc_memory(n) ==
  /\ booted = 3
  /\ \/ \E b \in Blocks :
          /\ n > 0 /\ TakesBlock(n, b)
          /\ in_use' = in_use \union {b}
          /\ dirty' = Zeroed(address[b], BlockSizes[b[1]])
          /\ owned' = owned \union ({address[b]} \ {NULL})
     \/ /\ n = 0 \/ \A b \in Blocks : ~TakesBlock(n, b)
        /\ UNCHANGED <<in_use, dirty, owned>>
  /\ UNCHANGED <<vars, booted, protected_regions, l1_page_table, address>>

IsAt(a, b) == a = address[b]

(* Addresses outside the heap, inside a block, or free already are refused *)
(* with a log message.                                                     *)
free_memory(a) ==
  /\ booted = 3
  /\ \/ \E b \in in_use :
          /\ a \in Heap /\ IsAt(a, b)
          /\ in_use' = in_use \ {b}
          /\ dirty' = Zeroed(a, BlockSizes[b[1]])
     \/ /\ a \notin Heap \/ \A b \in in_use : ~IsAt(a, b)
        /\ UNCHANGED <<in_use, dirty>>
  /\ owned' = owned \ {a}
  /\ UNCHANGED <<vars, booted, protected_regions, l1_page_table, address>>

(* A caller writes to the block it was given.                              *)
OwnerWrites(b) ==
  /\ b \in in_use /\ address[b] \in owned
  /\ dirty' = dirty \union Bytes(b)
  /\ UNCHANGED <<vars, booted, protected_regions, l1_page_table, address, in_use,
                 owned>>

-----------------------------------------------------------------------------
(* arm_mmu.c.                                                              *)

SectionOf(a) == a \div SectionSize

UserSections == SectionOf(User[1]) .. SectionOf(User[2])

(* Every section the heap touches, a partly used last one included.        *)
HeapSections ==
  SectionOf(HeapStart) .. SectionOf(HeapEnd + SectionSize - 1) - 1

(* arm_mmu_init has the bounds of user space as the numbers 4 and 8 of     *)
(* sections, memory.c as addresses; User stands for both, as the heap's    *)
(* macros do in all three files.                                           *)
(* Later loops overwrite what earlier ones entered: the heap and the       *)
(* device are the kernel's alone even where user space was mapped before.  *)
arm_mmu_init ==
  /\ booted = 2
  /\ booted' = 3
  /\ l1_page_table' = [s \in Sections |->
       IF s \in HeapSections \union {Device} THEN "kernel"
       ELSE IF s \in UserSections THEN "user"
       ELSE IF s < SectionOf(User[1]) THEN "kernel" ELSE "unmapped"]
  /\ UNCHANGED <<vars, protected_regions, address, in_use, dirty, owned>>

(* Its callers flip the first section of user space and back, and try one  *)
(* that is not mapped, which is refused.                                   *)
arm_section_set_ap(s, ap) ==
  /\ booted = 3
  /\ l1_page_table' = IF l1_page_table[s] = "unmapped" THEN l1_page_table
                      ELSE [l1_page_table EXCEPT ![s] = ap]
  /\ UNCHANGED <<vars, booted, protected_regions, address, in_use, dirty, owned>>

-----------------------------------------------------------------------------

Sizes == 0 .. BlockSizes[Len(BlockSizes)] + 1
FreedAddresses == {NULL} \union HeapStart - 1 .. HeapEnd
FlippedSections ==
  {SectionOf(User[1])} \union {s \in Sections : l1_page_table[s] = "unmapped"}

FrameCalls == booted = 3 /\ Next /\ UNCHANGED mapVars

MapNext ==
  \/ FrameCalls
  \/ security_init
  \/ memory_init
  \/ arm_mmu_init
  \/ \E n \in Sizes : alloc_memory(n)
  \/ \E a \in FreedAddresses : free_memory(a)
  \/ \E b \in Blocks : OwnerWrites(b)
  \/ \E s \in FlippedSections, ap \in {"kernel", "user"} : arm_section_set_ap(s, ap)

MapSpec == MapInit /\ [][MapNext]_<<vars, mapVars>>

-----------------------------------------------------------------------------
(* Properties.                                                             *)

(* Two callers never own the same byte, no caller owns one outside the     *)
(* heap, and the allocator and its callers agree on who owns what, after   *)
(* any sequence of good and refused frees.  Once the MMU is on every block *)
(* is mapped, and for the kernel alone: the heap bounds of memory.h agree  *)
(* with the section table of arm_mmu.c.                                    *)
BlocksApart ==
  /\ booted = 3 =>
       \A b \in Blocks : \A a \in Bytes(b) : l1_page_table[SectionOf(a)] = "kernel"
  /\ owned = {address[b] : b \in in_use}
  /\ \A b \in in_use : Bytes(b) \subseteq Heap
  /\ \A b, c \in in_use : b # c => Bytes(b) \intersect Bytes(c) = {}

(* alloc_memory clears what it gives out ("Clear memory before use"), and  *)
(* so shows nobody what a previous owner left: the memset it relies on is  *)
(* never refused by the region table.                                      *)
AllocCleared ==
  [][\A b \in Blocks : b \in in_use' \ in_use =>
       \A a \in address[b] .. address[b] + BlockSizes[b[1]] - 1 : a \notin dirty']_mapVars

(* The validator against its meaning, in the table security_regions_init   *)
(* builds and nothing changes later: an access is allowed exactly when it  *)
(* ends below SIZE_MAX and none of its bytes is in the guard, NULL         *)
(* included, or, for a write, in kernel text.  An access of no bytes is    *)
(* judged by the byte it points at, and cannot run over SIZE_MAX.          *)
ValidatorExact ==
  booted = 1 =>
    \A a \in 0 .. AddrMax, n \in 0 .. SectionSize, write \in BOOLEAN :
      security_validate_memory_access(a, n, write) <=>
        /\ n = 0 \/ a + n <= AddrMax
        /\ \A byte \in {a} \union (a .. a + n - 1) :
             /\ byte > NullEnd
             /\ write => byte \notin Text[1] .. Text[2]

=============================================================================

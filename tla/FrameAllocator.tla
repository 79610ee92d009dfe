--------------------------- MODULE FrameAllocator ---------------------------
(***************************************************************************)
(* The page frame allocator (kernel/mm/frames.c): a bitmap over a fixed    *)
(* pool, a count of the free frames kept beside it, and callers that may   *)
(* hand free_frame an address it must refuse: below the pool, above it,    *)
(* not aligned, or freed already.                                          *)
(*                                                                         *)
(* frame_bitmap is the set of the indices whose bit is 1; held, which no   *)
(* code keeps, is the set of addresses callers have been given and have    *)
(* not freed.                                                              *)
(***************************************************************************)
EXTENDS Integers, FiniteSets

CONSTANTS
  Frames,      \* FRAME_POOL_FRAMES
  FrameSize,   \* MM_FRAME_SIZE
  Base,        \* FRAME_POOL_BASE
  Addresses    \* what callers may pass to free_frame

ASSUME FrameAssumption ==
  /\ Frames \in Nat \ {0} /\ FrameSize \in Nat \ {0} /\ Base \in Nat \ {0}
  /\ Base % FrameSize = 0
  /\ Addresses \subseteq Nat

VARIABLES
  frame_bitmap, frames_free,
  result,      \* what the last call of alloc_frame returned
  held

vars == <<frame_bitmap, frames_free, result, held>>

Pool == 0 .. Frames - 1

AddressOf(i) == Base + i * FrameSize

TypeOK ==
  /\ frame_bitmap \subseteq Pool
  /\ frames_free \in 0 .. Frames
  /\ result \in {0} \cup {AddressOf(i) : i \in Pool}
  /\ held \subseteq {AddressOf(i) : i \in Pool}

(* frame_allocator_init.                                                   *)
Init ==
  /\ frame_bitmap = {} /\ frames_free = Frames
  /\ result = 0 /\ held = {}

(* The scan meets i first.                                                 *)
Takes(i) ==
  /\ \A j \in Pool : j < i => j \in frame_bitmap
  /\ i \notin frame_bitmap

alloc_frame ==
  \/ \E i \in Pool :
       /\ Takes(i)
       /\ frame_bitmap' = frame_bitmap \cup {i}
       /\ frames_free' = frames_free - 1
       /\ result' = AddressOf(i)
       /\ held' = held \cup {AddressOf(i)}
  \/ /\ Pool \subseteq frame_bitmap
     /\ result' = 0
     /\ UNCHANGED <<frame_bitmap, frames_free, held>>

(* Mutant: the alignment of the address is not looked at.                  *)
MutAligned(a) == TRUE

Aligned(a) == a % FrameSize = 0

InUse(i) == i \in frame_bitmap

free_frame(a) ==
  LET idx == (a - Base) \div FrameSize
      accepted == a >= Base /\ Aligned(a) /\ idx < Frames /\ InUse(idx)
  IN  /\ \/ /\ accepted
            /\ frame_bitmap' = frame_bitmap \ {idx}
            /\ frames_free' = frames_free + 1
         \/ /\ ~accepted
            /\ UNCHANGED <<frame_bitmap, frames_free>>
      /\ held' = held \ {a}
      /\ UNCHANGED result

Next == alloc_frame \/ \E a \in Addresses : free_frame(a)

Spec == Init /\ [][Next]_vars

-----------------------------------------------------------------------------
(* Properties.                                                             *)

(* frames_free, which frame_count_free reports, is the number of clear     *)
(* bits, after any sequence of good and refused calls.                     *)
CountAgrees == frames_free = Frames - Cardinality(frame_bitmap)

(* A frame is in use exactly when a caller holds it: no call of free_frame *)
(* takes a frame from a caller who passed another address, and none leaks. *)
HeldIsInUse == held = {AddressOf(i) : i \in frame_bitmap}

(* alloc_frame gives out a frame that nobody holds, and fails only when    *)
(* all are held.                                                           *)
AllocIsFresh ==
  [][alloc_frame => \/ result' # 0 /\ result' \notin held
                    \/ result' = 0 /\ held = {AddressOf(i) : i \in Pool}]_vars

(* What the proofs use.                                                    *)
IInv == TypeOK /\ CountAgrees /\ HeldIsInUse
=============================================================================

---------------------------- MODULE MCMemoryMap -----------------------------
(***************************************************************************)
(* A scaled map in the order of the ARM one: guard, a gap, text, data, the *)
(* frame pool whose upper half lies in user sections, heap, device, with   *)
(* two sizes of two blocks; and the memory functions on windows of five    *)
(* cells of that map.                                                      *)
(***************************************************************************)
EXTENDS MemoryUtils

MCText == <<3, 4>>
MCData == <<5, 7>>
MCUser == <<16, 31>>
MCBlockSizes == <<1, 2>>

=============================================================================

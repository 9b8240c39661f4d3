------------------------------ MODULE PhysMem ------------------------------
(***************************************************************************)
(* The physical frame allocator of mm/pframe.cc: one bit per page frame,   *)
(* set while the frame is reserved or handed out.  The bitmap itself lives *)
(* in the memory it manages, and phys_alloc_page zeroes what it hands out, *)
(* so where the bitmap lies relative to the first free frame matters.      *)
(*                                                                         *)
(* Addresses are bytes of a scaled-down machine: PAGE_SIZE, FirstMegabyte  *)
(* and SecondMegabyte stand for 4096, 0x100000 and 0x200000.               *)
(***************************************************************************)
EXTENDS Integers, Sequences, FiniteSets, FiniteSetsExt

CONSTANTS
  MemoryMaps,      \* what the loader may report: sequences of entries
  LoadedEnds,      \* where the kernel and the modules may end in memory
  PAGE_SIZE,
  FirstMegabyte,   \* distance from the biggest region's base to the bitmap
  SecondMegabyte   \* lowest address that is ever freed

Available == 1     \* MULTIBOOT_MEMORY_AVAILABLE

Entries == [base_addr : Nat, length : Nat, type : Nat]

ASSUME PhysMemAssumption ==
  /\ \A m \in MemoryMaps : /\ m \in Seq(Entries)
                           /\ \E i \in DOMAIN m : m[i].type = Available
  /\ LoadedEnds \subseteq Nat
  /\ PAGE_SIZE \in Nat \ {0}
  /\ FirstMegabyte \in Nat
  /\ SecondMegabyte \in Nat

VARIABLES
  mmap,        \* the loader's memory map
  loaded_end,  \* kernel segments and modules occupy FirstMegabyte..loaded_end-1
  phase,       \* "reset", "ready", or "panic" once out of memory
  bitmap,      \* address of the bitmap
  used,        \* its bits; frames beyond it are never looked at
  held,        \* how many callers hold each frame
  discarded    \* the two frames the set-up takes and never gives back

vars == <<mmap, loaded_end, phase, bitmap, used, held, discarded>>

-----------------------------------------------------------------------------
(* What phys_init_multiboot computes from the map.                         *)
AvailableEntries == {i \in DOMAIN mmap : mmap[i].type = Available}

Length(i) == mmap[i].length

(* Mutant: entries of every type are added up.                             *)
available_memory_AllTypes == MapThenSumSet(Length, DOMAIN mmap)

available_memory == MapThenSumSet(Length, AvailableEntries)

(* The first of the longest available entries.                             *)
biggest_part ==
  LET longest == {i \in AvailableEntries :
                    \A j \in AvailableEntries : mmap[j].length <= mmap[i].length}
  IN  mmap[Min(longest)]

bitmap_size == (available_memory \div PAGE_SIZE) \div 8
Frames      == 0..(8 * bitmap_size - 1)

(* Where the range that is freed begins, and its first frame.              *)
FreeBase   == Max({biggest_part.base_addr + bitmap_size + FirstMegabyte,
                   SecondMegabyte})
FirstFrame == FreeBase \div PAGE_SIZE

(* phys_free_range(base, length) takes the length, a number of bytes, as a *)
(* number of frames.                                                       *)
FreedFrames == FirstFrame .. (FirstFrame + biggest_part.length - 1)

Bytes(frame) == (frame * PAGE_SIZE) .. (frame * PAGE_SIZE + PAGE_SIZE - 1)

(* Every byte phys_init_multiboot writes before it allocates: the bitmap,  *)
(* and the bits of freed frames, of which most lie behind the bitmap.      *)
InitWrites ==
  LET b == biggest_part.base_addr + FirstMegabyte
  IN  (b .. (b + bitmap_size - 1)) \cup {b + (f \div 8) : f \in FreedFrames}

-----------------------------------------------------------------------------
(* phys_alloc_page skips bytes that are 0xFF and takes the first clear bit *)
(* of the next one.                                                        *)
FreeFrames(bits) == {f \in DOMAIN bits : ~bits[f]}

(* Mutant: the frame is not marked.                                        *)
Take_Unmarked(b, bits, frame) ==
  [f \in DOMAIN bits |-> bits[f] /\ b + (f \div 8) \notin Bytes(frame)]

(* phys_alloc_page marks the frame, then zeroes it: the bits that the      *)
(* frame holds, if part of the bitmap lies in it, are cleared.             *)
Take(b, bits, frame) ==
  [f \in DOMAIN bits |-> /\ bits[f] \/ f = frame
                         /\ b + (f \div 8) \notin Bytes(frame)]

Init ==
  /\ mmap \in MemoryMaps
  /\ loaded_end \in LoadedEnds
  /\ phase = "reset"
  /\ bitmap = 0
  /\ used = [f \in {} |-> TRUE]
  /\ held = [f \in {} |-> 0]
  /\ discarded = {}

FirstFree(bits) == Min(FreeFrames(bits))

(* The bits after an allocation; nothing to take means panic.              *)
AfterAlloc(b, bits) ==
  IF FreeFrames(bits) = {} THEN bits ELSE Take(b, bits, FirstFree(bits))

(* Ends with two allocations, p1 and p2, whose addresses are dropped.      *)
phys_init_multiboot ==
  /\ phase = "reset"
  /\ bitmap' = biggest_part.base_addr + FirstMegabyte
  /\ LET bits0 == [f \in Frames |-> f \notin FreedFrames]
         bits1 == AfterAlloc(bitmap', bits0)
         taken == IF FreeFrames(bits0) = {} THEN <<>>
                  ELSE IF FreeFrames(bits1) = {} THEN <<FirstFree(bits0)>>
                  ELSE <<FirstFree(bits0), FirstFree(bits1)>>
     IN  /\ phase' = IF Len(taken) = 2 THEN "ready" ELSE "panic"
         /\ used' = AfterAlloc(bitmap', bits1)
         /\ held' = [f \in Frames |->
                       Cardinality({i \in DOMAIN taken : taken[i] = f})]
         /\ discarded' = {taken[i] : i \in DOMAIN taken}
  /\ UNCHANGED <<mmap, loaded_end>>

(* The first frame whose bit is clear, for heap, page tables and callers.  *)
phys_alloc_page ==
  /\ phase = "ready"
  /\ FreeFrames(used) # {}
  /\ LET frame == FirstFree(used)
     IN  /\ used' = Take(bitmap, used, frame)
         /\ held' = [held EXCEPT ![frame] = @ + 1]
  /\ UNCHANGED <<mmap, loaded_end, phase, bitmap, discarded>>

(* panic("Out of memory!") halts the CPU.                                  *)
out_of_memory ==
  /\ phase = "ready"
  /\ FreeFrames(used) = {}
  /\ phase' = "panic"
  /\ UNCHANGED <<mmap, loaded_end, bitmap, used, held, discarded>>

(* Mutant: `page % 8` forgotten, the first bit of the byte is cleared.     *)
phys_free_page_FirstBit(frame) ==
  /\ phase = "ready"
  /\ held[frame] > 0
  /\ frame \notin discarded
  /\ used' = [used EXCEPT ![(frame \div 8) * 8] = FALSE]
  /\ held' = [held EXCEPT ![frame] = @ - 1]
  /\ UNCHANGED <<mmap, loaded_end, phase, bitmap, discarded>>

(* A holder gives its frame back; p1 and p2 have no holder to do so.       *)
phys_free_page(frame) ==
  /\ phase = "ready"
  /\ held[frame] > 0
  /\ frame \notin discarded
  /\ used' = [used EXCEPT ![frame] = FALSE]
  /\ held' = [held EXCEPT ![frame] = @ - 1]
  /\ UNCHANGED <<mmap, loaded_end, phase, bitmap, discarded>>

Next ==
  \/ phys_init_multiboot
  \/ phys_alloc_page
  \/ out_of_memory
  \/ \E frame \in DOMAIN held : phys_free_page(frame)

Spec == Init /\ [][Next]_vars

-----------------------------------------------------------------------------
(* The bitmap and the record of who holds what cover the same frames.      *)
TypeOK ==
  /\ mmap \in MemoryMaps
  /\ loaded_end \in LoadedEnds
  /\ phase \in {"reset", "ready", "panic"}
  /\ bitmap \in Nat
  /\ DOMAIN used = DOMAIN held
  /\ \A f \in DOMAIN used : used[f] \in BOOLEAN /\ held[f] \in Nat
  /\ discarded \subseteq DOMAIN held

(* phys_alloc_page never hands out a frame that somebody still holds.      *)
NoFrameHeldTwice == \A f \in DOMAIN held : held[f] <= 1

(* The bitmap is exact: below the first freed frame everything stays       *)
(* reserved, above it a bit is set just while the frame is held.  Zeroing  *)
(* a frame erases no mark, and freeing gives back that frame and no other. *)
BitmapExact ==
  \A f \in DOMAIN used : used[f] <=> (f < FirstFrame \/ held[f] > 0)

(* Every byte of a frame in use is RAM the loader reported as available.   *)
HeldIsRam ==
  \A f \in DOMAIN held : held[f] > 0 =>
    \E i \in AvailableEntries :
      Bytes(f) \subseteq mmap[i].base_addr ..
                           (mmap[i].base_addr + mmap[i].length - 1)

(* "Out of memory" is said only when every allocatable frame is held.      *)
PanicOnlyWhenFull ==
  phase = "panic" => \A f \in DOMAIN held : f >= FirstFrame => held[f] = 1

(* Neither the set-up nor an allocation writes into the kernel's segments  *)
(* or the modules, which lie in available RAM from 1 MB upwards.           *)
LoaderRegionsKept ==
  phase = "ready" =>
    LET written == InitWrites \cup
                   UNION {Bytes(f) : f \in {g \in DOMAIN held : held[g] > 0}}
    IN  written \cap (FirstMegabyte .. (loaded_end - 1)) = {}
=============================================================================

------------------------------ MODULE Firmware ------------------------------
(***************************************************************************)
(* What the loader learns from the machine's firmware (loader_x86.c): the  *)
(* memory map, the video mode, the system tables, the boot partition and   *)
(* the sectors of the boot drive, from a BIOS, from UEFI and from          *)
(* FOSSBIOS.  The firmware's own data are the arguments.                   *)
(***************************************************************************)
EXTENDS Integers, Sequences, SequencesExt, FiniteSets, FiniteSetsExt, Functions

----------------------------------------------------------------------------
(* The memory map: entries of base, len and type.                          *)

AVAILABLE == 1
RESERVED == 2
ACPI_RECLAIMABLE == 3
NVS == 4
BADRAM == 5

Top(e) == e.base + e.len

(* Mutant: entries of the same base are told apart by nothing, and one is lost. *)
Sunk_Same(s, e) ==
  LET n == Cardinality({i \in DOMAIN s : s[i].base < e.base})
  IN SubSeq(s, 1, n) \o <<e>> \o SubSeq(s, n + (IF n < Len(s) /\ s[n + 1].base = e.base THEN 2 ELSE 1), Len(s))

(* An entry sinks to its place among those before it.                      *)
Sunk(s, e) == InsertAt(s, Cardinality({i \in DOMAIN s : s[i].base <= e.base}) + 1, e)

(* ram grows to the top of what has come to lie last: the first entry is   *)
(* never asked, nor one that has to move.                                  *)
sort_map(dst, ram) ==
  LET step(a, e) == LET s == Sunk(a.map, e)
                        top == IF Len(s) > 1 /\ Last(s).type = AVAILABLE THEN Top(Last(s)) ELSE 0
                    IN [map |-> s, ram |-> IF top > a.ram THEN top ELSE a.ram]
  IN FoldLeft(step, [map |-> <<>>, ram |-> ram], dst)

(* An answer of int 0x15 has an entry, the carry and ebx.  One with the    *)
(* carry set is not kept.                                                  *)
bios_e820(answers) ==
  LET last == CHOOSE i \in DOMAIN answers :
                /\ answers[i].carry \/ answers[i].ebx = 0
                /\ \A j \in 1 .. i - 1 : ~answers[j].carry /\ answers[j].ebx # 0
      n == IF answers[last].carry THEN last - 1 ELSE last
  IN sort_map([i \in 1 .. n |-> answers[i].entry], 0)

EfiType(t) == CASE t \in 1 .. 4 \cup {7} -> AVAILABLE
                [] t = 8 -> BADRAM
                [] t = 9 -> ACPI_RECLAIMABLE
                [] t = 10 -> NVS
                [] OTHER -> RESERVED
(* The map that becomes a tag, and the size of memory alone.               *)
efi_memmap(descriptors) ==
  sort_map([i \in DOMAIN descriptors |->
              [base |-> descriptors[i].start, len |-> descriptors[i].pages, type |-> EfiType(descriptors[i].type)]], 0)
efi_ram(descriptors) ==
  Max({0} \cup {descriptors[i].start + descriptors[i].pages : i \in {j \in DOMAIN descriptors : descriptors[j].type = 7}})

FbType(t) == CASE t \in 0 .. 2 -> AVAILABLE [] t \in 3 .. 4 -> RESERVED [] t = 5 -> NVS [] OTHER -> BADRAM
(* The low bits of a size are its type.                                    *)
fb_memmap(memmap) ==
  sort_map([i \in DOMAIN memmap |-> [base |-> memmap[i].base, len |-> 8 * (memmap[i].size \div 8),
                                     type |-> FbType(memmap[i].size % 8)]], 0)

(* Linux reads the map from the zero page, which has room for only some.   *)
e820_table(map, room) == [i \in 1 .. Min({Len(map), room}) |-> map[i]]

----------------------------------------------------------------------------
(* The video modes.  A mode has w, h, bpp, ok (it can be used, in the      *)
(* BIOS's sense it is a linear framebuffer) and sets (whether setting it   *)
(* works).  A screen has the mode that is set and the one in vidmode, 0    *)
(* when there is none.                                                     *)

(* UEFI masks, as sets of bits: the depth, a field's position and size.    *)
Depth(m) == IF m.format \in {"rgb", "bgr"} THEN 32
            ELSE Max({-1} \cup m.red \cup m.green \cup m.blue) + 1
FieldAt(mask) == Min(mask)
FieldSize(mask) == CHOOSE n \in 1 .. 32 : /\ FieldAt(mask) + n \notin mask
                                          /\ \A k \in 0 .. n - 1 : FieldAt(mask) + k \in mask

Bpp(firmware, m) == IF firmware = "gop" THEN Depth(m) ELSE m.bpp
Fits(firmware, m, req) == m.ok /\ Bpp(firmware, m) = req.bpp /\ m.w <= req.w /\ m.h <= req.h

(* Mutant: a mode replaces the best one when it is larger in one direction. *)
Better_Either(firmware, m, best) ==
  IF firmware = "vbe" THEN m.w >= best.w \/ m.h >= best.h ELSE m.w > best.w \/ m.h > best.h

(* What replaces the best mode so far.                                     *)
Better(firmware, m, best) ==
  IF firmware = "vbe" THEN m.w >= best.w /\ m.h >= best.h ELSE m.w > best.w /\ m.h > best.h

(* bios_vbe, efi_gop and fb_lfb: the number of the mode they try, or 0.    *)
BestMode(firmware, modes, req) ==
  LET step(best, i) == IF Fits(firmware, modes[i], req) /\ Better(firmware, modes[i], best)
                       THEN [w |-> modes[i].w, h |-> modes[i].h, at |-> i] ELSE best
  IN FoldLeft(step, [w |-> 0, h |-> 0, at |-> 0], [i \in DOMAIN modes |-> i]).at

SetVideo(firmware, modes, screen, req) ==
  LET b == BestMode(firmware, modes, req)
  IN IF req.w < 320 \/ req.h < 200 \/ req.bpp < 15 \/ b = 0 THEN screen
     ELSE IF ~modes[b].sets THEN screen ELSE [set |-> b, vidmode |-> b]

(* bios_init and efi_init: smaller screens while there is none.            *)
Smaller(req, w, h) == [req EXCEPT !.w = w, !.h = h]
FirstVideo(firmware, modes) ==
  LET off == [set |-> 0, vidmode |-> 0]
      req == [w |-> 800, h |-> 600, bpp |-> 32]
      try(screen, r) == IF screen.vidmode # 0 THEN screen ELSE SetVideo(firmware, modes, screen, r)
  IN FoldLeft(try, off, IF firmware = "gop" THEN <<req, Smaller(req, 640, 480)>>
                        ELSE <<req, req, Smaller(req, 640, 480)>>)

(* fw_fini: the size the configuration asks for, if there is a screen.     *)
FinalVideo(firmware, modes, screen, req) ==
  IF screen.vidmode = 0 THEN screen
  ELSE LET m == modes[screen.vidmode]
       IN IF m.w = req.w /\ m.h = req.h /\ Bpp(firmware, m) = req.bpp THEN screen
          ELSE SetVideo(firmware, modes, screen, req)

----------------------------------------------------------------------------
(* The system tables.                                                      *)

(* The paragraphs from 0x9A000 on: a kind, and for a table what the code   *)
(* looks at.  The scan ends when both have been seen.                      *)
bios_systables(paragraphs) ==
  LET step(a, s) ==
        IF a.sm /\ a.rp THEN a
        ELSE CASE s.kind = "_SM_" -> [a EXCEPT !.sm = TRUE, !.tags = IF s.sum = 0 THEN Append(@, <<"SMBIOS", s>>) ELSE @]
               [] s.kind = "RSD PTR " -> [a EXCEPT !.rp = TRUE, !.rsdp_ptr = s,
                                                   !.tags = Append(@, <<IF s.rev < 2 THEN "ACPI_OLD" ELSE "ACPI_NEW", s>>)]
               [] OTHER -> a
  IN FoldLeft(step, [sm |-> FALSE, rp |-> FALSE, rsdp_ptr |-> <<>>, tags |-> <<>>], paragraphs)

(* The old table is used only when no new one was ever found, on this or   *)
(* an earlier pass.                                                        *)
efi_systables(tables, rsdp_ptr) ==
  LET first(a, t) == CASE t.guid = "smbios" -> [a EXCEPT !.tags = Append(@, <<"SMBIOS", t>>)]
                       [] t.guid = "acpi2" -> [rsdp_ptr |-> t, tags |-> Append(a.tags, <<"ACPI_NEW", t>>)]
                       [] OTHER -> a
      second(a, t) == IF a.rsdp_ptr = <<>> /\ t.guid = "acpi1"
                      THEN [rsdp_ptr |-> t, tags |-> Append(a.tags, <<"ACPI_OLD", t>>)] ELSE a
  IN FoldLeft(second, FoldLeft(first, [rsdp_ptr |-> rsdp_ptr, tags |-> <<>>], tables), tables)

(* A table as bytes with the checksum last written: the sum is taken while *)
(* the field is still zero.                                                *)
Summed(bytes, field) == [bytes EXCEPT ![field] = (256 - (FoldLeft(LAMBDA a, b : a + b, 0, bytes) % 256)) % 256]

----------------------------------------------------------------------------
(* The boot partition.  Sectors of the entry array hold perSector entries  *)
(* of the size the header gives.                                           *)

SECTORS == 8
(* n is counted down with every entry and compared with 0 between sectors: *)
(* a number that does not fill its last sector passes 0 unseen.            *)
EntriesSeen(n, perSector) ==
  IF n % perSector = 0 THEN Min({SECTORS * perSector, n}) ELSE SECTORS * perSector

GptBoot(entries, n, perSector) ==
  LET step(a, e) ==
        CASE e.type = "esp" /\ a.esp = 0 -> [a EXCEPT !.esp = e.start, !.uuid = e.uuid]
          [] ~(e.type = "esp" /\ a.esp = 0) /\ e.type \in {"freebsd", "biosboot"} /\ a.vbr = 0 ->
               [a EXCEPT !.vbr = e.start, !.size = e.end - e.start + 1]
          [] ~(e.type = "esp" /\ a.esp = 0) /\ ~(e.type \in {"freebsd", "biosboot"} /\ a.vbr = 0)
               /\ e.legacy /\ e.start > 2 -> [a EXCEPT !.vbr = e.start, !.size = 1]
          [] OTHER -> a
  IN FoldLeft(step, [esp |-> 0, uuid |-> 0, vbr |-> 0, size |-> 0],
              SubSeq(entries, 1, Min({Len(entries), EntriesSeen(n, perSector)})))

MbrBoot(parts) ==
  LET found == {i \in 1 .. 4 : parts[i].active /\ parts[i].type \in {12, 239}}
  IN IF found = {} THEN 0 ELSE parts[Min(found)].start

(* Where the FAT and the cluster numbered 0 lie, if this is a FAT32.       *)
Volume(start, bpb) ==
  IF ~bpb.magic \/ bpb.bps # 512 \/ bpb.spc = 0 \/ bpb.spf16 # 0 \/ bpb.spf32 = 0 THEN [found |-> FALSE]
  ELSE [found |-> TRUE, fat |-> bpb.rsc + start,
        data |-> bpb.spf32 * bpb.nf + bpb.rsc - 2 * bpb.spc + start]

----------------------------------------------------------------------------
(* Sectors.  The status register's values one after the other: bit 7 busy, *)
(* bit 6 ready, bit 0 error.                                               *)

FirstOf(statuses, mask, values) ==
  LET hits == {i \in DOMAIN statuses : mask[statuses[i]] \in values}
  IN IF hits = {} THEN 0 ELSE Min(hits)
Masked(bits) == [s \in 0 .. 255 |-> FoldLeft(LAMBDA v, b : v + (IF (s \div b) % 2 = 1 THEN b ELSE 0), 0, bits)]

(* Which way a sector comes: by port when the drive is the first disk and  *)
(* there is a controller, by int 0x13 when it is not or the port reports   *)
(* an error without ready.  An error with ready is waited for for ever.    *)
bios_loadsec(bdev, present, statuses) ==
  IF bdev # 128 \/ present \in {0, 255} THEN "bios"
  ELSE LET ready == FirstOf(statuses, Masked(<<128, 64>>), {64})
           rest == SubSeq(statuses, ready + 1, Len(statuses))
           done == FirstOf(rest, Masked(<<128, 64, 1>>), {1, 64})
       IN CASE ready = 0 \/ done = 0 -> "waits"
            [] ready # 0 /\ done # 0 /\ Masked(<<128, 64, 1>>)[rest[done]] = 1 -> "bios"
            [] OTHER -> "port"
=============================================================================

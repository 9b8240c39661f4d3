----------------------------- MODULE LoaderMemory -----------------------------
(***************************************************************************)
(* How the x86 loader (contrib/simpleboot/src/loader_x86.c) hands out      *)
(* memory, builds page tables and puts a kernel's segments into place.     *)
(*                                                                         *)
(* Addresses count units; a page has PAGE of them.  The loader's memory is *)
(* a record m:                                                             *)
(*   uefi      started by UEFI firmware (the global ST) or by the BIOS     *)
(*   file_buf  where the BIOS loader puts the next thing                   *)
(*   table     the pages that hold page tables                             *)
(*   data      the units known to hold part of a file, or zero             *)
(*   free      the pages UEFI has left; ptrs is what must go back to it    *)
(*   hack_buf  the pages UEFI set aside to keep fixed addresses free       *)
(*   ram, memmap   top of memory, the firmware's memory map                *)
(*   ok        the last call succeeded                                     *)
(*   wild      a walk has followed an entry that some file's bytes are     *)
(***************************************************************************)
EXTENDS Integers, SequencesExt

CONSTANTS
  Radix,        \* entries of a page table (512)
  IdentityDirs, \* page directories of the identity map: 5, on UEFI 64
  FileStart,    \* 0x100000, a page number
  LoaderEnd,    \* what the BIOS loader keeps for itself, a page number
  Top           \* what the bits above the page tables are in the upper half: 0xffff

(* The page tables of the identity map are among what the loader keeps.    *)
ASSUME MemoryAssumption ==
  /\ Radix \in Nat \ {0}
  /\ {IdentityDirs, FileStart, LoaderEnd, Top} \subseteq Nat
  /\ IdentityDirs + 1 < LoaderEnd /\ LoaderEnd <= FileStart

PAGE == 2
Unit(page) == page * PAGE
PageOf(unit) == unit \div PAGE

(* Lengths are rounded up to pages. *)
Round(n) == Unit(PageOf(n + PAGE - 1))

Slots == 0..Radix - 1

NoEntry == [kind |-> "none", page |-> 0]
Table(p) == [kind |-> "table", page |-> p]
Huge(p) == [kind |-> "huge", page |-> p]
Leaf(p) == [kind |-> "page", page |-> p]

EmptyTable == [i \in Slots |-> NoEntry]
pt == 0                                  \* the page of the root table

(* The identity map: one root entry, its directories, large pages. *)
bios_pagetables ==
  [p \in pt..pt + 1 + IdentityDirs |->
     [i \in Slots |->
        CASE p = pt     -> IF i = 0 THEN Table(pt + 1) ELSE NoEntry
          [] p = pt + 1 -> IF i < IdentityDirs THEN Table(pt + 2 + i) ELSE NoEntry
          [] OTHER      -> Huge(((p - pt - 2) * Radix + i) * Radix)]]

(***************************************************************************)
(* Walking the four levels, as the CPU does                                *)
(***************************************************************************)
Weight == <<1, Radix, Radix * Radix, Radix * Radix * Radix>>
Index(vp, level) == (vp \div Weight[level]) % Radix
Canonical(v) == PageOf(v) \div (Radix * Weight[4]) \in {0, Top}

EntryAt(m, p, i) == IF p \in DOMAIN m.table THEN m.table[p][i]
                    ELSE [kind |-> "garbage", page |-> 0]

Nowhere == -1

(* The unit that the virtual unit v stands for, or Nowhere. *)
Walk(m, v) ==
  LET vp == PageOf(v)
      at[l \in 0..4] ==
        IF l = 4 THEN Table(pt)
        ELSE LET up == at[l + 1] IN
             IF up.kind = "table" THEN EntryAt(m, up.page, Index(vp, l + 1)) ELSE up
      last == at[0]
  IN CASE last.kind = "page" -> Unit(last.page) + (v % PAGE)
       [] last.kind = "huge" -> Unit(last.page + (vp % Radix)) + (v % PAGE)
       [] OTHER              -> Nowhere

(***************************************************************************)
(* Allocation                                                              *)
(***************************************************************************)
Units(p, n) == Unit(p)..Unit(p + n) - 1
Run(p, n) == p..p + n - 1

(* Something is written over units: tables among them are tables no more. *)
Store(m, f) ==
  LET hit == {PageOf(u) : u \in DOMAIN f} IN
  [m EXCEPT !.data = [u \in DOMAIN f \cup DOMAIN @ |-> IF u \in DOMAIN f THEN f[u] ELSE @[u]],
            !.table = [p \in DOMAIN @ \ hit |-> @[p]]]

(* Page p becomes an empty table. *)
NewTable(m, p) ==
  [m EXCEPT !.table = [q \in DOMAIN @ \cup {p} |-> IF q = p THEN EmptyTable ELSE @[q]],
            !.data = [u \in DOMAIN @ \ Units(p, 1) |-> @[u]]]

(* Mutant: file_buf does not move. *)
bios_alloc_Stays(m) == [NewTable(m, PageOf(m.file_buf)) EXCEPT !.ok = TRUE]

bios_alloc(m) ==
  [NewTable([m EXCEPT !.file_buf = @ + PAGE], PageOf(m.file_buf)) EXCEPT !.ok = TRUE]

(* UEFI's AllocateAnyPages: the highest free pages, as common firmware does. *)
AnyPages(m, n) ==
  LET fit == {p \in m.free : Run(p, n) \subseteq m.free} IN
  IF fit = {} THEN Nowhere ELSE CHOOSE p \in fit : \A q \in fit : q <= p

efi_alloc(m) ==
  LET p == AnyPages(m, 1) IN
  IF p = Nowhere THEN [m EXCEPT !.ok = FALSE]
  ELSE [NewTable([m EXCEPT !.free = @ \ {p}], p) EXCEPT !.ok = TRUE]

(* efi_allocpages at page p; ok is FALSE when the firmware refuses. *)
efi_allocpages(m, p, n) ==
  IF n > 0 /\ Run(p, n) \subseteq m.free
  THEN [m EXCEPT !.free = @ \ Run(p, n), !.ptrs = Append(@, <<p, n>>), !.ok = TRUE]
  ELSE [m EXCEPT !.ok = FALSE]

efi_freepages(m) ==
  IF m.uefi
  THEN [m EXCEPT !.free = @ \cup m.hack_buf
                            \cup UNION {Run(x[1], x[2]) : x \in {m.ptrs[i] : i \in DOMAIN m.ptrs}},
                 !.hack_buf = {}, !.ptrs = <<>>]
  ELSE m

(***************************************************************************)
(* fw_map                                                                  *)
(***************************************************************************)
TableAlloc(m) == IF m.uefi THEN efi_alloc(m) ELSE bios_alloc(m)

NewPageOf(m) == IF m.uefi THEN AnyPages(m, 1) ELSE PageOf(m.file_buf)

(* One level down: the table below, or a new one when there is none, or a  *)
(* large page, which the new table replaces.                               *)
Down(r, vp, level) ==
  LET e == EntryAt(r.m, r.at, Index(vp, level))
      new == NewPageOf(r.m)
      m1 == TableAlloc(r.m)
  IN IF ~r.m.ok \/ r.m.wild THEN r
     ELSE IF e.kind = "table" THEN [r EXCEPT !.at = e.page]
     ELSE IF e.kind = "garbage" THEN [r EXCEPT !.m.wild = TRUE]
     ELSE IF ~m1.ok THEN [r EXCEPT !.m = m1]
     ELSE [r EXCEPT !.at = new,
                    !.m = [m1 EXCEPT !.table[r.at][Index(vp, level)] = Table(new)]]

(* The leaf of one page is put on the list of those to fill in, unless it  *)
(* is mapped already.                                                      *)
Reach(r, vp) ==
  LET leaf(r2) ==
        LET e == EntryAt(r2.m, r2.at, Index(vp, 1))
        IN IF ~r2.m.ok \/ r2.m.wild THEN r2
           ELSE IF e.kind = "garbage" THEN [r2 EXCEPT !.m.wild = TRUE]
           ELSE IF e.kind = "none" THEN [r2 EXCEPT !.next = Append(@, <<r2.at, Index(vp, 1)>>)]
           ELSE r2
  IN leaf(Down(Down(Down([r EXCEPT !.at = pt], vp, 4), vp, 3), vp, 2))

Refused(m) == [m EXCEPT !.ok = FALSE]

(* Mutant: the address of before the tables were taken. *)
MapBase_Phys(before, after, phys) == phys

(* Where the memory to map begins: tables taken from file_buf have moved it. *)
MapBase(before, after, phys) == IF phys = before.file_buf THEN after.file_buf ELSE phys

(* pt is there: without it _start has given up. *)
fw_map(m, phys, virt, size) ==
  LET first == PageOf(virt)
      last == PageOf(virt + size - 1)
      reach[p \in first - 1..last] ==
        IF p = first - 1 THEN [m |-> [m EXCEPT !.ok = TRUE], at |-> pt, next |-> <<>>]
        ELSE LET before == reach[p - 1] IN Reach(before, p)
      mapped(r) ==
        LET top == PageOf(MapBase(m, r.m, Unit(PageOf(phys))) + size - 1)
            FrameFor(slot) == top - (Len(r.next) - (CHOOSE i \in DOMAIN r.next : r.next[i] = slot))
        IN IF ~r.m.ok \/ r.m.wild THEN r.m
           ELSE [r.m EXCEPT !.table =
                   [p \in DOMAIN @ |-> [j \in Slots |->
                      IF <<p, j>> \in ToSet(r.next) THEN Leaf(FrameFor(<<p, j>>)) ELSE @[p][j]]]]
  IN IF Canonical(virt) THEN mapped(reach[last]) ELSE Refused(m)

(***************************************************************************)
(* fw_loadseg: file offset, bytes in the file, address, bytes in memory    *)
(***************************************************************************)
(* fw_read of n units at off into memory at buf; nothing behind the end of *)
(* the file, and nothing at all once a key was noticed.                    *)
FileUnits(file, off, n, buf) ==
  [u \in buf..buf + (IF off + n > file.size THEN file.size - off ELSE n) - 1 |->
     <<file.name, off + u - buf>>]

fw_read(m, file, off, n, buf, cut) ==
  IF cut \/ off >= file.size THEN m ELSE Store(m, FileUnits(file, off, n, buf))

Zero == <<"zero", 0>>
memset(m, buf, n) == IF n <= 0 THEN m ELSE Store(m, [u \in buf..buf + n - 1 |-> Zero])

SegmentSize(s) == Round(s.memsz + (s.vaddr % PAGE))

(* The first entry of the memory map that holds the address decides. *)
MemoryInUse(m, s) ==
  LET holds == {i \in DOMAIN m.memmap :
                  /\ m.memmap[i].base <= s.vaddr
                  /\ m.memmap[i].base + m.memmap[i].length > s.vaddr}
  IN \E i \in holds :
       /\ \A j \in holds : i <= j
       /\ \/ ~m.memmap[i].available
          \/ m.memmap[i].base + m.memmap[i].length < Unit(PageOf(s.vaddr)) + SegmentSize(s)

(* Where the segment goes: memory prepared for it, and its place there. *)
Place(m, s) ==
  LET size == SegmentSize(s)
      high == s.vaddr > m.ram
      any == AnyPages(m, PageOf(size))
      top == s.vaddr + size
  IN CASE m.uefi /\ high ->
            IF any = Nowhere THEN [m |-> Refused(m), buf |-> 0]
            ELSE [m |-> fw_map(efi_allocpages(m, any, PageOf(size)), Unit(any), s.vaddr, size),
                  buf |-> Unit(any)]
       [] m.uefi /\ ~high ->
            [m |-> efi_allocpages(m, PageOf(s.vaddr), PageOf(size)), buf |-> s.vaddr]
       [] ~m.uefi /\ s.vaddr < Unit(LoaderEnd) -> [m |-> Refused(m), buf |-> 0]
       [] ~m.uefi /\ s.vaddr >= Unit(LoaderEnd) /\ high ->
            LET behind(m1) == IF ~m1.ok THEN [m |-> m1, buf |-> 0]
                              ELSE [m |-> [m1 EXCEPT !.file_buf = @ + size], buf |-> m1.file_buf]
            IN behind(fw_map(m, m.file_buf, s.vaddr, size))
       [] OTHER ->
            [m |-> [m EXCEPT !.file_buf = IF @ < Round(top) THEN Round(top) ELSE @,
                             !.ok = ~MemoryInUse(m, s)],
             buf |-> s.vaddr]

fw_loadseg(m, file, s, cut) ==
  LET filled(p) ==
        IF ~p.m.ok \/ p.m.wild THEN p.m
        ELSE memset(IF s.filesz = 0 THEN p.m ELSE fw_read(p.m, file, s.offs, s.filesz, p.buf, cut),
                    p.buf + s.filesz, s.memsz - s.filesz)
  IN IF s.memsz = 0 \/ file.size = 0 THEN [m EXCEPT !.ok = TRUE] ELSE filled(Place(m, s))
===============================================================================

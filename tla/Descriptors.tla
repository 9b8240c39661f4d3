---------------------------- MODULE Descriptors ----------------------------
(***************************************************************************)
(* The tables the processor reads: the kernel's GDT and IDT (gdt.cc,       *)
(* idt.cc), the entry stubs behind the IDT (idt_asm.asm), the tables the   *)
(* loader leaves (loader_x86.c), and the memory and string functions the   *)
(* kernel fills its own with (string.cc).  An address is its 8 bytes,      *)
(* least significant first; a table is a sequence of bytes.                *)
(***************************************************************************)
EXTENDS Integers, Sequences, SequencesExt, FiniteSets

Two(v) == <<v % 256, (v \div 256) % 256>>
Zeroes(n) == [i \in 1 .. n |-> 0]

(* bytes with new written over it from place at on.                        *)
Over(bytes, at, new) ==
  [i \in DOMAIN bytes |-> IF i \in at .. at + Len(new) - 1 THEN new[i - at + 1] ELSE bytes[i]]

----------------------------------------------------------------------------
(* The kernel's GDT.  gdt has six entries; what follows it in memory is    *)
(* the rest of the sequence.                                               *)

ENTRIES == 6
KERNEL_CS == 8
KERNEL_DS == 16
TSS_SEL == 40

(* Mutant: the limit's upper bits are or-ed with the whole granularity byte. *)
gdt_entry_Mixed(base, limit, access, gran) ==
  Two(limit) \o <<base[1], base[2], base[3], access, ((limit \div 65536) % 16) + (gran % 16), base[4]>>

gdt_entry(base, limit, access, gran) ==
  Two(limit) \o <<base[1], base[2], base[3], access, ((limit \div 65536) % 16) + 16 * (gran \div 16), base[4]>>

set_gdt_entry(mem, idx, base, limit, access, gran) ==
  Over(mem, 8 * idx + 1, gdt_entry(base, limit, access, gran))

(* A TSS descriptor is as long as two entries.                             *)
tss_entry(base, limit) ==
  Two(limit) \o <<base[1], base[2], base[3], 9 + 128, (limit \div 65536) % 16, base[4]>>
    \o SubSeq(base, 5, 8) \o Zeroes(4)
set_tss_entry(mem, idx, base, limit) == Over(mem, 8 * idx + 1, tss_entry(base, limit))

NoBase == Zeroes(8)
(* The far return goes past the ltr: the task register keeps what it had.  *)
init_gdt(mem, tss, size) ==
  LET flat(m, idx, access) == set_gdt_entry(m, idx, NoBase, 1048575, access, 160)
      segments == flat(flat(flat(flat(set_gdt_entry(mem, 0, NoBase, 0, 0, 0), 1, 154), 2, 146), 3, 250), 4, 242)
  IN [mem |-> set_tss_entry(segments, 5, tss, size), limit |-> 8 * ENTRIES + 16 - 1,
      cs |-> KERNEL_CS, ds |-> KERNEL_DS, ltr |-> FALSE]

(* What the processor takes from a descriptor at a selector.               *)
Decoded(mem, sel) ==
  LET b == SubSeq(mem, sel + 1, sel + 8)
  IN [limit |-> b[1] + 256 * b[2] + 65536 * (b[7] % 16), base |-> <<b[3], b[4], b[5], b[8]>>,
      access |-> b[6], flags |-> b[7] \div 16]

----------------------------------------------------------------------------
(* The kernel's IDT.                                                       *)

idt_entry(handler, ist, type) ==
  <<handler[1], handler[2], 8, 0, ist, type, handler[3], handler[4]>> \o SubSeq(handler, 5, 8) \o Zeroes(4)
register_interrupt_handler(table, vec, handler, ist, type) == Over(table, 16 * vec + 1, idt_entry(handler, ist, type))
init_idt(handlers) ==
  FoldLeft(LAMBDA table, i : register_interrupt_handler(table, i - 1, handlers[i], 0, 142),
           Zeroes(16 * Len(handlers)), [i \in DOMAIN handlers |-> i])
(* Where a gate leads.                                                     *)
Gate(table, vec) ==
  LET b == SubSeq(table, 16 * vec + 1, 16 * vec + 16)
  IN [handler |-> <<b[1], b[2], b[7], b[8]>> \o SubSeq(b, 9, 12), selector |-> b[3] + 256 * b[4], ist |-> b[5], type |-> b[6]]

(* The stubs: what lies on the stack when service_interrupt begins, given  *)
(* what the processor pushed.                                              *)
ERR_CODE == {8, 17, 30} \cup 10 .. 14
isr(vec, pushed) == <<vec>> \o (IF vec \in ERR_CODE THEN <<>> ELSE <<0>>) \o pushed
(* The stubs of the loader take the code off the stack instead.            *)
LoaderStub(vec, pushed) == IF vec \in ERR_CODE THEN [code |-> Head(pushed), frame |-> Tail(pushed)]
                           ELSE [code |-> 0, frame |-> pushed]

----------------------------------------------------------------------------
(* The loader's GDT, TSS and IDT.  at is the address of the first stub.    *)

LoaderSegments == <<Zeroes(8), <<255, 255, 0, 0, 0, 152, 0, 0>>, <<255, 255, 0, 0, 0, 154, 207, 0>>, <<255, 255, 0, 0, 0, 146, 207, 0>>,
                    <<255, 255, 0, 0, 0, 154, 175, 0>>, <<255, 255, 0, 0, 0, 146, 207, 0>>,
                    <<104, 0, 0, 0, 0, 137, 0, 0>>, Zeroes(8)>>
(* The TSS descriptor is patched with the address behind it: low memory    *)
(* right after the GDT, not the words laid out for it in the code.         *)
LoaderGdt == Over(FlattenSeq(LoaderSegments), 51, <<152, 5, 0>>)
LoaderTss == <<152, 5, 0, 0>>
(* The first interrupt stack's place in a TSS, and what low memory has.    *)
FaultStack(low) == SubSeq(low, 36 + 1, 36 + 8)

LoaderIdt(stubs) == FlattenSeq([i \in 1 .. 32 |->
  <<stubs[i][1], stubs[i][2], 32, 0, 1, 143, stubs[i][3], stubs[i][4]>> \o SubSeq(stubs[i], 5, 8) \o Zeroes(4)])

----------------------------------------------------------------------------
(* string.cc, on memory that begins at an address with the remainder skew  *)
(* by long (bytes of a long).                                              *)

(* Bytes up to the first aligned one, words while more than one is left.   *)
memset(mem, at, val, len, skew, long) ==
  LET lead == IF len >= 16 THEN (-(at + skew)) % long ELSE 0
      words == IF len >= 16 THEN (len - lead - 1) \div long ELSE 0
      put(m, i) == [m EXCEPT ![at + i] = val]
      word(m, k) == FoldLeft(put, m, [i \in 1 .. long |-> lead + long * (k - 1) + i - 1])
      head == FoldLeft(put, mem, [i \in 1 .. lead |-> i - 1])
      body == FoldLeft(word, head, [k \in 1 .. words |-> k])
  IN FoldLeft(put, body, [i \in 1 .. len - lead - long * words |-> lead + long * words + i - 1])

(* Upwards, byte by byte: an overlapping source may have been overwritten. *)
memcpy(mem, dest, src, n) == FoldLeft(LAMBDA m, i : [m EXCEPT ![dest + i - 1] = m[src + i - 1]], mem, [i \in 1 .. n |-> i])

strlen(str) == CHOOSE n \in 0 .. Len(str) : str[n + 1] = 0 /\ \A i \in 1 .. n : str[i] # 0
strcmp(s1, s2) ==
  LET len1 == strlen(s1)
      len2 == strlen(s2)
      differ == {i \in 1 .. len1 : s1[i] # s2[i]}
      first == CHOOSE i \in differ : \A j \in differ : i <= j
  IN IF len1 # len2 THEN len2 - len1 ELSE IF differ = {} THEN 0 ELSE s2[first] - s1[first]
=============================================================================

-------------------------------- MODULE MCLoader --------------------------------
(* Machines for Loader: 18 pages of RAM, 27 identity-mapped by three page  *)
(* directories; the tables reach 81 pages in each half, with as many       *)
(* between the halves that no table reaches.  The framebuffer is page 30.  *)
EXTENDS Loader

Seg(o, f, v, mm) == [offs |-> o, filesz |-> f, vaddr |-> v, memsz |-> mm]
F(name, size, fmt, segs) ==
  [name |-> name, size |-> size, format |-> fmt, segments |-> segs,
   entry |-> IF segs = <<>> THEN 0 ELSE segs[1].vaddr, inflated |-> 0, lines |-> <<>>]
Gz(name, size, unc) == [F(name, size, "data", <<>>) EXCEPT !.inflated = unc]
Cfg(name, lines) == [F(name, 1, "data", <<>>) EXCEPT !.lines = lines]
L(b, c, a, t) == [backup |-> b, cmd |-> c, arg |-> a, text |-> t]
Ln(c, a) == L(FALSE, c, a, None)
Bk(c, a) == L(TRUE, c, a, None)
Files(s) == [x \in {f.name : f \in s} |-> CHOOSE f \in s : f.name = x]

Map == <<[base |-> 0, length |-> Unit(3), available |-> TRUE],
         [base |-> Unit(3), length |-> Unit(3), available |-> FALSE],
         [base |-> Unit(6), length |-> Unit(12), available |-> TRUE]>>
Bios(files) ==
  [uefi |-> FALSE, started |-> TRUE, files |-> Files(files), memmap |-> Map, ram |-> Unit(18), free |-> {}, hack_buf |-> {},
   definitrd |-> None, definitrd63 |-> 0, defkernel |-> "def", vbr |-> FALSE, framebuffer |-> 30,
   keyAt |-> {"config", "setup", "kernel", "segments", "modules", "decide", "err"}]
Uefi(files) ==
  [Bios(files) EXCEPT !.uefi = TRUE, !.memmap = <<>>, !.free = 12..17, !.hack_buf = 6..11]
Early == {"config", "setup", "kernel"}

\* a higher-half kernel with a bss, and a low one
At60 == Top * Radix^4 + 60
High(name) == F(name, 5, "elf64", <<Seg(1, 2, Unit(At60), 2), Seg(3, 1, Unit(At60 + 1), 3)>>)
Low(name, fmt) == F(name, 3, fmt, <<Seg(1, 2, Unit(6) + 1, 3)>>)
M1 == F("m1", 3, "data", <<>>)
M2 == Gz("m2", 2, 3)
Tbl == F("dsdt", 1, "dsdt", <<>>)
Rd == F("ibmpc/initrd", 2, "data", <<>>)
RdBak == F("ibmpc/initrd.bak", 1, "data", <<>>)

Conf(k, b) == Cfg("simpleboot.cfg",
  <<Ln("multicore", None), L(FALSE, "kernel", k, "args"), Ln("module", "m1"), Ln("module", "lost"), Ln("module", "m2"),
    L(TRUE, "kernel", b, "other"), Bk("module", "m2"), Bk("module", "dsdt")>>)

UefiLinux == {Low("k", "linux"), Rd, Cfg("simpleboot.cfg", <<Ln("kernel", "k")>>)}

GoodMachines ==
  { \* a key before anything is mapped
    [Bios({High("k"), Low("b", "elf32"), M1, M2, Tbl, Conf("k", "b")}) EXCEPT !.keyAt = Early \cup {"err"}],
    \* a key at any time, two low kernels
    Bios({Low("k", "elf64"), Low("b", "pe64"), M1, M2, Tbl, Conf("k", "b")}),
    \* defaults, no configuration, the kernel from its default place
    [Bios({Low("ibmpc/core", "pe64"), Rd, RdBak}) EXCEPT !.definitrd63 = 1, !.keyAt = Early],
    \* 64-bit kernel forced into 32-bit mode
    [Bios({Low("def", "elf64"), M1, M2, Cfg("simpleboot.cfg", <<Ln("multicore", None), Ln("module", "m2"), Ln("module", "m1")>>)})
       EXCEPT !.definitrd63 = 2],
    \* Linux and its ramdisk
    [Bios({Low("k", "linux"), Rd, Cfg("simpleboot.cfg", <<L(FALSE, "kernel", "k", "args")>>)}) EXCEPT !.keyAt = {}],
    \* a first kernel that cannot be loaded: unknown, not found, no memory; then the backup
    Bios({F("k", 2, "unknown", <<>>), High("b"), M2, Tbl, Conf("k", "b")}),
    Bios({High("b"), M2, Conf("k", "b")}),
    \* at an address in neither half, a Linux too old; no boot partition
    Bios({F("k", 3, "elf64", <<Seg(1, 2, Unit(Radix^4 + 60), 2)>>), Low("b", "elf64"), M2, Conf("k", "b")}),
    [Bios({Low("k", "old linux"), Low("b", "elf64"), M2, Conf("k", "b")}) EXCEPT !.keyAt = {"err"}],
    [Bios({}) EXCEPT !.started = FALSE], [Uefi({}) EXCEPT !.started = FALSE],
    [Bios({F("k", 2, "elf64", <<Seg(0, 1, Unit(5), 2), Seg(1, 1, Unit(9), 2)>>), Low("b", "pe32"), M2, Conf("k", "b")})
       EXCEPT !.framebuffer = 0],
    \* a kernel without entry, an old boot sector
    Bios({[Low("k", "elf64") EXCEPT !.entry = 0], Conf("k", "b")}),
    [Bios({Conf("k", "b")}) EXCEPT !.vbr = TRUE],
    \* UEFI
    [Uefi({High("k"), M1, M2, Conf("k", "b")}) EXCEPT !.keyAt = {}],
    [Uefi({Low("k", "elf64"), Low("b", "elf64"), M1, M2, Tbl, Conf("k", "b")}) EXCEPT !.keyAt = {}],
    Uefi({Conf("k", "b")}),
    \* Linux on UEFI, no room for its parameters, no room for the tags
    [Uefi(UefiLinux) EXCEPT !.keyAt = {}],
    [Uefi(UefiLinux) EXCEPT !.free = {17}, !.hack_buf = {}],
    [Uefi(UefiLinux) EXCEPT !.free = {}] }

\* the key comes when the first kernel is loaded and mapped
LateMachines == { Bios({High("k"), High("b"), M1, M2, Tbl, Conf("k", "b")}) }
\* segments that begin inside a page, or are not in the order of their addresses
UnalignedMachines == { Bios({F("def", 3, "elf64", <<Seg(1, 2, Unit(60) + 1, 2)>>)}) }
DownwardMachines ==
  { Bios({F("def", 4, "elf64", <<Seg(1, 2, Unit(60), 2), Seg(3, 1, Unit(7), 2)>>)}) }
\* a backup kernel without arguments, a backup Linux
ArglessMachines ==
  { Bios({Low("k", "elf64"), Low("b", "elf64"),
          Cfg("simpleboot.cfg", <<L(FALSE, "kernel", "k", "args"), Bk("kernel", "b")>>)}) }
BackupLinuxMachines ==
  { Bios({Low("k", "linux"), Low("b", "linux"), Rd, RdBak,
          Cfg("simpleboot.cfg", <<Ln("kernel", "k"), Bk("kernel", "b")>>)}) }
\* another loader's menu with two entries
MenuMachines ==
  { Bios({Low("k", "elf64"), Low("b", "elf64"), M1, M2,
          Cfg("easyboot/menu.cfg", <<Ln("menuentry", "one"), Ln("kernel", "k"), Ln("module", "m1"),
                                     Ln("menuentry", "two"), Ln("kernel", "b"), Ln("module", "m2")>>)}) }
\* the backup pass on UEFI
UefiMachines == { Uefi({Low("k", "elf64"), Low("b", "elf64"), M1, M2, Tbl, Conf("k", "b")}) }
\* more program headers than the first 4096 bytes hold
LongMachines ==
  { Bios({F("def", 5, "elf64", [j \in 1..4 |-> Seg(j, 1, Unit(60 + j), 1)])}) }
\* modules up to the end of memory
BigMachines == { [Bios({Low("def", "elf64"), F("m1", 24, "data", <<>>), Cfg("simpleboot.cfg", <<Ln("module", "m1")>>)})
                    EXCEPT !.keyAt = {}] }
===============================================================================

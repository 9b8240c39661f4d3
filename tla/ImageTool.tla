----------------------------- MODULE ImageTool -----------------------------
(***************************************************************************)
(* simpleboot.c around the FAT (which FatImage models): the command line,  *)
(* the sizes, the partition tables with their checksums, the boot catalogs *)
(* and the ROM images.  Sizes are counted in sectors, a megabyte is 2048.  *)
(* A GUID is a byte, a word of the command line a record: opt is its       *)
(* letter, or "" for a plain word, val what the word means.                *)
(***************************************************************************)
EXTENDS Integers, Sequences, SequencesExt, FiniteSets, FiniteSetsExt

MB == 2048
FIRST_PARTITION == 2048
GPT_SECTORS == 62
ENTRIES == 4 * GPT_SECTORS

UpTo(n, unit) == ((n + unit - 1) \div unit) * unit
Total(s) == FoldLeft(LAMBDA a, b : a + b, 0, s)

----------------------------------------------------------------------------
(* The command line.                                                       *)

NoOptions == [disk |-> 35, part |-> 33, docalc |-> TRUE, kernel |-> "kernel", uuid |-> 0, verbose |-> 0, rom |-> FALSE,
              eltorito |-> FALSE, create |-> FALSE, extra |-> <<>>, words |-> <<>>]

(* -p takes the file's name from the word it just took the GUID from, and  *)
(* leaves the third word to be read as a directory.                        *)
RECURSIVE Options(_, _, _)
Options(argv, i, o) ==
  IF i > Len(argv) THEN o
  ELSE LET opt == argv[i].opt
           val == argv[i + 1].val
       IN CASE opt = "" -> Options(argv, i + 1, [o EXCEPT !.words = Append(@, argv[i].val)])
            [] opt = "s" -> Options(argv, i + 2, [o EXCEPT !.disk = val, !.part = IF o.docalc THEN val - 2 ELSE @, !.docalc = FALSE])
            [] opt = "b" -> Options(argv, i + 2, [o EXCEPT !.part = val, !.docalc = FALSE])
            [] opt = "k" -> Options(argv, i + 2, [o EXCEPT !.kernel = val])
            [] opt = "i" -> Options(argv, i + 2, o)
            [] opt = "u" -> Options(argv, i + 2, [o EXCEPT !.uuid = val])
            [] opt = "p" -> Options(argv, i + 3, [o EXCEPT !.extra = Append(@, [type |-> val, uuid |-> argv[i + 2].val,
                                                                               file |-> argv[i + 2].val])])
            [] opt = "v" -> Options(argv, i + 1, [o EXCEPT !.verbose = @ + 1])
            [] opt = "r" -> Options(argv, i + 1, [o EXCEPT !.rom = TRUE])
            [] opt = "e" -> Options(argv, i + 1, [o EXCEPT !.eltorito = TRUE])
            [] opt = "c" -> Options(argv, i + 1, [o EXCEPT !.create = TRUE])
            [] opt \in {"m", "g"} -> Options(argv, i + 1, o)
Understood(o) == Len(o.words) = 2

(* A digit is its value, a dash -1, anything else -2.                      *)
gethex(text, at, len) ==
  LET n == CHOOSE k \in 0 .. len : /\ \A j \in 0 .. k - 1 : text[at + j] >= 0
                                   /\ k = len \/ text[at + k] < 0
  IN FoldLeft(LAMBDA v, d : 16 * v + d, 0, SubSeq(text, at, at + n - 1))
getguid(text) ==
  LET rest == IF text[24] = -1 THEN 25 ELSE 24
  IN IF \E i \in {9, 14, 19} : text[i] # -1 THEN <<>>
     ELSE [i \in 1 .. 4 |-> gethex(text, 2 * i - 1, 2)] \o <<gethex(text, 10, 2), gethex(text, 12, 2), gethex(text, 15, 2),
            gethex(text, 17, 2), gethex(text, 20, 2), gethex(text, 22, 2)>> \o [i \in 1 .. 6 |-> gethex(text, rest + 2 * i - 2, 2)]

----------------------------------------------------------------------------
(* The input directory.                                                    *)

(* A file's contents, or its size alone; an empty file is no file.         *)
readfileall(files, name) == IF name \in DOMAIN files THEN files[name] ELSE 0

(* A line of the configuration has its command, bkp for a backup one, good *)
(* for arguments in range and arg, a file's name.  Without -vv only a      *)
(* second kernel is an error.                                              *)
BadLine(l, files, o) ==
  CASE l.cmd \in {"verbose", "framebuffer", "bootsplash"} -> o.verbose > 1 /\ ~l.good
    [] l.cmd = "kernel" /\ l.bkp -> o.verbose > 1 /\ readfileall(files, l.arg) = 0
    [] l.cmd = "kernel" /\ ~l.bkp -> FALSE
    [] l.cmd = "module" -> o.verbose > 1 /\ readfileall(files, l.arg) = 0
    [] l.cmd = "multicore" -> FALSE
    [] OTHER -> o.verbose > 1
check_config(lines, files, o) ==
  LET step(c, l) == [c EXCEPT !.bad = @ \/ BadLine(l, files, o) \/ (l.cmd = "kernel" /\ ~l.bkp /\ c.named),
                              !.named = @ \/ (l.cmd = "kernel" /\ ~l.bkp),
                              !.kernel = IF l.cmd = "kernel" /\ ~l.bkp THEN l.arg ELSE @,
                              !.mods = IF l.cmd = "module" /\ ~l.bkp THEN @ + 1 ELSE @]
  IN FoldLeft(step, [bad |-> FALSE, named |-> FALSE, kernel |-> o.kernel, mods |-> 0], lines)

(* A kernel is known by what it begins with; elves has the places, in      *)
(* steps of 16 bytes, where an ELF header begins.                          *)
detect_kernel(k) ==
  CASE k.head \in {"linux", "pe", "elf"} -> [format |-> k.head, at |-> 0]
    [] k.head = "other" /\ {a \in k.elves : a % 16 = 0 /\ a + 52 < k.size} # {} ->
         [format |-> "elf", at |-> Min({a \in k.elves : a % 16 = 0 /\ a + 52 < k.size})]
    [] OTHER -> [format |-> "none", at |-> 0]

(* parsedir's sizes: the names of a directory, in UTF-16 units, and the    *)
(* sizes of its files in bytes.                                            *)
DirSectors(d) == (64 + Total([i \in DOMAIN d.names |-> ((d.names[i] + 12) \div 13 + 1) * 32]) + 511) \div 512
parsedir(dirs) == Total([i \in DOMAIN dirs |-> DirSectors(dirs[i]) + Total([j \in DOMAIN dirs[i].files |-> UpTo(dirs[i].files[j], 512) \div 512])])
totsize(dirs) == LET n == parsedir(dirs) IN UpTo(n + 8 + ((n * 4) \div 512) * 2, MB)

(* dev_open refuses a file with whose path a line of the mount table       *)
(* begins; main then makes a new one.                                      *)
dev_open(exists, path, mounts) == exists /\ ~\E i \in DOMAIN mounts : IsPrefix(path, mounts[i])

NoSizes == [disk |-> 0, part |-> 0]
Sizes(o, tot, extras) ==
  LET asked == IF o.part = 2048 THEN 2047 ELSE o.part
      part == IF o.docalc /\ tot > asked * MB THEN tot ELSE asked * MB
      siz == part + FIRST_PARTITION + GPT_SECTORS + 1 + Total([i \in DOMAIN extras |-> UpTo(extras[i], MB)])
  IN IF asked < 33 \/ asked > 2047 THEN NoSizes ELSE [disk |-> Max({o.disk * MB, siz}), part |-> part]

----------------------------------------------------------------------------
(* Checksums.  A 32 bit word is the set of its bits that are 1.            *)

Lsb(v) == [i \in 1 .. 4 |-> (v \div 256^(i - 1)) % 256]
WordBytes(set) == [i \in 1 .. 4 |-> Total([b \in 1 .. 8 |-> IF 8 * (i - 1) + b - 1 \in set THEN 2^(b - 1) ELSE 0])]
POLYNOMIAL == {31, 30, 29, 27, 26, 24, 23, 21, 20, 19, 15, 9, 8, 5}
Xor(s, t) == (s \ t) \cup (t \ s)
Low(b) == {i \in 0 .. 7 : (b \div 2^i) % 2 = 1}
crc32_lookup ==
  [low \in SUBSET (0 .. 7) |->
     FoldLeft(LAMBDA v, i : LET half == {k - 1 : k \in v \ {0}} IN IF 0 \in v THEN Xor(half, POLYNOMIAL) ELSE half,
              low, [i \in 1 .. 8 |-> i])]
crc32_calc(bytes) ==
  0 .. 31 \ FoldLeft(LAMBDA crc, b : Xor({k - 8 : k \in crc \ 0 .. 7}, crc32_lookup[Xor(crc \cap 0 .. 7, Low(b))]),
                     0 .. 31, bytes)

(* The byte that makes the sum of all of them 0.                           *)
SumByte(bytes) == (256 - (Total(bytes) % 256)) % 256

----------------------------------------------------------------------------
(* The partition tables.                                                   *)

chs(lba) == LET c == lba \div 1008
                r == lba % 1008
            IN <<r \div 63, ((c \div 256) % 4) * 64 + (r % 63) + 1, c % 256>>
MbrPart(active, type, start, count, last) ==
  [active |-> active, type |-> type, start |-> start, count |-> count, first |-> chs(start), last |-> chs(last)]
NoPart == [active |-> FALSE, type |-> 0, start |-> 0, count |-> 0, first |-> <<0, 0, 0>>, last |-> <<0, 0, 0>>]

NoEntry == [type |-> 0, uuid |-> 0, start |-> 0, end |-> 0]
ESP == 1
EntryBytes(e) == <<e.type, e.uuid>> \o Lsb(e.start) \o Lsb(e.end)
ArrayBytes(entries, n) == FlattenSeq([i \in 1 .. n |-> EntryBytes(IF i <= Len(entries) THEN entries[i] ELSE NoEntry)])
HeaderBytes(h) == Lsb(h.my) \o Lsb(h.alternate) \o Lsb(h.first) \o Lsb(h.last) \o <<h.disk>> \o Lsb(h.entries) \o Lsb(h.n)
                    \o WordBytes(h.array) \o WordBytes(h.crc)
Signed(h) == [h EXCEPT !.crc = crc32_calc(HeaderBytes(h))]

(* The places of further partitions are taken in bytes and written down in *)
(* units of four sectors, the size from another partition (none).          *)
ExtraEntries(sz, extra) ==
  [j \in DOMAIN extra |-> LET lba == UpTo(FIRST_PARTITION + sz.part, MB) \div 4
                          IN [type |-> extra[j].type, uuid |-> extra[j].uuid, start |-> lba, end |-> lba - 1]]

(* Mutant: the checksum of the second header is taken over the first one's. *)
gpt_create_Stale(sz, uuid, disk, extra, room) ==
  LET entries == <<[type |-> ESP, uuid |-> uuid, start |-> FIRST_PARTITION, end |-> FIRST_PARTITION + sz.part - 1]>>
                   \o ExtraEntries(sz, extra)
      hdr == Signed([my |-> 1, alternate |-> sz.disk - 1, first |-> FIRST_PARTITION, last |-> sz.disk - GPT_SECTORS - 1,
                     disk |-> disk, entries |-> 2, n |-> ENTRIES, crc |-> {},
                     array |-> crc32_calc(ArrayBytes(SubSeq(entries, Len(entries), Len(entries)), room))])
  IN [mbr |-> <<MbrPart(TRUE, 12, FIRST_PARTITION, sz.part, FIRST_PARTITION + sz.part - 1),
                MbrPart(FALSE, 238, 1, GPT_SECTORS - 1, GPT_SECTORS - 1), NoPart, NoPart>>,
      hdr |-> hdr, entries |-> entries,
      second |-> Signed([hdr EXCEPT !.my = sz.disk - 1, !.alternate = 1, !.entries = sz.disk - GPT_SECTORS - 1])]

(* The array's checksum is taken from the last entry that was filled in.   *)
(* room is the number of entries the checksum goes over.                   *)
gpt_create(sz, uuid, disk, extra, room) ==
  LET entries == <<[type |-> ESP, uuid |-> uuid, start |-> FIRST_PARTITION, end |-> FIRST_PARTITION + sz.part - 1]>>
                   \o ExtraEntries(sz, extra)
      hdr == Signed([my |-> 1, alternate |-> sz.disk - 1, first |-> FIRST_PARTITION, last |-> sz.disk - GPT_SECTORS - 1,
                     disk |-> disk, entries |-> 2, n |-> ENTRIES, crc |-> {},
                     array |-> crc32_calc(ArrayBytes(SubSeq(entries, Len(entries), Len(entries)), room))])
  IN [mbr |-> <<MbrPart(TRUE, 12, FIRST_PARTITION, sz.part, FIRST_PARTITION + sz.part - 1),
                MbrPart(FALSE, 238, 1, GPT_SECTORS - 1, GPT_SECTORS - 1), NoPart, NoPart>>,
      hdr |-> hdr, entries |-> entries,
      second |-> Signed([hdr EXCEPT !.my = sz.disk - 1, !.alternate = 1, !.entries = sz.disk - GPT_SECTORS - 1, !.crc = {}])]

(* main looks for the ESP on the disk it has now, and makes its MBR agree; *)
(* without a GPT (no entries) it takes the active FAT of the MBR.          *)
FindEsp(img) ==
  LET at == SelectInSeq(SubSeq(img.entries, 1, Min({32, Len(img.entries)})), LAMBDA e : e.type = ESP)
      e == img.entries[at]
      p == img.mbr[1]
      same == p.type = 12 /\ p.start = e.start /\ p.count = e.end - e.start + 1
      fat == SelectInSeq(img.mbr, LAMBDA q : q.active /\ q.type \in {12, 239})
  IN CASE img.entries = <<>> /\ fat # 0 -> [img EXCEPT !.boot_lba = img.mbr[fat].start, !.partsize = img.mbr[fat].count]
       [] at # 0 -> [img EXCEPT !.boot_lba = e.start, !.partsize = e.end - e.start + 1, !.uuid = e.uuid,
                                !.mbr = [i \in 1 .. 4 |->
                                   IF i > 1 THEN [@[i] EXCEPT !.active = FALSE]
                                   ELSE IF same THEN [@[1] EXCEPT !.active = TRUE]
                                   ELSE MbrPart(TRUE, 12, e.start, e.end - e.start + 1, e.end)]]
       [] OTHER -> img

(* The FOSSBIOS catalog: the sum goes over the old checksum as well.       *)
BootCatalog(old, lbas) ==
  LET bytes == <<176, 7, 202, 122, 16, 192, old, 2>> \o <<0, 0, 8, 0>> \o Lsb(lbas[1]) \o <<1, 0, 8, 0>> \o Lsb(lbas[2])
  IN [bytes EXCEPT ![7] = SumByte(bytes)]

----------------------------------------------------------------------------
(* El Torito: what lies in which block of 2048 bytes.                      *)

setinte(val) == Lsb(val) \o Reverse(Lsb(val))
etbc_create(sz) ==
  [volume |-> [at |-> 16, blocks |-> setinte((sz.disk + 3) \div 4), root |-> setinte(20)],
   record |-> [at |-> 17, catalog |-> Lsb(19)], last |-> 18,
   catalog |-> [at |-> 19, words |-> <<1, 21930, 43605>>, start |-> FIRST_PARTITION \div 4,
                efi |-> [start |-> FIRST_PARTITION \div 4, count |-> sz.part % 65536]],
   root |-> [at |-> 20, self |-> setinte(20), parent |-> setinte(20)]]

----------------------------------------------------------------------------
(* ROM images, in units of unit bytes.  sumAt is the checksum's place.     *)

Filled(bytes, size) == bytes \o [i \in 1 .. size - Len(bytes) |-> 0]
LegacyRom(head, loader, unit, sumAt) ==
  LET size == unit + UpTo(Len(loader), unit)
      rom == [Filled(head \o loader, size) EXCEPT ![3] = size \div unit]
  IN [rom EXCEPT ![sumAt] = SumByte(rom)]
FossRom(head, packed, unit, crcAt) ==
  LET size == UpTo(Len(head) + Len(packed), unit)
      rom == [head \o packed EXCEPT ![3] = size \div unit]
      crc == WordBytes(crc32_calc(rom))
  IN Filled([i \in DOMAIN rom |-> IF i \in crcAt .. crcAt + 3 THEN crc[i - crcAt + 1] ELSE rom[i]], size)
=============================================================================

------------------------------- MODULE MCData -------------------------------
(***************************************************************************)
(* The algorithms of the loader, the image tool and the kernel that turn   *)
(* data into data, on small inputs: each state holds one input, and the    *)
(* invariants compare what the code makes of it with what it should be.    *)
(***************************************************************************)
EXTENDS Integers, Sequences, SequencesExt, FiniteSets, FiniteSetsExt, BagsExt

(* What is looked at beyond what the code is up to: "second_run" of the    *)
(* image tool over its own image, "loader_tasks" for the loader's task     *)
(* segment, "new_vectors" for processors that push error codes for 21 and  *)
(* 29, "late_headers" for kernels that begin with something else, and      *)
(* "mounted" images.                                                       *)
CONSTANT Also

VARIABLE x

C == INSTANCE Console
D == INSTANCE Descriptors
F == INSTANCE Firmware
T == INSTANCE ImageTool
Z == INSTANCE Inflate
P == INSTANCE Sprintf

SeqsUpTo(set, n) == UNION {[1 .. k -> set] : k \in 0 .. n}

----------------------------------------------------------------------------
(* The console: eight characters with line breaks between some of them, on *)
(* screens of three lines.                                                 *)

Screen == [w |-> 13, h |-> 15, fw |-> 1, fh |-> 2]
TextScreen == [cols |-> 8, lines |-> 3]
Texts == {FlattenSeq([i \in 1 .. 8 |-> <<64 + i>> \o (IF i \in breaks THEN <<C!Return, C!NewLine>> ELSE <<>>)]) :
            breaks \in SUBSET (1 .. 7)}

(* What is shown are the last lines, at least three if there are so many.  *)
LastOf(shown, lines) == IsSuffix(shown, lines) /\ (Len(shown) >= 3 \/ shown = lines)

(* The lines of a text, broken after width characters.                     *)
LinesOf(text, width) ==
  LET put(ls, c) ==
        IF c = C!Return THEN ls
        ELSE IF c = C!NewLine THEN Append(ls, <<>>)
        ELSE IF Len(Last(ls)) = width THEN Append(ls, <<c>>)
        ELSE Append(Front(ls), Append(Last(ls), c))
  IN FoldLeft(put, << <<>> >>, text)

(* Both consoles show the last lines that were printed, whatever scrolled  *)
(* before, and draw nothing outside the screen (console_putc); the bar     *)
(* drawn while a file of size bytes is read stays inside it too, and the   *)
(* pieces make up the file (pb_init, pb_draw, efi_read).                   *)
ConsoleShowsTail ==
  /\ x.kind = "text" =>
       LET fb == C!PutString(Screen, x.in)
           vga == C!VgaString(TextScreen, x.in)
       IN /\ LastOf(C!Shown(Screen, fb), LinesOf(x.in, 2))
          /\ LastOf(C!VgaShown(TextScreen, vga), LinesOf(x.in, 8))
          /\ \A r \in DOMAIN fb.rows : r \in 0 .. Screen.h - 1 /\ DOMAIN fb.rows[r] \subseteq 0 .. Screen.w - 1
  /\ x.kind = "bar" =>
       LET pieces == C!ReadPieces(Screen, x.in, 4)
           end(i) == pieces[i].at + pieces[i].bytes
       IN /\ pieces[1].at = 0 /\ end(Len(pieces)) = x.in
          /\ \A i \in 2 .. Len(pieces) : pieces[i].at = end(i - 1) /\ pieces[i].bytes > 0
          /\ \A i \in DOMAIN pieces : pieces[i].bar.on => C!DrawnColumns(pieces[i].bar) \subseteq C!BarColumns(Screen)
          /\ C!FiniColumns(Screen) \subseteq 0 .. Screen.w - 1

----------------------------------------------------------------------------
(* Numbers, as the loader's printf and the kernel's vsnprintf print them.  *)

Widths == [IntBits |-> 8, LongBits |-> 16, Digits |-> 5, ChunkDigits |-> 4, MIN |-> 8]

RECURSIVE Written(_, _)
Written(n, base) == (IF n < base THEN <<>> ELSE Written(n \div base, base)) \o <<P!Char(n % base)>>
Blank(n, c) == [i \in 1 .. n |-> c]
Filled(s, width) == Blank(width - Len(s), " ") \o s

(* A directive: at most one flag, a width, a size and a conversion.        *)
Formats == {[flag |-> f, width |-> n, long |-> l, conv |-> c] :
              f \in {"", "-", "0", "+"}, n \in {0, 3, 7}, l \in BOOLEAN, c \in {"d", "u", "x", "s", "c"}}
GoodFormats == {d \in Formats : /\ d.flag = "+" => d.conv = "d"
                                /\ d.flag = "0" => d.width > 0 /\ d.conv \in {"d", "u", "x"}
                                /\ d.long => d.conv \in {"d", "u", "x"}}
Numbers == {-32768, -129, -128, -1, 0, 7, 100, 127, 255, 10007, 32767}
FormatText(d) == <<"<", "%">> \o (IF d.flag = "" THEN <<>> ELSE <<d.flag>>)
                   \o (IF d.width = 0 THEN <<>> ELSE <<P!Char(d.width)>>)
                   \o (IF d.long THEN <<"l">> ELSE <<>>) \o <<d.conv, ">", "a", "b", "c">>
Fits(n, d) == d.long \/ n \in -128 .. 127 \/ (d.conv # "d" /\ n \in 0 .. 255)
Argument(d, n) == CASE d.conv = "s" -> <<"s", "t", "r">> [] d.conv = "c" -> "c" [] OTHER -> n

Reference(d, n) ==
  LET u == n % (IF d.long THEN 65536 ELSE 256)
      sign == CASE d.conv = "d" /\ n < 0 -> <<"-">> [] d.conv = "d" /\ n >= 0 /\ d.flag = "+" -> <<"+">> [] OTHER -> <<>>
      body == CASE d.conv = "d" -> Written(IF n < 0 THEN -n ELSE n, 10)
                [] d.conv = "u" -> Written(u, 10)
                [] d.conv = "x" -> Written(u, 16)
                [] d.conv = "s" -> <<"s", "t", "r">>
                [] d.conv = "c" -> <<"c">>
      gap == d.width - Len(sign \o body)
  IN CASE d.flag = "0" -> sign \o Blank(gap, "0") \o body
       [] d.flag = "-" -> sign \o body \o Blank(gap, " ")
       [] OTHER -> Blank(gap, " ") \o sign \o body
ReferenceText(d, n) == <<"<">> \o Reference(d, n) \o <<">", "a", "b", "c">>

(* printk's text is C's, cut off where the buffer ends while its length is *)
(* returned in full (vsnprintf); the loader prints every int and every     *)
(* long that is no negative int rightly (printf), pads it in front of the  *)
(* sign, and reads its numbers back (getint, gethex).                      *)
NumbersPrinted ==
  /\ x.kind = "format" =>
       \E full \in {ReferenceText(x.in, x.arg)} : \A count \in {1, 3, 9, 40}, skew \in {0, 3} :
         \E r \in {P!vsnprintf(count, FormatText(x.in), <<Argument(x.in, x.arg)>>, skew, Widths)} :
            r.length = Len(full) /\ r.buf = SubSeq(full, 1, IF count - 1 < Len(full) THEN count - 1 ELSE Len(full))
  /\ x.kind = "number" => \A len \in {0, 4} :
       LET d == C!print_d(x.in, len, Widths)
           digits == SelectSeq(d, LAMBDA c : c >= 0)
           blanks == Cardinality({i \in DOMAIN d : d[i] = C!Blank})
           sign == IF x.in < 0 THEN 1 ELSE 0
           h == C!print_x(x.in, len, Widths)
       IN /\ C!getint(digits) = IF x.in < 0 THEN -x.in ELSE x.in
          /\ Len(digits) = 1 \/ digits[1] # 0
          /\ d = Blank(blanks, C!Blank) \o Blank(sign, C!Minus) \o digits
          /\ blanks > 0 => Len(d) = len
          /\ FoldLeft(LAMBDA v, c : 16 * v + c, 0, h) = x.in % 65536
          /\ C!gethex(SubSeq(h, Max({1, Len(h) - 1}), Len(h))) = x.in % 256

----------------------------------------------------------------------------
(* Compressed streams.  A token is a literal or a copy.                    *)

Prefix == Blank(8, 9) \* what the caller has in front of a packed module
Expanded(tokens) ==
  LET put(out, t) == IF t.len = 0 THEN Append(out, t.lit)
                     ELSE out \o [i \in 1 .. t.len |-> out[Len(out) + 1 - t.dist + ((i - 1) % t.dist)]]
  IN FoldLeft(put, <<>>, tokens)
Lit(c) == [len |-> 0, lit |-> c, dist |-> 0]
Copy(len, dist) == [len |-> len, lit |-> 0, dist |-> dist]

(* A block with trees of its own: 97 to 100, the end, lengths 3 and 4 and  *)
(* the distances 1 and 2.                                                  *)
Tree3(sym) == Z!Turned(CHOOSE k \in 2 .. 7 : <<97, 98, 99, 100, 256, 257>>[k - 1] = sym, 3)
LengthTree(sym) == IF sym = 3 THEN <<0, 0>> ELSE IF sym = 18 THEN <<0, 1>>
                   ELSE Z!Turned(CHOOSE k \in 4 .. 7 : <<1, 2, 16, 17>>[k - 3] = sym, 3)
Trees ==
  Z!zlib_o(2, 5) \o Z!zlib_o(1, 5) \o Z!zlib_o(14, 4)
    \o FlattenSeq([i \in 1 .. 18 |-> Z!zlib_o(CASE Z!clcidx[i] \in {18, 3} -> 2 [] Z!clcidx[i] \in {16, 17, 1, 2} -> 3
                                                [] OTHER -> 0, 3)])
    \o LengthTree(18) \o Z!zlib_o(86, 7) \o LengthTree(3) \o LengthTree(16) \o Z!zlib_o(0, 2)
    \o LengthTree(18) \o Z!zlib_o(127, 7) \o LengthTree(17) \o Z!zlib_o(7, 3) \o LengthTree(17) \o Z!zlib_o(4, 3)
    \o LengthTree(3) \o LengthTree(3) \o LengthTree(2) \o LengthTree(1) \o LengthTree(1)
TokenBits(t) == IF t.len = 0 THEN Tree3(t.lit)
                ELSE (IF t.len = 3 THEN Tree3(257) ELSE <<0, 0>>) \o <<t.dist - 1>>
Dynamic(tokens) == <<1, 0, 1>> \o Trees \o FlattenSeq([i \in DOMAIN tokens |-> TokenBits(tokens[i])]) \o Tree3(256)

(* A stored block in front of the last one.                                *)
Stored(data) == Z!zlib_o(0, 8) \o Z!zlib_o(Len(data), 16) \o Z!zlib_o(65535 - Len(data), 16)
                  \o FlattenSeq([i \in DOMAIN data |-> Z!zlib_o(data[i], 8)])
Gzip(flags) == <<31, 139, 8, flags, 0, 0, 0, 0, 0, 3>>
  \o (IF (flags \div 4) % 2 = 1 THEN <<3, 0, 0, 7, 0>> ELSE <<>>)
  \o (IF (flags \div 8) % 2 = 1 THEN <<110, 0>> ELSE <<>>)
  \o (IF (flags \div 16) % 2 = 1 THEN <<0>> ELSE <<>>)
  \o (IF (flags \div 2) % 2 = 1 THEN <<1, 0>> ELSE <<>>)
Whole(bits) == [i \in 1 .. (Len(bits) + 7) \div 8 |->
                  Z!Byte(bits \o Blank(8, 0), 8 * (i - 1))]

ShortData == SeqsUpTo({7, 200}, 5)
LongData == {[i \in 1 .. 600 |-> 5], [i \in 1 .. 262 |-> 5], [i \in 1 .. 40 |-> i % 3],
             [i \in 1 .. 20 |-> (i * i * i) % 256], <<1, 2, 3, 4, 5, 9, 1, 2, 3, 4, 5, 8, 2, 3, 4, 5>>}
TokenLists == {<<Lit(97), Lit(98)>> \o t \o <<Lit(100)>> :
                 t \in SeqsUpTo({Lit(99), Copy(3, 1), Copy(3, 2), Copy(4, 2)}, 2)}

(* What compress packs, uncompress unpacks; and uncompress reads blocks of *)
(* all three kinds, stored ones in front of others, behind any gzip header *)
(* (inflate.h, compress in simpleboot.c).                                  *)
InflateInverse ==
  /\ x.kind = "packed" => Z!uncompress(Prefix \o Z!compress(x.in)) = [res |-> Z!TINF_DONE, out |-> Prefix \o x.in]
  /\ x.kind = "tokens" =>
       Z!uncompress(Prefix \o <<120, 218>> \o Whole(Dynamic(x.in))) = [res |-> Z!TINF_DONE, out |-> Prefix \o Expanded(x.in)]
  /\ x.kind = "gzip" =>
       Z!uncompress(Gzip(x.flags) \o Whole(Stored(x.in) \o Dynamic(<<Lit(98)>>)))
         = [res |-> Z!TINF_DONE, out |-> x.in \o <<98>>]

----------------------------------------------------------------------------
(* Memory maps: what the firmware answers, in any order.                   *)

Areas == {[start |-> s, pages |-> n, type |-> t] : s \in {0, 3}, n \in {2, 3}, t \in {5, 7}}
           \cup {[start |-> 8, pages |-> 1, type |-> t] : t \in {7, 10}}
Answers(in) == [i \in DOMAIN in |->
  [entry |-> [base |-> in[i].start, len |-> in[i].pages, type |-> in[i].type],
   carry |-> FALSE, ebx |-> IF i = Len(in) THEN 0 ELSE i]]
Refused == [entry |-> [base |-> 99, len |-> 1, type |-> 1], carry |-> TRUE, ebx |-> 0]

SortedLike(map, entries) ==
  /\ \A i \in 1 .. Len(map) - 1 : map[i].base <= map[i + 1].base
  /\ \A e \in {entries[i] : i \in DOMAIN entries} \cup {map[i] : i \in DOMAIN map} :
       Cardinality({i \in DOMAIN map : map[i] = e}) = Cardinality({i \in DOMAIN entries : entries[i] = e})

(* The map handed to the kernel has every area the firmware named, once,   *)
(* in the order of the addresses, whatever the firmware's order; in one    *)
(* that was sorted, ram is the top of the last area if that can be used    *)
(* and is not the only one (bios_e820, efi_memmap, fb_memmap, sort_map).   *)
MapsTranslated ==
  x.kind = "map" =>
    \E bios \in {F!bios_e820(Answers(x.in))}, cut \in {F!bios_e820(Append(Front(Answers(x.in)), Refused))},
       efi \in {F!efi_memmap(x.in)}, fb \in {F!fb_memmap([i \in DOMAIN x.in |->
                   [base |-> x.in[i].start, size |-> 8 * x.in[i].pages + (IF x.in[i].type = 7 THEN 0 ELSE 3)]])} :
      /\ SortedLike(bios.map, [i \in DOMAIN x.in |-> Answers(x.in)[i].entry])
      /\ SortedLike(cut.map, [i \in 1 .. Len(x.in) - 1 |-> Answers(x.in)[i].entry])
      /\ SortedLike(efi.map, [i \in DOMAIN x.in |-> [base |-> x.in[i].start, len |-> x.in[i].pages,
           type |-> CASE x.in[i].type = 7 -> F!AVAILABLE [] x.in[i].type = 10 -> F!NVS [] OTHER -> F!RESERVED]])
      /\ SortedLike(fb.map, [i \in DOMAIN x.in |-> [base |-> x.in[i].start, len |-> 8 * x.in[i].pages,
           type |-> IF x.in[i].type = 7 THEN F!AVAILABLE ELSE F!RESERVED]])
      /\ IsPrefix(F!e820_table(efi.map, 2), efi.map)
      /\ (/\ Len(x.in) > 1 /\ Last(x.in).type = 7
          /\ \A i \in 1 .. Len(x.in) - 1 : F!Top(efi.map[i]) <= x.in[i + 1].start)
         => efi.ram = F!efi_ram(x.in)

----------------------------------------------------------------------------
(* Video modes and system tables, as firmware may list them.               *)

Firmwares == {"vbe", "gop", "lfb"}
Mode(w, h, bits, usable, settable) ==
  [w |-> w, h |-> h, bpp |-> bits, ok |-> usable, sets |-> settable, format |-> "mask",
   red |-> 16 .. bits - 1, green |-> 8 .. 15, blue |-> 0 .. 7]
Modes == {Mode(800, 600, 32, TRUE, TRUE), Mode(640, 480, 32, TRUE, FALSE), Mode(640, 480, 24, TRUE, TRUE),
          Mode(400, 400, 32, TRUE, TRUE), Mode(640, 200, 32, TRUE, TRUE), Mode(320, 300, 32, TRUE, TRUE),
          Mode(700, 500, 32, FALSE, TRUE), Mode(1024, 768, 32, TRUE, TRUE)}
Requests == {[w |-> 800, h |-> 600, bpp |-> 32], [w |-> 1024, h |-> 768, bpp |-> 24], [w |-> 640, h |-> 480, bpp |-> 32]}

Fitting(firmware, modes, req) == {i \in DOMAIN modes : F!Fits(firmware, modes[i], req)}

(* A mode that is chosen is one that fits the request, and none that fits  *)
(* is larger in both directions; a screen the loader began with is still   *)
(* there, and the mode the kernel is told of is the one that is set        *)
(* (bios_vbe, efi_gop, fb_lfb, bios_init, fw_fini).  The system tables are *)
(* found once, the newer before the older (bios_systables, efi_systables). *)
ModesFit ==
  /\ x.kind = "modes" => \A firmware \in Firmwares :
       /\ \A req \in Requests : \E best \in {F!BestMode(firmware, x.in, req)}, fit \in {Fitting(firmware, x.in, req)} :
            /\ best = 0 <=> fit = {}
            /\ best # 0 => best \in fit /\ ~\E i \in fit : x.in[i].w > x.in[best].w /\ x.in[i].h > x.in[best].h
       /\ \E first \in {F!FirstVideo(firmware, x.in)} : \A req \in Requests :
            \E final \in {F!FinalVideo(firmware, x.in, first, req)} :
              /\ first.vidmode # 0 <=> final.vidmode # 0
              /\ final.set = final.vidmode
              /\ final # first => x.in[final.set].w <= req.w /\ x.in[final.set].h <= req.h
       /\ \A i \in DOMAIN x.in : \A mask \in {x.in[i].red, x.in[i].green, x.in[i].blue} :
            mask = F!FieldAt(mask) .. F!FieldAt(mask) + F!FieldSize(mask) - 1
  /\ x.kind = "tables" =>
       \E efi \in {F!efi_systables(x.in, <<>>)} :
         LET acpi == SelectSeq(efi.tags, LAMBDA t : t[1] # "SMBIOS")
             named(g) == {i \in DOMAIN x.in : x.in[i].guid = g}
         IN /\ (efi.rsdp_ptr = <<>>) <=> (named("acpi1") \cup named("acpi2") = {})
            /\ acpi # <<>> => Last(acpi)[2] = efi.rsdp_ptr
            /\ named("acpi2") # {} <=> \E i \in DOMAIN acpi : acpi[i][1] = "ACPI_NEW"
            /\ named("acpi2") # {} => ~\E i \in DOMAIN acpi : acpi[i][1] = "ACPI_OLD"
            /\ F!efi_systables(x.in, efi.rsdp_ptr).rsdp_ptr = efi.rsdp_ptr
  /\ x.kind = "paragraphs" =>
       \E bios \in {F!bios_systables(x.in)} :
         /\ (bios.rsdp_ptr = <<>>) <=> ~\E i \in DOMAIN x.in : x.in[i].kind = "RSD PTR "
         /\ \A i \in DOMAIN bios.tags : bios.tags[i][1] = "SMBIOS" => bios.tags[i][2].sum = 0
  /\ x.kind = "status" => \* a sector comes by port or by the BIOS, never from a drive still busy
       LET way == F!bios_loadsec(128, 80, x.in)
       IN way = "port" => \E i \in DOMAIN x.in : x.in[i] \in {64, 88}

----------------------------------------------------------------------------
(* Images: command lines of the image tool and directories for it.         *)

Switch(opt) == <<[opt |-> opt, val |-> 0]>>
Plain(val) == <<[opt |-> "", val |-> val]>>
Option(opt, val) == Switch(opt) \o Plain(val)
CommandLines == {f \o Plain(1) \o Plain(2) :
  f \in {<<>>, Option("s", 35), Option("s", 100), Option("b", 40), Option("s", 50) \o Option("b", 33),
         Option("b", 2048), Option("b", 32), Option("u", 5) \o Switch("e"), Switch("c") \o Option("s", 300)}}
Directories == {<<[names |-> <<5, 11>>, files |-> <<a, b>>]>> : a \in {1, 512, 2000000}, b \in {513, 30000000, 60000000}}
Room == 4       \* entries the checksum of the array goes over, for 248
BootRecord(sz) == [magic |-> TRUE, bps |-> 512, spc |-> 4, spf16 |-> 0, spf32 |-> sz.part \div 512, rsc |-> 32, nf |-> 2]

Entry(e) == [type |-> IF e.type = T!ESP THEN "esp" ELSE "other", start |-> e.start, end |-> e.end, uuid |-> e.uuid, legacy |-> FALSE]
Summing(bytes) == T!Total(bytes) % 256 = 0
Checked(h) == h.crc = T!crc32_calc(T!HeaderBytes([h EXCEPT !.crc = {}]))

(* Areas the image uses, first and last sector: tables, El Torito, the     *)
(* partition, the second tables.                                           *)
UsedAreas(sz, g, et) ==
  <<<<0, g.hdr.my>>, <<g.hdr.entries, g.hdr.entries + T!GPT_SECTORS - 1>>,
    <<4 * et.volume.at, 4 * et.root.at + 3>>, <<g.entries[1].start, g.entries[1].end>>,
    <<g.second.entries, g.second.my - 1>>, <<g.second.my, sz.disk - 1>>>>
Apart(areas, disk) ==
  /\ \A i \in DOMAIN areas : areas[i][1] <= areas[i][2] /\ areas[i][2] < disk
  /\ \A i, j \in DOMAIN areas : i < j => areas[i][2] < areas[j][1]

(* A new image: what its GPT, its MBR, its El Torito catalog and the tool  *)
(* itself say of the boot partition is the same, and the loader finds it   *)
(* and its clusters from any of them; both GPT headers and the array have  *)
(* the checksums they claim; nothing in the image overlaps; what was asked *)
(* to go into it has room (gpt_create, etbc_create, main, and bios_init of *)
(* the loader).                                                            *)
Bootable(sz, g, et) ==
  LET found == F!GptBoot([i \in DOMAIN g.entries |-> Entry(g.entries[i])], g.hdr.n, 4)
      own == T!FindEsp([mbr |-> g.mbr, entries |-> g.entries, boot_lba |-> 0, partsize |-> 0, uuid |-> 0])
      mbrOnly == T!FindEsp([mbr |-> g.mbr, entries |-> <<>>, boot_lba |-> 0, partsize |-> 0, uuid |-> 0])
  IN /\ found.esp = T!FIRST_PARTITION /\ found.uuid = g.entries[1].uuid /\ found.vbr = 0
     /\ F!MbrBoot(g.mbr) = found.esp
     /\ own.boot_lba = found.esp /\ own.partsize = sz.part /\ own.mbr = g.mbr /\ own.uuid = found.uuid
     /\ mbrOnly.boot_lba = found.esp /\ mbrOnly.partsize = sz.part
     /\ Checked(g.hdr) /\ Checked(g.second) /\ g.second.array = g.hdr.array
     /\ g.hdr.array = T!crc32_calc(T!ArrayBytes(g.entries, Room))
     /\ g.hdr.alternate = g.second.my /\ g.second.alternate = g.hdr.my
     /\ g.mbr[1].first = T!chs(found.esp)
     /\ 4 * et.catalog.start = found.esp /\ 4 * et.catalog.efi.start = found.esp
     /\ T!Total(et.catalog.words) % 65536 = 0
     /\ F!Volume(found.esp, BootRecord(sz)).found
     /\ Apart(UsedAreas(sz, g, et), sz.disk)

(* A GUID as text; a dash is -1.                                           *)
GuidText(bytes, dash) ==
  LET hex(a, b) == FlattenSeq([i \in 1 .. b - a + 1 |-> <<bytes[a + i - 1] \div 16, bytes[a + i - 1] % 16>>])
  IN hex(1, 4) \o <<-1>> \o hex(5, 6) \o <<-1>> \o hex(7, 8) \o <<-1>> \o hex(9, 10)
       \o (IF dash THEN <<-1>> ELSE <<>>) \o hex(11, 16)

(* With -vv a configuration that is taken names files that are there, and  *)
(* one kernel at most, which is then the kernel.                           *)
ConfigLines == [cmd : {"kernel", "module", "framebuffer", "typo"}, bkp : BOOLEAN, good : {FALSE}, arg : {"a", "none"}]
Kernels(lines) == SelectSeq(lines, LAMBDA l : l.cmd = "kernel" /\ ~l.bkp)
ConfigTaken(lines, verbose) ==
  \E c \in {T!check_config(lines, [a |-> 3], [T!NoOptions EXCEPT !.verbose = verbose])} :
    ~c.bad =>
      /\ Len(Kernels(lines)) <= 1
      /\ c.kernel = IF Kernels(lines) = <<>> THEN "kernel" ELSE Kernels(lines)[1].arg
      /\ verbose > 1 => \A i \in DOMAIN lines :
           lines[i].cmd = "module" \/ (lines[i].cmd = "kernel" /\ lines[i].bkp) => lines[i].arg = "a"

Bios(packed) == <<85, 170, 0, 0, 0, 0, 0, 0>> \o packed
RomIntact(rom, data) ==
  \E n \in {Len(Bios(Z!compress(data)))} :
    /\ Len(rom) = 8 * rom[3] /\ n <= Len(rom)
    /\ SubSeq(rom, 5, 8) = T!WordBytes(T!crc32_calc([i \in 1 .. n |-> IF i \in 5 .. 8 THEN 0 ELSE rom[i]]))
    /\ Z!uncompress(Prefix \o SubSeq(rom, 9, Len(rom))).out = Prefix \o data

(* An image the tool has made boots: see Bootable.  The checksums of its   *)
(* catalog and ROMs come out, GUIDs are read back as they are printed, and *)
(* what passes for a kernel or a configuration is one the loader takes.    *)
ImageBootable ==
  /\ x.kind = "image" =>
       \E o \in {T!Options(x.argv, 1, T!NoOptions)} : \E sz \in {T!Sizes(o, T!totsize(x.dirs), <<>>)} :
         /\ T!Understood(o)
         /\ sz # T!NoSizes => \E g \in {T!gpt_create(sz, 7, 9, <<>>, Room)}, et \in {T!etbc_create(sz)} :
              /\ Bootable(sz, g, et)
              /\ o.docalc => sz.part >= T!totsize(x.dirs)
  /\ x.kind = "catalog" =>
       \E first \in {T!BootCatalog(0, x.in)} :
         Summing(IF "second_run" \in Also THEN T!BootCatalog(first[7], x.in) ELSE first)
  /\ x.kind = "rom" =>
       \E rom \in {T!LegacyRom(<<85, 170, 0, 0, 0>>, x.in, 8, 5)} :
         Summing(rom) /\ Len(rom) = 8 * rom[3] /\ SubSeq(rom, 6, 5 + Len(x.in)) = x.in
  /\ x.kind = "rom" => RomIntact(T!FossRom(SubSeq(Bios(<<>>), 1, 8), Z!compress(x.in), 8, 5), x.in)
  /\ x.kind = "guid" => \A dash \in BOOLEAN : T!getguid(GuidText(x.in, dash)) = x.in
  /\ x.kind = "config" => ConfigTaken(x.in, x.verbose)
  /\ x.kind = "kernel" => \E k \in {T!detect_kernel(x.in)} : k.format # "none" => k.at = 0
  /\ x.kind = "device" => ~T!dev_open(TRUE, x.path, x.mounts)

----------------------------------------------------------------------------
(* Descriptor tables, stubs and bytes.                                     *)

Address(low, high) == <<low, 16, 32, 64, high, 255, 255, 255>>
Gates == {[i \in 1 .. 4 |-> Address(16 * i + low, high)] : low \in {0, 5}, high \in {0, 128}}
Pushes == {8, 17, 30} \cup 10 .. 14 \cup (IF "new_vectors" \in Also THEN {21, 29} ELSE {})
Frame == <<"rip", "cs", "rflags", "rsp", "ss">>
Pushed(vec) == IF vec \in Pushes THEN <<"code">> \o Frame ELSE Frame
Code(vec) == IF vec \in Pushes THEN "code" ELSE "none"

(* A descriptor or gate read back has the base, limit, rights and address  *)
(* it was made from, and no other entry is disturbed; each stub leaves the *)
(* frame of its exception in one place; the table of the loader has its    *)
(* segments where its selectors point (gdt.cc, idt.cc, idt_asm.asm).       *)
DescriptorsDecode ==
  /\ x.kind = "gdt" =>
       \E t \in {D!init_gdt(D!Zeroes(56), x.in, 416)} :
         LET flat(access) == [limit |-> 1048575, base |-> <<0, 0, 0, 0>>, access |-> access, flags |-> 10]
         IN /\ D!Decoded(t.mem, t.cs) = flat(154) /\ D!Decoded(t.mem, t.ds) = flat(146)
            /\ D!Decoded(t.mem, 24) = flat(250) /\ D!Decoded(t.mem, 32) = flat(242)
            /\ D!Decoded(t.mem, D!TSS_SEL) = [limit |-> 416, base |-> SubSeq(x.in, 1, 4), access |-> 137, flags |-> 0]
            /\ SubSeq(t.mem, 49, 52) = SubSeq(x.in, 5, 8)
            /\ D!TSS_SEL + 15 <= t.limit
  /\ x.kind = "gates" =>
       \E table \in {D!init_idt(x.in)}, loader \in {D!LoaderIdt([i \in 1 .. 32 |-> x.in[(i % 4) + 1]])} :
         \A i \in DOMAIN x.in :
           /\ D!Gate(table, i - 1) = [handler |-> x.in[i], selector |-> D!KERNEL_CS, ist |-> 0, type |-> 142]
           /\ D!Gate(loader, i + 3) = [handler |-> x.in[(i % 4) + 1], selector |-> 32, ist |-> 1, type |-> 143]
  /\ x.kind = "vector" =>
       LET mine == D!isr(x.in, Pushed(x.in))
           theirs == D!LoaderStub(x.in, Pushed(x.in))
       IN /\ mine[1] = x.in /\ SubSeq(mine, 3, Len(mine)) = Frame /\ theirs.frame = Frame
          /\ x.in \in Pushes => mine[2] = "code" /\ theirs.code = "code"
  /\ x.kind = "loader" =>
       /\ D!Decoded(D!LoaderGdt, 32).access = 154 /\ D!Decoded(D!LoaderGdt, 32).flags = 10
       /\ D!Decoded(D!LoaderGdt, 48).base = D!LoaderTss
       /\ "loader_tasks" \in Also => D!FaultStack(x.in) = <<0, 16, 0, 0, 0, 0, 0, 0>>
  /\ x.kind = "memset" =>
       \E m \in {D!memset(D!Zeroes(30), x.at, 7, x.len, x.skew, 8)} :
         \A i \in 1 .. 30 : m[i] = IF i \in x.at .. x.at + x.len - 1 THEN 7 ELSE 0
  /\ x.kind = "strings" =>
       /\ D!strcmp(Append(x.a, 0), Append(x.b, 0)) = 0 <=> x.a = x.b
       /\ \E m \in {D!memcpy(x.a \o x.b, 1, Len(x.a) + 1, Len(x.b))} : IsPrefix(x.b, m)

----------------------------------------------------------------------------
(* One input after the other.                                              *)

Init == x = [kind |-> "none"]
Give(kind, in) == x' = [kind |-> kind, in |-> in]
Next ==
  /\ x.kind = "none"
  /\ \/ \E t \in Texts : Give("text", t)
     \/ \E size \in 28 .. 45 : Give("bar", size)
     \/ \E d \in GoodFormats, n \in Numbers : Fits(n, d) /\ x' = [kind |-> "format", in |-> d, arg |-> n]
     \/ \E n \in -128 .. 127 \cup {256, 300, 12288} : Give("number", n)
     \/ \E d \in ShortData : Give("packed", d)
     \/ \E d \in LongData : Give("packed", d)
     \/ \E t \in TokenLists : Give("tokens", t)
     \/ \E d \in {<<>>, <<1>>, <<3, 1, 4>>}, flags \in 0 .. 31 : x' = [kind |-> "gzip", in |-> d, flags |-> flags]
     \/ \E m \in SeqsUpTo(Areas, 3) : m # <<>> /\ Give("map", m)
     \/ \E m \in SeqsUpTo(Modes, 3) : Give("modes", m)
     \/ \E t \in SeqsUpTo([guid : {"smbios", "acpi1", "acpi2", "other"}, at : {1, 2}], 3) : Give("tables", t)
     \/ \E p \in SeqsUpTo([kind : {"_SM_", "RSD PTR ", ""}, sum : {0, 1}, rev : {0, 2}], 2) : Give("paragraphs", p)
     \/ \E s \in SeqsUpTo({128, 64, 65, 1, 88}, 3) : Give("status", s)
     \/ \E c \in CommandLines, d \in Directories : x' = [kind |-> "image", argv |-> c, dirs |-> d]
     \/ \E a \in {2048, 70001}, b \in {2100, 99999} : Give("catalog", <<a, b>>)
     \/ \E d \in SeqsUpTo({3, 250}, 5) : Give("rom", d)
     \/ \E k \in {1, 7, 19, 255} : Give("guid", [i \in 1 .. 16 |-> (k * (i + 4) * i) % 256])
     \/ \E l \in SeqsUpTo(ConfigLines, 2), v \in {0, 2} : x' = [kind |-> "config", in |-> l, verbose |-> v]
     \/ \E h \in {"linux", "pe", "elf", "other"}, at \in SUBSET {16, 40, 64}, s \in {60, 200} :
          Give("kernel", [head |-> h, size |-> s, elves |-> IF "late_headers" \in Also THEN at ELSE {}])
     \/ \E line \in {<<1, 2>>, <<1, 2, 3>>} \cup (IF "mounted" \in Also THEN {<<7, 1, 2>>} ELSE {}) :
          x' = [kind |-> "device", path |-> <<1, 2>>, mounts |-> <<<<5>>, line>>]
     \/ \E low \in {0, 7}, high \in {0, 128} : Give("gdt", Address(low, high))
     \/ \E g \in Gates : Give("gates", g)
     \/ \E v \in 0 .. 31 : Give("vector", v)
     \/ \E b \in {0, 9} : Give("loader", [i \in 1 .. 64 |-> b])
     \/ \E a \in 1 .. 4, n \in 0 .. 26, s \in 0 .. 7 : x' = [kind |-> "memset", at |-> a, len |-> n, skew |-> s]
     \/ \E a, b \in SeqsUpTo({1, 2}, 3) : x' = [kind |-> "strings", a |-> a, b |-> b]
Spec == Init /\ [][Next]_x
=============================================================================

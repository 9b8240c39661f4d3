--------------------------------- MODULE Loader ---------------------------------
(***************************************************************************)
(* The second stage of the boot loader, loader_x86.c: reading the          *)
(* configuration, loading a kernel and its modules, starting over with the *)
(* backup configuration when a key was pressed, and handing over.          *)
(*                                                                         *)
(* A machine is a record chosen at the start: firmware (uefi), whether it  *)
(* has memory for page tables and a boot partition (started), memory map,  *)
(* the files of the boot partition, the configuration's lines, and the     *)
(* defaults stamped into the loader.  The user may press a key once at any *)
(* time; the loader looks for it whenever it reads from the disk, and when *)
(* it has given up.                                                        *)
(***************************************************************************)
EXTENDS LoaderMemory, FiniteSets

CONSTANTS
  Machines,   \* the machines of this instance
  HeaderSegs  \* program headers that fit into the first 4096 bytes of a kernel

(* What every machine has: sizes and addresses that are numbers, and a     *)
(* memory with an end.                                                     *)
ASSUME MachinesAssumption ==
  \A mc \in Machines :
    /\ {mc.uefi, mc.started} \subseteq BOOLEAN
    /\ {mc.ram, mc.framebuffer} \subseteq Nat
    /\ mc.free \cup mc.hack_buf \subseteq Nat /\ IsFiniteSet(mc.free \cup mc.hack_buf)
    /\ \A x \in DOMAIN mc.files :
         LET f == mc.files[x] IN
         /\ {f.size, f.inflated} \subseteq Nat
         /\ f.segments \in Seq([offs : Nat, filesz : Nat, vaddr : Nat, memsz : Nat])

VARIABLES
  machine,
  mem,          \* LoaderMemory
  pc,           \* where _start is
  key,          \* a key's code waits in the keyboard controller
  rq,           \* the loader has seen it
  bkp,          \* this is the backup pass
  conf,         \* the configuration lines read (conf_buf)
  kernel, cmdline, smp,
  tags,         \* the tags written in this pass
  ownTags,      \* tags_buf is memory the loader may write
  initrd,       \* where the first module's tag was, 0 when none
  dsdt,         \* dsdt_ptr, a unit, 0 when none
  kernel_mode, entry, loaded,  \* loaded: the kernel file whose header was read
  i,            \* the segment or the configuration line that comes next
  n,            \* modules loaded
  zero_page,    \* the page of Linux's parameters, 0 when none
  over          \* history: the loader has put something over page tables of its own

vars == <<machine, mem, pc, key, rq, bkp, conf, kernel, cmdline, smp, tags, ownTags, initrd, dsdt,
          kernel_mode, entry, loaded, i, n, zero_page, over>>
aside == <<zero_page, over>>

None == "none"
Dangling == "bytes of an old tag"  \* what a command line left in the tags of the first pass becomes

(***************************************************************************)
(* Files                                                                   *)
(***************************************************************************)
fw_open(name) == name \in DOMAIN machine.files
File(name) == machine.files[name]

(* The first sector read after a key press notices it; the backup pass     *)
(* does not look.  From then on the BIOS loader reads nothing more.        *)
Polled == rq \/ (key /\ ~bkp)
Cut == Polled /\ ~machine.uefi

(***************************************************************************)
(* Configuration                                                           *)
(***************************************************************************)
Applies(line) == line.backup = bkp

(* Lines up to the second menu entry; menuentry counts when it has a name. *)
FirstEntry(lines) ==
  LET menu == {j \in DOMAIN lines : Applies(lines[j]) /\ lines[j].cmd = "menuentry"}
      stop == {j \in menu : Cardinality({x \in menu : x <= j}) = 2}
  IN IF stop = {} THEN lines ELSE SubSeq(lines, 1, (CHOOSE j \in stop : TRUE) - 1)

Of(lines, cmd) == SelectSeq(lines, LAMBDA l : Applies(l) /\ l.cmd = cmd)

(* With no file in the backup pass the old text is kept, but the BIOS      *)
(* loader puts the new tags over it.                                       *)
fw_loadconfig ==
  /\ pc = "config"
  /\ rq' = Polled
  /\ \E name \in {"simpleboot.cfg", "easyboot/menu.cfg", None} :
       /\ name = CASE fw_open("simpleboot.cfg") -> "simpleboot.cfg"
                   [] ~fw_open("simpleboot.cfg") /\ ~bkp /\ fw_open("easyboot/menu.cfg")
                        -> "easyboot/menu.cfg"
                   [] OTHER -> None
       /\ IF name = None
          THEN /\ kernel' = machine.defkernel
               /\ smp' = (smp \/ (~bkp /\ machine.definitrd63 = 1))
               /\ conf' = IF machine.uefi THEN conf ELSE <<>>
               /\ UNCHANGED cmdline
          ELSE \E c \in 0..Len(File(name).lines) :
            /\ c = Len(File(name).lines) \/ Cut
            /\ conf' = SubSeq(File(name).lines, 1, c)
            /\ LET used == FirstEntry(conf')
                   kernels == Of(used, "kernel")
                   texts == SelectSeq(kernels, LAMBDA l : l.text /= None)
               IN /\ kernel' = IF kernels = <<>> THEN machine.defkernel ELSE Last(kernels).arg
                  /\ cmdline' = IF texts = <<>> THEN cmdline ELSE Last(texts).text
                  /\ smp' = \/ Of(used, "multicore") /= <<>>
                            \/ ~bkp /\ machine.definitrd63 = 1
  /\ pc' = "setup"
  /\ UNCHANGED <<machine, mem, key, bkp, tags, ownTags, initrd, dsdt, kernel_mode, entry, loaded, i, n,
                 aside>>

(***************************************************************************)
(* Tags.  Sizes are in words of eight bytes; the header takes one.         *)
(***************************************************************************)
Tag(type, words) == [type |-> type, words |-> words, name |-> None, start |-> 0, end |-> 0]

TagsEnd(ts) == FoldLeft(LAMBDA at, t : at + t.words, 1, ts)

(* The tag that begins at a place, if one does. *)
TagsAt(ts, place) == {ts[x] : x \in {y \in DOMAIN ts : TagsEnd(SubSeq(ts, 1, y - 1)) = place}}

TAGS_MAX == 1  \* pages for the tags; 30 in the code

(* In its first pass the UEFI loader asks the firmware for them.           *)
AsksForTags == machine.uefi /\ ~bkp
TagsPlace == AnyPages(mem, TAGS_MAX)
NoTags == AsksForTags /\ TagsPlace = Nowhere

(* The old command line's copy lies where the new tags are written.        *)
(* Without tags the UEFI loader does not learn how much memory there is,   *)
(* so that later stages always have tags.                                  *)
fw_loadsetup ==
  /\ pc = "setup"
  /\ mem' = [mem EXCEPT !.file_buf = IF machine.uefi THEN @ ELSE Unit(FileStart),
                        !.free = IF AsksForTags /\ ~NoTags THEN @ \ Run(TagsPlace, TAGS_MAX) ELSE @]
  /\ ownTags' = (~machine.uefi \/ ~bkp)
  /\ LET text == IF bkp /\ cmdline = "tag" THEN Dangling ELSE cmdline
         first == <<Tag("loader", IF bkp THEN 4 ELSE 3)>>
         second == IF cmdline = None THEN <<>> ELSE <<[Tag("cmdline", 3) EXCEPT !.name = text]>>
         map == IF machine.uefi \/ machine.memmap = <<>> THEN <<>>
                ELSE <<Tag("mmap", 2 + 3 * Len(machine.memmap))>>
     IN tags' = IF NoTags THEN <<>> ELSE first \o second \o <<Tag("acpi", 4)>> \o map
  /\ cmdline' = IF NoTags \/ cmdline = None THEN cmdline ELSE "tag"
  /\ pc' = IF NoTags \/ mem.ram = 0 THEN "err" ELSE "kernel"
  /\ UNCHANGED <<machine, key, rq, bkp, conf, kernel, smp, initrd, dsdt, kernel_mode, entry, loaded, i, n,
                 aside>>

(***************************************************************************)
(* The kernel                                                              *)
(***************************************************************************)
Mode(f) == CASE f.format \in {"elf64", "pe64"} -> "MB64"
             [] f.format = "elf32" -> "MB32"
             [] f.format = "pe32"  -> "PE32"
             [] f.format = "linux" -> "LIN"

KernelFile == IF kernel /= None /\ fw_open(kernel) THEN kernel
              ELSE IF fw_open("ibmpc/core") THEN "ibmpc/core" ELSE None

(* A page for what Linux is to know, kept for the backup pass; 0x90000     *)
(* holds nothing else of the BIOS loader.  On UEFI it is one page of the   *)
(* firmware's, and the command line goes behind it.                        *)
Params == <<"Linux parameters", 0>>
ZeroPage(m) ==
  CASE zero_page /= 0 -> zero_page
    [] zero_page = 0 /\ machine.uefi -> AnyPages(m, 1)
    [] OTHER -> FileStart - 1
ParamUnits(p) == Units(p, IF cmdline = None THEN 1 ELSE 2)
PutParams(m, p) ==
  IF m.uefi THEN Store([m EXCEPT !.free = @ \ {p}], [u \in ParamUnits(p) |-> Params]) ELSE m

(* The header: a read that is cut gives one sector, in which Linux cannot  *)
(* be told, and the next gives none.  A Linux before version 2.12, or one  *)
(* that asks for memory above 4G, is refused.                              *)
Unusable(f) ==
  \/ Cut /\ (rq \/ f.format \in {"linux", "old linux"})
  \/ f.format \in {"unknown", "old linux"}

NoKernel ==
  /\ mem' = efi_freepages(mem)
  /\ smp' = FALSE
  /\ kernel_mode' = IF machine.vbr /\ ~machine.uefi THEN "VBR" ELSE kernel_mode
  /\ pc' = IF machine.vbr /\ ~machine.uefi THEN "modules" ELSE "err"
  /\ UNCHANGED <<entry, loaded, zero_page, over>>

BadKernel(mode) ==
  /\ mem' = efi_freepages(mem)
  /\ smp' = FALSE
  /\ kernel_mode' = mode
  /\ pc' = "err"
  /\ UNCHANGED <<entry, loaded, zero_page, over>>

Kernel(f) ==
  /\ loaded' = KernelFile
  /\ kernel_mode' = Mode(f)
  /\ entry' = f.entry
  /\ pc' = "segments"
  /\ IF f.format /= "linux"
     THEN mem' = efi_freepages(mem) /\ UNCHANGED <<smp, zero_page, over>>
     ELSE \E m \in {efi_freepages(mem)}, p \in {ZeroPage(efi_freepages(mem))} :
            /\ mem' = PutParams(m, p)
            /\ zero_page' = p
            /\ over' = (over \/ (m.uefi /\ \E u \in ParamUnits(p) : PageOf(u) \in DOMAIN m.table))
            /\ smp' = FALSE

fw_loadkernel ==
  /\ pc = "kernel"
  /\ rq' = Polled
  /\ i' = 1 /\ n' = 0
  /\ IF KernelFile = None THEN NoKernel
     ELSE LET f == File(KernelFile) IN
          IF Unusable(f) THEN BadKernel(kernel_mode)
          ELSE IF f.format = "linux" /\ ZeroPage(efi_freepages(mem)) = Nowhere THEN BadKernel("LIN")
          ELSE Kernel(f)
  /\ UNCHANGED <<machine, key, bkp, conf, kernel, cmdline, tags, ownTags, initrd, dsdt>>

Segments == File(loaded).segments
MoreSegments ==
  /\ i <= Len(Segments)
  /\ kernel_mode = "LIN" \/ (~rq /\ i <= HeaderSegs)

LoadSegment ==
  /\ pc = "segments" /\ MoreSegments
  /\ rq' = Polled
  /\ mem' = fw_loadseg(mem, File(loaded), Segments[i], Cut)
  /\ i' = i + 1
  /\ pc' = CASE mem'.wild -> "wild" [] ~mem'.wild /\ ~mem'.ok -> "err" [] OTHER -> "segments"
  /\ smp' = (smp /\ mem'.ok)
  /\ UNCHANGED <<machine, key, bkp, conf, kernel, cmdline, tags, ownTags, initrd, dsdt, kernel_mode,
                 entry, loaded, n, aside>>

KernelLoaded ==
  /\ pc = "segments" /\ ~MoreSegments
  /\ kernel_mode' = IF kernel_mode = "MB64" /\ machine.definitrd63 = 2 THEN "MB32" ELSE kernel_mode
  /\ smp' = (smp /\ kernel_mode' = "MB64")
  /\ i' = 1
  /\ pc' = "modules"
  /\ UNCHANGED <<machine, mem, key, rq, bkp, conf, kernel, cmdline, tags, ownTags, initrd, dsdt, entry,
                 loaded, n, aside>>

(***************************************************************************)
(* Modules                                                                 *)
(***************************************************************************)
(* What a compressed file holds, and what it holds when inflated. *)
Packed(f) == [u \in 0..f.size - 1 |-> <<f.name, -1 - u>>]
Content(f) == [u \in 0..f.inflated - 1 |-> <<f.name, u>>]
At(f, buf) == [u \in {x + buf : x \in DOMAIN f} |-> f[u - buf]]
Load(m, f, buf) == IF Cut THEN m ELSE Store(m, At(f, buf))

(* Mutant: the packed form where the inflated one goes. *)
Behind_Same(m, f) == m.file_buf

(* Where the BIOS loader puts the packed form: behind the inflated one. *)
Behind(m, f) == m.file_buf + Round(f.inflated)

(* A module in memory: where it starts, how long it is, and what it looks  *)
(* like there.                                                             *)
Loaded(m, start, len, looks) == [m |-> m, start |-> start, len |-> len, looks |-> looks]

(* Room for a module and its bytes in it; start is Nowhere when there is   *)
(* no room.  An inflated module leaves its packed form behind it, which    *)
(* the next one is written over; on UEFI it gives that memory back, and    *)
(* with no room to inflate it the packed form is the module.               *)
LoadModule(m, f) ==
  LET packed == f.inflated > 0
      unc == AnyPages(m, PageOf(Round(f.inflated)))
      m1 == IF packed THEN efi_allocpages(m, unc, PageOf(Round(f.inflated))) ELSE m
      inflates == packed /\ m1.ok
      mod == AnyPages(m1, PageOf(Round(f.size)))
      m2 == efi_allocpages(m1, mod, PageOf(Round(f.size)))
      plain == IF packed THEN Packed(f) ELSE FileUnits(f, 0, f.size, 0)
      m3 == Load(m2, plain, Unit(mod))
      behind == Behind(m, f)
  IN IF m.uefi
     THEN IF ~m2.ok THEN Loaded(m2, Nowhere, 0, None)
          ELSE IF inflates
          THEN Loaded([Load(m3, Content(f), Unit(unc)) EXCEPT
                         !.free = @ \cup Run(mod, PageOf(Round(f.size))),
                         !.ptrs = SubSeq(@, 1, Len(@) - 1)],
                      Unit(unc), f.inflated, f.format)
          ELSE Loaded(m3, Unit(mod), f.size, IF packed THEN "data" ELSE f.format)
     ELSE IF packed
     THEN Loaded([Load(Load(m, Packed(f), behind), Content(f), m.file_buf) EXCEPT !.file_buf = behind],
                 m.file_buf, f.inflated, f.format)
     ELSE Loaded([Load(m, plain, m.file_buf) EXCEPT !.file_buf = @ + Round(f.size)],
                 m.file_buf, f.size, f.format)

ModuleTag(f, r) ==
  [Tag("module", 3) EXCEPT !.name = f.name, !.start = r.start, !.end = r.start + r.len]

(* The steps that open, load and file one module. *)
AddModule(f) ==
  \E r \in {LoadModule(mem, f)} :
  /\ mem' = r.m
  /\ CASE r.start = Nowhere -> UNCHANGED <<tags, initrd, dsdt, n>>
       [] r.start /= Nowhere /\ r.looks = "dsdt" ->
            /\ dsdt' = r.start
            /\ UNCHANGED <<tags, initrd, n>>
       [] OTHER ->
            /\ tags' = Append(tags, ModuleTag(f, r))
            /\ initrd' = IF initrd = 0 THEN TagsEnd(tags) ELSE initrd
            /\ n' = n + 1
            /\ UNCHANGED dsdt

(* Mutant: lines of the other pass count. *)
IsModule_AnyPass(line) == line.cmd = "module"

IsModule(line) == Applies(line) /\ line.cmd = "module"

fw_loadmodules ==
  /\ pc = "modules" /\ ~rq /\ i <= Len(conf)
  /\ i' = i + 1
  /\ IF IsModule(conf[i])
     THEN /\ rq' = Polled
          /\ IF fw_open(conf[i].arg) THEN AddModule(File(conf[i].arg))
             ELSE UNCHANGED <<mem, tags, initrd, dsdt, n>>
     ELSE UNCHANGED <<rq, mem, tags, initrd, dsdt, n>>
  /\ UNCHANGED <<machine, pc, key, bkp, conf, kernel, cmdline, smp, ownTags, kernel_mode, entry, loaded,
                 aside>>

(* Without any module the two default ones are tried, the first if the     *)
(* image's maker named it.  (A default that is no module but a DSDT is     *)
(* none of the machines here.)                                             *)
Defaults == <<machine.definitrd, IF bkp THEN "ibmpc/initrd.bak" ELSE "ibmpc/initrd">>

DefaultModule ==
  /\ pc = "modules" /\ (rq \/ i > Len(conf))
  /\ rq' = IF n = 0 THEN Polled ELSE rq
  /\ LET found == {d \in {1, 2} : Defaults[d] /= None /\ fw_open(Defaults[d])} IN
     IF n > 0 \/ found = {} THEN UNCHANGED <<mem, tags, initrd, dsdt, n>>
     ELSE AddModule(File(Defaults[CHOOSE d \in found : \A x \in found : d <= x]))
  /\ pc' = "decide"
  /\ UNCHANGED <<machine, key, bkp, conf, kernel, cmdline, smp, ownTags, kernel_mode, entry, loaded, i,
                 aside>>

(***************************************************************************)
(* _start                                                                  *)
(***************************************************************************)
(* The only tables are in what the loader keeps for itself.                *)
Bare(m) == DOMAIN m.table \subseteq 0..LoaderEnd - 1

(* The BIOS loader will put the next things where it has taken its tables. *)
StartOver == over' = (over \/ (~machine.uefi /\ ~Bare(mem)))

Again ==
  /\ pc = "decide" /\ ~bkp /\ rq
  /\ bkp' = TRUE /\ rq' = FALSE /\ pc' = "config"
  /\ StartOver
  /\ UNCHANGED <<machine, mem, key, conf, kernel, cmdline, smp, tags, ownTags, initrd, dsdt, kernel_mode,
                 entry, loaded, i, n, zero_page>>

(* The framebuffer is mapped behind everything loaded; a DSDT counts while *)
(* its bytes are still there; the last tags close the list.                *)
IsDsdt(u) ==
  /\ u \in DOMAIN mem.data
  /\ mem.data[u][1] \in DOMAIN machine.files
  /\ File(mem.data[u][1]).format = "dsdt"
  /\ mem.data[u][2] = 0

fw_fini ==
  /\ pc = "decide" /\ (bkp \/ ~rq)
  /\ mem' = IF machine.framebuffer = 0 THEN mem
            ELSE fw_map(mem, Unit(machine.framebuffer), Unit(machine.framebuffer), PAGE)
  /\ dsdt' = IF dsdt /= 0 /\ IsDsdt(dsdt) THEN dsdt ELSE 0
  /\ tags' = tags \o (IF machine.framebuffer = 0 THEN <<>> ELSE <<Tag("framebuffer", 5)>>)
                  \o (IF smp THEN <<Tag("smp", 3)>> ELSE <<>>) \o <<Tag("partuuid", 3)>>
                  \o (IF machine.uefi THEN <<Tag("mmap", 2), Tag("efi64", 2)>> ELSE <<>>)
                  \o <<Tag("end", 1)>>
  /\ pc' = CASE mem'.wild -> "wild"
             [] ~mem'.wild /\ kernel_mode = "VBR" -> "vbr"
             [] ~mem'.wild /\ kernel_mode /= "VBR" /\ entry = 0 -> "err"
             [] OTHER -> "run"
  /\ UNCHANGED <<machine, key, rq, bkp, conf, kernel, cmdline, smp, ownTags, initrd, kernel_mode, entry,
                 loaded, i, n, aside>>

(* The err label: firmware that can is told, the BIOS loader waits for a   *)
(* key to try the backup, once.                                            *)
GiveUp ==
  /\ pc = "err" /\ (machine.uefi \/ bkp)
  /\ pc' = IF machine.uefi THEN "returned" ELSE "halted"
  /\ UNCHANGED <<machine, mem, key, rq, bkp, conf, kernel, cmdline, smp, tags, ownTags, initrd, dsdt,
                 kernel_mode, entry, loaded, i, n, aside>>

(* Mutant: bkp stays as it is. *)
KeyWait_SamePass ==
  /\ pc = "err" /\ ~machine.uefi /\ ~bkp /\ key
  /\ rq' = FALSE /\ pc' = "config"
  /\ StartOver
  /\ UNCHANGED <<machine, mem, key, bkp, conf, kernel, cmdline, smp, tags, ownTags, initrd, dsdt, kernel_mode,
                 entry, loaded, i, n, zero_page>>

KeyWait ==
  /\ pc = "err" /\ ~machine.uefi /\ ~bkp /\ key
  /\ bkp' = TRUE /\ rq' = FALSE /\ pc' = "config"
  /\ StartOver
  /\ UNCHANGED <<machine, mem, key, conf, kernel, cmdline, smp, tags, ownTags, initrd, dsdt, kernel_mode,
                 entry, loaded, i, n, zero_page>>

(* The user, once. *)
Press ==
  /\ ~key /\ pc \in machine.keyAt
  /\ key' = TRUE
  /\ UNCHANGED <<machine, mem, pc, rq, bkp, conf, kernel, cmdline, smp, tags, ownTags, initrd, dsdt,
                 kernel_mode, entry, loaded, i, n, aside>>

(* What fw_init leaves. *)
fw_init(mc) ==
  [uefi |-> mc.uefi, file_buf |-> Unit(FileStart), table |-> bios_pagetables, data |-> <<>>,
   free |-> mc.free, hack_buf |-> mc.hack_buf, ptrs |-> <<>>, ram |-> mc.ram, memmap |-> mc.memmap,
   ok |-> TRUE, wild |-> FALSE]

Init ==
  /\ machine \in Machines
  /\ mem = fw_init(machine)
  /\ pc = IF machine.started THEN "config" ELSE "err"
  /\ key = FALSE /\ rq = FALSE /\ bkp = FALSE
  /\ conf = <<>> /\ kernel = None /\ cmdline = None /\ smp = FALSE
  /\ tags = <<>> /\ ownTags = TRUE /\ initrd = 0 /\ dsdt = 0
  /\ kernel_mode = "MB64" /\ entry = 0 /\ loaded = None /\ i = 0 /\ n = 0
  /\ zero_page = 0 /\ over = FALSE

_start ==
  \/ fw_loadconfig \/ fw_loadsetup
  \/ fw_loadkernel \/ LoadSegment \/ KernelLoaded
  \/ fw_loadmodules \/ DefaultModule
  \/ Again \/ fw_fini \/ GiveUp \/ KeyWait

Next == _start \/ Press

(* The processor goes on while there is something to do.  Each step of     *)
(* _start moves pc or i, and Running is when one is possible, so this is   *)
(* weak fairness of _start.                                                *)
Places == {"config", "setup", "kernel", "segments", "modules", "decide", "err", "run", "vbr", "wild",
           "returned", "halted"}
Running ==
  \/ pc \notin {"err", "run", "vbr", "wild", "returned", "halted"}
  \/ pc = "err" /\ (machine.uefi \/ bkp \/ key)
Fairness == WF_<<pc, i>>(Running /\ pc' \in Places /\ i' \in 0..Len(conf) + HeaderSegs + 1)

Spec == Init /\ [][Next]_vars /\ Fairness

(***************************************************************************)
(* Properties                                                              *)
(***************************************************************************)
(* Types of what the passes of the loader hand to each other, and the      *)
(* bounds of the two loops.                                                *)
TypeOK ==
  /\ machine \in Machines
  /\ pc \in Places
  /\ {key, rq, bkp, smp, ownTags, over} \subseteq BOOLEAN
  /\ zero_page \in Nat
  /\ kernel_mode \in {"MB64", "MB32", "PE32", "LIN", "VBR"}
  /\ loaded \in {None} \cup DOMAIN machine.files
  /\ \A p \in DOMAIN mem.table : mem.table[p] \in [Slots -> [kind : {"none", "table", "huge", "page"}, page : Nat]]
  /\ mem.file_buf % PAGE = 0
  /\ pc = "segments" => i \in 1..Len(Segments) + 1

(* Where a kernel finds an address: 32-bit modes run without paging. *)
Physical(u) == IF kernel_mode \in {"MB64", "LIN"} THEN Walk(mem, u) ELSE u

(* When the kernel is entered every byte of its segments is found at its   *)
(* address: what the file holds there, zero behind it (fw_loadseg, fw_map; *)
(* docs/ABI.md:45-49).  Nothing loaded, mapped or allocated later has      *)
(* come over it, over another segment or over a page table on the way.     *)
SegmentsInPlace ==
  pc = "run" =>
    \A s \in ToSet(Segments) : \A o \in 0..s.memsz - 1 :
      LET u == Physical(s.vaddr + o) IN
      /\ u \in DOMAIN mem.data
      /\ mem.data[u] = IF o < s.filesz THEN <<loaded, s.offs + o>> ELSE Zero

(* The range of each module's tag holds that module, inflated if it was    *)
(* packed (fw_loadmodules): the packed form of a later one, page tables    *)
(* and the framebuffer's mapping included.                                 *)
ModulesInPlace ==
  pc = "run" =>
    \A t \in {x \in ToSet(tags) : x.type = "module"} : \A u \in t.start..t.end - 1 :
      u \in DOMAIN mem.data /\ mem.data[u] = <<t.name, u - t.start>>

(* Modules lie in memory that the memory map calls available               *)
(* (fw_loadmodules looks at no map).                                       *)
ModulesInRam ==
  pc = "run" /\ mem.memmap /= <<>> =>
    \A t \in {x \in ToSet(tags) : x.type = "module"} :
      \E e \in ToSet(mem.memmap) :
        e.available /\ e.base <= t.start /\ t.end <= e.base + e.length

(* "all of the physical RAM is surely identity mapped" (docs/ABI.md:62):   *)
(* no segment's mapping takes the identity mapping of RAM away.            *)
RamMapped == pc = "run" => \A u \in 0..mem.ram - 1 : Walk(mem, u) = u

(* Whatever was found, loaded or refused in an aborted first pass, the     *)
(* kernel gets the modules, the command line, the first module as its      *)
(* initial ramdisk and the DSDT of the configuration it was loaded by      *)
(* (fw_loadconfig, fw_loadmodules, fw_fini).                               *)
Wanted ==
  LET asked == SelectSeq(Of(FirstEntry(conf), "module"), LAMBDA l : fw_open(l.arg))
      files == SelectSeq([j \in DOMAIN asked |-> asked[j].arg], LAMBDA x : File(x).format /= "dsdt")
      default == {d \in {1, 2} : Defaults[d] /= None /\ fw_open(Defaults[d])}
  IN IF files /= <<>> \/ default = {} THEN files
     ELSE <<Defaults[CHOOSE d \in default : \A x \in default : d <= x]>>

TagsOfThisPass ==
  LET modules == SelectSeq(tags, LAMBDA t : t.type = "module")
      text == {t.name : t \in {x \in ToSet(tags) : x.type = "cmdline"}}
      lines == SelectSeq(Of(FirstEntry(conf), "kernel"), LAMBDA l : l.text /= None)
  IN pc = "run" =>
       /\ [j \in DOMAIN modules |-> modules[j].name] = Wanted
       /\ text = IF lines = <<>> THEN {} ELSE {Last(lines).text}
       /\ kernel_mode = "LIN" /\ initrd /= 0 => modules /= <<>> /\ TagsAt(tags, initrd) = {modules[1]}
       /\ modules /= <<>> => initrd /= 0
       /\ dsdt /= 0 => \E l \in ToSet(Of(conf, "module")) : l.arg = mem.data[dsdt][1]

(* The tags are in memory that the firmware has given to the loader        *)
(* (fw_loadsetup).                                                         *)
TagsInOwnMemory == tags /= <<>> => ownTags

(* A key the loader has seen before it enters a kernel leads to the backup *)
(* configuration, and the other cores are started for 64-bit kernels only  *)
(* (_start).                                                               *)
KeyMeansBackup ==
  /\ pc \in {"run", "vbr"} => ~rq
  /\ bkp => key
  /\ pc = "run" /\ smp => kernel_mode = "MB64"

(* Walking the tables never leads through bytes of a file, unless the      *)
(* loader itself has put something over them: the backup pass what it      *)
(* loads (fw_loadsetup), or the command line of a Linux on UEFI            *)
(* (fw_loadkernel).                                                        *)
NoWildWalk == pc = "wild" => over

(* The loader comes to an end: a kernel or the old boot sector is entered, *)
(* the firmware gets its answer, the machine stops, or it waits for a key; *)
(* and a key it waits for is answered.                                     *)
BootEnds ==
  <>[](\/ pc \in {"run", "vbr", "returned", "halted"}
       \/ pc = "err" /\ ~key)
===============================================================================

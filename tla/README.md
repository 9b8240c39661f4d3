# DimensionOS in TLA+

TLA+ models, model-checking runs and machine-checked proofs for the DimensionOS kernel (`src/src`,
paths such as `sched.cc` are relative to it) and for what brings it to life, the Simpleboot image tool
and boot loader (`src/contrib/simpleboot/src`).

## 1. Inventory

The image tool puts kernel, modules, configuration and loader on a FAT partition. The loader finds
them through the firmware, puts the kernel's segments and the modules in place, builds page tables and
a list of tags, starts the other processors and enters `KernelMain` on all of them. The kernel halts all but one
(main.cc:43-46), sets everything up with interrupts off, turns them on, and from then on runs three
tasks under a periodic local APIC timer. Everything executes in ring 0 with one page table.

| component | state it keeps | operations | talks to |
|---|---|---|---|
| Scheduler, sched.cc | `task_t` objects in a circular list, `current_task`, `task_queue`, `next_pid`, `scheduler_ready` | `init_kernel_task`, `set_current_task`, `create_task`, `start_scheduler`, `schedule_from_interrupt`, `schedule`, `yield` | called by KernelMain and by the timer handler, which passes the interrupt frame |
| Interrupt entry, idt_asm.asm, idt.cc | the frame on the interrupted stack, `callbacks[256]`, the IDT | `service_interrupt`, `handle_interrupt`, `register_irq_handler`, `lapic_unmask_irq` | CPU -> stub -> callback -> `iretq` |
| Interrupt controllers, lapic.cc | APIC registers, PIC masks | `init_lapic` and its parts, `lapic_timer_handler`, `lapic_eoi` | raise vectors; the handler calls the scheduler |
| Tasks, main.cc | two 4096-byte stacks, `init_task` | `task1`, `task2`, `KernelMain` | `printk`, `yield` |
| Frame allocator, mm/pframe.cc | `bitmap`, `bitmap_size` | `phys_init_multiboot`, `phys_alloc_page`, `phys_free_page`, `phys_free_range` | the loader's memory map; users: paging and heap |
| Paging, mm/pframe.cc | the four-level table, `heap_base` | `map_page`, `unmap_page`, `virt_to_phys`, `heap_request_page` | takes table frames from the allocator |
| Heap, mm/heap.cc | list of block headers, `last_header`, `heap_start`, `heap_end` | `init_kmalloc`, `kmalloc`, `kfree`, `expand_heap`, `combine_*`, `split` | frames and mappings; `create_task` uses it |
| Spinlock, lib/spinlock.cc | `locked` | `lock`, `release` | the heap's lock |
| PS/2, arch/ps2.cc | controller configuration | `init_ps2` and the send/wait helpers | ports 0x60/0x64, IRQ 1 |
| GDT, arch/gdt.cc | six descriptors, the TSS | `init_gdt` and the encoders | CPU |
| Strings and printing | none | `memset`, `memcpy`, `strcmp`, `vsnprintf` (stb_sprintf.h), `printk` | everybody |
| Loader, x86: loading | `file_buf`, page tables, tags, configuration, the backup flag | `_start`, `fw_loadconfig`, `fw_loadsetup`, `fw_loadkernel`, `fw_loadseg`, `fw_map`, `fw_loadmodules`, `fw_fini` | firmware; hands tags, stack and page tables to the kernel |
| Loader, x86: processors | low memory words 0x538, 0x558 | the end of `fw_fini`, the trampoline | APIC messages |
| Loader, x86: firmware and console | memory map, mode, tables, cursor | `bios_*`, `efi_*`, `fb_*`, `console_putc`, `printf`, `pb_*` | BIOS, UEFI, FOSSBIOS |
| Decompression, inflate.h | bit position, trees | `uncompress`; `compress` in the image tool | modules, ROMs |
| Image tool, file system | FAT, next cluster, free count | `fat_format`, `fat_dirent`, `fat_add`, `fat_finish` | read back by the loader's `bios_open`, `bios_read` |
| Image tool, the rest | options, GPT, MBR, catalogs | `main`, `gpt_*`, `etbc_*`, `rom_*`, `parsedir`, `detect_kernel` | firmware that boots the image |
| Loaders for other machines | | loader_rpi.c, loader_cb.c | not built for this kernel |

What is hard here:

* **Interleaving.** A tick may arrive between any two instructions of a task, and, because
  `service_interrupt` executes `sti` before `iretq`, inside the handler's own exit path. Processors
  come up while the loader works. A key may be pressed at any moment of it.
* **A switch is spread over several places.** The new task's general registers are popped from the
  frame, then `iretq` loads rip, rflags and rsp, all from the *old* task's stack.
* **Reprogramming something that runs.** The timer already runs while its vector changes twice.
* **Starting over.** The loader's backup pass reuses memory the first pass still refers to.
* **Liveness.** Tasks loop for ever; waits and timeouts of devices and processors.
* **Self-reference.** The frame bitmap lies in the memory it describes; the page tables that map a
  segment come from where the segment was to go.
* **Several copies of one fact.** FAT, next cluster, free count and directory entries; the two GPTs and
  the MBR; checksums over tables that contain them.
* **Geometry.** Memory maps with holes, files of any size, clusters of several sectors, widths of
  integers, the ends of buffers and screens.

What makes each part correct:

* scheduler: the list is one ring of all tasks; one task is RUNNING; a context belongs to its task;
  preemption is invisible to the preempted code; everybody runs again and again;
* interrupts: one frame per stack, popped by the one it was pushed for; EOI for every tick; no vector
  without a callback ever gets through;
* frame allocator: a frame has one holder; the bitmap says exactly who holds what; only RAM, and no
  memory the loader filled, is handed out;
* paging: after `map_page(v, p)` translation of `v` gives `p` and no other translation changes;
* heap: blocks tile the heap, live objects are disjoint from each other and from headers;
* PS/2: `init_ps2` returns, true only after a passed self-test, each answer read for its own command;
* loader: segments and modules are in place when the kernel is entered, the tags are those of the
  configuration that was chosen, and every boot comes to an end;
* processors: none enters the kernel early, no two share a stack;
* file system: what was put in is read back, chains are disjoint, counters exact, the loader is in one
  piece;
* computations: compared with a reference definition of what the result should be.

The hazards with their lines are in `PROJECT.json`.

## 2. Modules

### TaskCode, Sched, VirtualCpus, TaskSwitch: preemptive multitasking

`TaskCode` defines what a task is to the scheduler: a register file (`rip`, `rsp`, `rax` for all
fifteen general registers, `iflag`) and the changes its own code may make to it. A code point is
entry, body, or the `hlt` in `yield`. The stack pointer is a stack and a number of slots in use.

`Sched` is sched.cc. `task[a]` is the `task_t` at address `a`; an address becomes a task when
`create_task` receives it from `kmalloc`. `boot` orders the calls of KernelMain (main.cc:192-204).
`schedule_from_interrupt(frame)` and `restore_interrupt_context(frame)` give the new scheduler
state and the frame's new contents. On its own, Sched takes any register file as a frame.

`TaskSwitch` composes Sched with the CPU, the stacks and the timer:

| action | code |
|---|---|
| `Boot(step)` | KernelMain calling a step of Sched, interrupts off; `enable_interrupts` sets the flag |
| `TaskStep` | code of the running task; calls overwrite the stack slots they use |
| `TimerFire` | the periodic timer's vector becomes pending (hardware, external) |
| `Interrupt` | the CPU pushes the frame and clears the interrupt flag (hardware, external) |
| `lapic_timer_handler` | idt_asm.asm:64-101: `cli`, pushes, `handle_interrupt`, the callback, `schedule_from_interrupt`, EOI, pops, `sti` |
| `iretq` | idt_asm.asm:103-104 |

From `cli` to `sti` nothing can interrupt, so that part is one action; the `iretq` is one of its own
because interrupts are on before it. The frame stays in its stack slot in between, where another
task's code could overwrite it. The timer never stops, so a tick may be taken there, and is likely to
be: the count is 100 at divide-by-16 (lapic.cc:213), and the handler prints several lines to a
serial port. The history variable `nested` counts those ticks. They end what the kernel promises:
`ContextsAreOwn`, `CpuIsCurrent`, `PreemptionTransparent` and `EveryTaskRuns` say what holds *until
the first of them*, in every behaviour; the depth of stacks, the ring and the task states are right
in any case; and the run `nested_tick` shows what goes wrong.

`VirtualCpus` is the abstract specification: each task owns a virtual CPU, only the running one
moves, and a switch moves the turn to the next in the order of admission without touching any
register. `TaskSwitch` implements it step by step until a tick nests (`PreemptionTransparent`) under the refinement mapping `Ring`
(the tasks by PID) and `VirtualRegs`: a task's registers are in its context while it is switched
out; those of the running one (`CurrentRegs`) in the CPU while it executes, in the frame while the
handler runs, and split between CPU and frame before the `iretq`.

### Interrupts: PIC, local APIC and callbacks

State: the PIC's base, masks and requests, LINT0 and the timer's entry, the requested and served
vectors, the callback table, the interrupt flag, and where KernelMain is. `KernelMain` performs the
calls of `init_lapic`, then `enable_interrupts` and `init_ps2`, one action each; `TimerExpires` and
`LineRaised` may happen between any two of them and latch their vector; `Interrupt` delivers the
highest one; `Callback` handles it, and a vector without a callback leaves the machine halted
(idt.cc:143). The PIC may hold requests from before and firmware may have left LINT0 passing them on.
TaskSwitch starts where this module ends.

### PhysMem: the frame allocator

State: the loader's map, where kernel and modules end, the bitmap's address and bits, and, as
history, how many callers hold each frame. `phys_init_multiboot`, `phys_alloc_page`,
`phys_free_page` and the panic are actions; `Take` is marking and zeroing, where zeroing clears the
bits that lie in the frame. `phys_init_multiboot` ends with two allocations whose addresses are
dropped, so nobody can free those frames. Bits beyond the bitmap that `phys_free_range` writes are
in `InitWrites`.

### Heap: the block list and its lock

State: the headers by address, the objects handed out, the lock's flag, and where each caller is in
`kmalloc`. `kmalloc` (round, lock), `search` and `found` (the walk), `take` (split, mark, release)
are separate because a caller can be preempted between them; `kfree` is one action. `Footprint` of an
object includes the place before it that `kfree` takes for its header (`ptr - 1`), which is not where
the header is. There the memory is zero as long as nobody's header or object lies on it, so both
`combine` calls return at once. Callers free what they got once. In today's kernel only KernelMain
calls the heap; the setting with two callers asks what the lock promises.

### PageMap, Paging: page tables

`Paging` keeps the contents of every frame as a table. A virtual page is a number whose digits are
the four indices. `get_table` works on a record of memory and free frames, so that `Mapped` chains
three calls as `map_page` does, including a panic half-way. Frames are taken lowest first, as
PhysMem does. The operators take the memory they read as a parameter, so that a walk can be followed
before and after a write. `LoaderAssumption` says what the loader's tables look like. Frames that are not tables hold `Data` that would read as present entries. `Walk` is
the CPU's page walk, `Access` fills the translations it remembers. `PageMap` is the abstract
specification, one function from pages to frames; `Paging` implements it under
`translation <- Walk`. `MapsInHuge = FALSE` stands for callers that stay away from the
loader's huge pages, as `init_kmalloc` does.

### Ps2Init: the keyboard set-up

`Script` is the dialogue of `init_ps2`, sends, reads and drains in order; one action for each helper
function performs a step of it. A wait gives up when nothing is coming, or, when answers are `late`, at any
time; what follows a wait is an action of its own, so a byte may come in between. Reading an empty
buffer gives the byte read last. The controller and the keyboard (external) take bytes, answer them
in order, and pass or fail their tests; answers are tagged with the step they belong to. The output buffer and the
port may hold any byte of `LeftOver` from before. With `Present = FALSE` nobody drives the ports, and
all their bits read as set.

### FatVolume, FatImage: the boot partition

`FatVolume` is the partition as the loader reads it: `bios_nextclu`, `bios_open` with its comparison of
names, and `bios_read`, as functions of a FAT and the contents of the clusters. `FatImage` is the
tool: `Start` opens the image and loads FAT and counters, `AddFile` and `AddDir` are what `parsedir`
does for one name (`fat_add`, `fat_dirent`, with `fat_findclu`, names in several slots, freeing and
taking clusters), `Finish` writes both loaders, BOOTX64.EFI and KERNEL8.IMG, on consecutive clusters and then FAT and FSInfo,
`Fail` is a session that stops before. Data and entries reach the device at once, FAT and FSInfo
only in `Finish`. `HardCases` names two inputs the tool gets wrong, a file that changes from or to
empty ("empty") and one whose entry is the first of a later cluster ("start").

### LoaderMemory, Loader: from the configuration to the kernel

`LoaderMemory` has what `fw_map`, `fw_loadseg` and the module loader do to memory, as operators on a
record: where the next thing goes, which pages are tables, which units hold which part of which
file. `Loader` is `_start` with one action for each stage: configuration, set-up of the tags, kernel, each
segment, modules, the default module, starting over (`Again`), handing over (`fw_fini`), giving up,
and waiting for a key. On UEFI the tags and Linux's zero page are asked of the firmware, which may have
none left; `started` is whether a boot partition was found. Writing over memory that holds page tables is allowed, as it is in the
code: a BIOS loader that starts over takes memory from the beginning again, and a Linux command line goes
behind its one page. The history variable `over` remembers it. On UEFI a packed module with no room to inflate it stays packed: its tag has the packed
length, and a DSDT in it is not recognised. `MemoryAssumption` puts the page tables of the identity map into what the BIOS loader keeps for
itself, as `bios_pagetables` does. A machine is a record drawn at the start: firmware, memory map, files, lines of
the configuration, defaults. `Press` is the user, once, at any time `keyAt` allows.

### ApStart: the other processors

The end of `fw_fini` (INIT, both start-up messages, the waits, counting), the hand-over, and on each
processor the trampoline, the spin on the entry and the first lines of KernelMain. They share `flag`
and `entry`, which hold anything at the start. `sleep` overwrites the variable the wait counts in
with the time stamp counter, whose low half may read as any member of `TscLow`.

### Console, Sprintf, Inflate, Firmware, ImageTool, Descriptors: one input, one result

These hold what turns data into data, as operators. `MCData` gives them one input per state
and compares each result with a definition that says what it should be.

* `Console`: cursor, scrolling and glyph placement of both consoles, printf's numbers, the progress
  bar. A screen keeps which row of which glyph each row shows in each column.
* `Sprintf`: how vsnprintf takes a format apart, forms digits in rounds, and hands the text over in
  chunks to a buffer that may end anywhere; integers have `IntBits` and `LongBits`.
* `Inflate`: the decoder on streams of bits with all three kinds of blocks and both headers, and the
  tool's encoder.
* `Firmware`: memory maps from three firmwares with the sort and the size of memory, choice of the
  video mode, tables and checksums, the boot partition in GPT or MBR, reading sectors by ATA.
* `ImageTool`: options, sizes, checking the configuration, GPTs with CRC, MBR, El Torito and FOSSBIOS
  catalogs, ROM images, detection of kernels. The CRC of the array goes over 4 entries, not 248.
* `Descriptors`: bytes of GDT, IDT and TSS descriptors against the processor's way of reading them,
  the entry stubs of kernel and loader, memset, memcpy, strlen, strcmp.

## 3. Runs

| run | what it asks | bounds | result |
|---|---|---|---|
| `preemption` | types; contexts and CPU belong to the right task; frames do not pile up beyond the nesting; ring; one RUNNING task; refinement of VirtualCpus and every task runs again and again, until a tick nests | KernelMain + 2 tasks, 2 register values, 2 slots of calls, 5 stack slots, 2 nested ticks | holds |
| `nested_tick` | the frame an `iretq` pops is still one | the same with 1 slot of calls, 1 nested tick | violated |
| `interrupts` | no vector without a callback gets through; ticks go on for ever | two PIC lines, LINT0 open or masked | holds |
| `frames` | exclusive frames; exact bitmap; RAM only | three scaled memory maps | holds |
| `heap` | blocks tile the heap; objects disjoint | one caller, blocks handed out end within 48 bytes, sizes 1 to 6 | holds |
| `paging` | tables form a tree nobody else holds; refinement of PageMap; mapping takes effect | 3 entries per table, 6 free frames, 4 pages mapped or unmapped | holds |
| `ps2` | answers of the tests read in turn (if in time); true means tested; the set-up returns | prompt or late answers, a byte left over or none, 1 key press | holds |
| `fat` | files read back; chains disjoint; free count exact; each loader in one piece | 20 clusters of one sector, 3 additions in any number of sessions, sizes of 0 to 2 clusters | holds |
| `boot` | segments and modules in place; tags of the chosen configuration; no walk through file bytes; booting ends | 20 machines, tables of 3 entries, one key press | holds |
| `ap_start` | nobody enters early; the count is of those that came up; the kernel runs | 5 cores, one absent and disabled, the table there twice | holds |
| `ap_timeout` | the kernel runs | one of the enabled cores does not answer | violated |
| `data` | the seven comparisons of MCData | 5581 inputs | holds |

**Bounds.** KernelMain and two tasks are the smallest ring in which "next" and "the other one" differ,
and what the kernel really has. Two register values tell a lost register from a kept one; a slot of
calls makes the stack pointer vary, a second one makes it vary more than a frame can hide, and the
last stack slots show that nothing goes deeper. What an `iretq` has popped is forgotten while no tick has
nested: nobody can read it before a new frame or a call overwrites it. The constraint `NestingsOnly` follows
behaviours behind a nested tick through handlers and returns until code of a task executes; from then on nothing that the
run checks says more than the theorems, which have no such bound.

PhysMem is scaled: 2-byte pages, "1 MB" is 8 bytes. The maps are a PC's (conventional memory, a gap,
the main memory, a reserved tail) with bitmaps of one page, more than one page, and the longest entry
last. Heap is scaled to 8-byte headers, multiples of 2, and 32-byte pages. Its budget, 48 bytes for the blocks handed out, keeps
every header before the first object; the same bound is 32 * 32 - 2 * 32 = 960 bytes in the kernel,
where KernelMain and its tasks use less. Paging has 81 pages; 18 frames are mapped to themselves by
six huge pages, one page is the kernel's. In Ps2Init 0x47 and 0x45 are what firmware leaves in the
configuration byte with and without a second port.

A cluster of FatImage has two bytes or four entries and short names one character, so that three
additions are enough for a directory to need a second cluster, for a file to shrink, grow and be
replaced, and for the free clusters to be in several pieces when the loaders come; 20 clusters have room for all that
fits into three additions, and fewer are a row of the table below. Loader has pages of
two units, 18 pages of RAM and three identity directories, so a low segment splits a large page and a
higher-half one makes three new tables. The 20 machines have 32- and 64-bit ELF and PE kernels and
Linux, packed and plain modules, a missing one, a DSDT, defaults, a forced mode, a kernel that is
unknown, missing, too old, does not fit or asks for an address that is none, one without an entry, an old boot sector, no boot
partition, and UEFI with and without room for tags and parameters. `data` uses
screens of three lines, an int of 8 and a long of 16 bits with 4 digits per round and chunks of 8, and
streams up to 600 bytes.

Deadlock is allowed where the system stops: with the bound on nested ticks (`preemption`), after a panic (`frames`, `paging`), with all memory handed
out (`heap`), when `init_ps2` has returned, when a session has failed or the additions are used up (`fat`), when the kernel
is entered or the loader has given up (`boot`), when every processor runs or halts (`ap_start`,
`ap_timeout`), and in `data`, which has one input per state.

**Fairness.** `preemption`: KernelMain never blocks before it enables interrupts; the timer is
periodic; the CPU takes a pending interrupt when it may, and executes the handler, which has no loop.
Each is weak fairness of that action; nothing is assumed of tasks. `interrupts`: the same of KernelMain,
the timer, the CPU and the callback; nothing of the PIC's lines. `ps2`: `init_ps2` goes on when it
can, and the devices take and deliver bytes; nothing is assumed of keys. `boot`: the processor goes on
while a step of `_start` is possible, and nobody has to press a key. `ap_start`, `ap_timeout`: the booting processor and each
processor that answers at all execute.

**Violations.** `nested_tick`: frame of task A on A's stack, handler switches to B, `sti`, second
tick: the frame (rip = `iretq`, rsp = A's stack) is saved into B's context. A resumes and overwrites
its slot; when B's turn comes its `iretq` pops what A left there. `ap_timeout`: the loop that waits
250 ms for a processor counts in `a`, which `sleep` fills with the time stamp; the wait ends only if the lower half of
the counter reads exactly 1 at one of these moments, so a listed processor that stays silent practically stops the boot. What the code and its comments say is
quoted in `PROJECT.json`.

**Outside the runs' instances.** With these changes to the constants of the run's configuration, TLC
finds the named property violated. They are limits of the code; the hazard list names them
at their lines.

| base | change | property | what happens |
|---|---|---|---|
| MCTaskSwitch | `RaxVals <- MCRaxValsWithMarker` | `MarkerMeansNew` | a task preempted with 0xDEADBEEF in rax finds 0 afterwards (sched.cc:253) |
| MCInterrupts | - | `RegisteredLinesUnmasked` | `1 \|\| ...` is 1: unmasking a line clears line 0 only (idt.cc:115) |
| MCInterrupts | `FirstPeriodLong = FALSE` | `NoUnclaimedInterrupt` | an expiry while the vector is 0xEF stays latched (lapic.cc:170) |
| MCPhysMem | `MemoryMaps <- BitmapUnderOnePage`, `PAGE_SIZE = 4` | `NoFrameHeldTwice` | under 128 MB the first allocation zeroes the bitmap (pframe.cc:165); with the 256 MB of `make run` it fills almost two pages, and the frame zeroed holds only clear bits |
| MCPhysMem | `MemoryMaps <- HoleBelowHighMemory` | `HeldIsRam` | with memory above a hole, `bitmap_size` and the freed range reach into the hole (pframe.cc:189) |
| MCPhysMem | `LoadedEnds <- WithBigModule` | `LoaderRegionsKept` | kernel and modules beyond 2 MB are in the range that is freed (pframe.cc:188) |
| MCHeap | `Callers <- TwoCallers` | `MutualExclusion` | `lock` looks at a local variable (spinlock.cc:18) |
| MCHeap | `Budget = 80` | `HeadersApart` | an object lies 32 headers behind its block's; new headers are written into objects (heap.cc:106) |
| MCHeap | `pages = 1`, `Budget = 100` | `NoFault` | a block a little longer than asked for: the rest's length is below 0, and its header crosses the end of the heap (heap.cc:23) |
| MCHeap | `Sizes <- OneSize` | `FreedBlocksReturn` | `kfree` marks a place one header before the object; the block is never free again (heap.cc:132) |
| MCHeap | `Sizes <- BigSizes`, `Budget = 400` | `NoFault` | half of the heap's pages are mapped (heap.cc:176) |
| MCHeap | `Sizes <- HugeSizes`, `Budget = 1000` | `NoWildSearch` | the search leaves the list through nullptr, `expand_heap` is never reached (heap.cc:118) |
| MCPaging | `MapsInHuge = TRUE` | `MapTakesEffect` | below a huge page `get_table` takes the page's memory for a table (pframe.cc:224) |
| MCPaging | - | `VirtToPhysAgrees` | the offset in a huge page is lost (pframe.cc:292) |
| MCPaging | - | `RequestsMapped` | the second request returns an address that is not mapped (pframe.cc:116) |
| MCPaging | `CachedPages <- HeapPages` | `RemembersCurrent` | nothing drops the CPU's translations (pframe.cc:266) |
| MCPs2Init | `Lateness <- Prompt` | `AnswersInTurn`, `NothingPending` | the data byte of SET_SCANCODE is acknowledged too, and from there on every answer is read one command late; the last one comes after the buffer was cleared (ps2.cc:288) |
| MCPs2Init | `BootConfigs <- OnePort`, `SecondPort = FALSE`, `Lateness <- LateAnswers` | `TrueMeansTested` | the configuration is 0x55, which passes for the self-test's answer (ps2.cc:250) |
| MCPs2Init | `Present = FALSE` | `SetUpReturns` | the status reads 0xFF, the buffer never empties (ps2.cc:230) |
| MCPs2Init | `LeftOver = {0, 85}` | `TrueMeansTested` | a byte from before passes for the self-test's answer (ps2.cc:250) |
| MCFatImage | `HardCases <- MCEmpty`, `MaxOps = 4` | `FreeCountExact` | a file that changes from or to empty (simpleboot.c:747) |
| MCFatImage | `HardCases <- MCStart`, `MaxOps = 4`, `Sizes <- MCTwoSizes` | `FilesReadBack` | the block of an entry that starts a later cluster is taken to be the one before (simpleboot.c:761) |
| MCFatImage | `LastCluster = 7` | `ChainsDisjoint` | a full partition gives cluster 0 (simpleboot.c:805) |
| MCFatImage | `LastCluster = 16` | `FilesReadBack` | a file that finds no further cluster is cut short without a word (simpleboot.c:855) |
| MCFatImage | - | `DirectoriesWiped` | a cluster added to a directory keeps old data |
| MCFatImage | `Sizes <- MCTwoSizes` | `OldFilesKept` | entries are written at once, the FAT at the end: a session that stops leaves neither old nor new (simpleboot.c:1628) |
| MCFatImage | `Names <- MCPrefixes` | `FilesReadBack` | a name is found by a prefix of it (loader_x86.c:1461) |
| MCFatImage | `spc = 2` | `FilesReadBack` | the sectors left in a cluster are counted from the wrong end (loader_x86.c:1461) |
| MCLoader | `Machines <- LateMachines` | `BootEnds` | the backup pass loads over the tables of the first (loader_x86.c:1852) |
| MCLoader | `UefiMachines` | `TagsInOwnMemory` | on UEFI the backup pass writes tags to memory nobody gave it |
| MCLoader | `UnalignedMachines`, `DownwardMachines` | `SegmentsInPlace` | segments that begin inside a page or come in falling order |
| MCLoader | `LongMachines` | `SegmentsInPlace` | program headers behind the first 4096 bytes are ignored (loader_x86.c:2163) |
| MCLoader | `ArglessMachines`, `BackupLinuxMachines` | `TagsOfThisPass` | `cmdline` and `initrd` of the first pass are kept (loader_x86.c:1880) |
| MCLoader | `MenuMachines` | `TagsOfThisPass` | the modules of all menu entries are loaded |
| MCLoader | `BigMachines` | `ModulesInRam` | modules are loaded without a look at the memory map (loader_x86.c:1955) |
| MCApStart | - | `StacksApart` | `KernelMain` calls `printk` on the stack at the top (main.cc:48), whose buffer of 1024 bytes (print.cc:32) alone fills the room above the stack of the processor with id 1 (loader_x86.c:2505) |
| MCApStart | `BootUse = 8`, `Bsp = 1` | `StacksApart` | also with small frames, a booting processor with another id shares its stack with the one that has id 0 |
| MCData | `Also = {"second_run"}` | `ImageBootable` | the FOSSBIOS catalog's checksum goes over the old one (simpleboot.c:1623) |
| MCData | `{"late_headers"}` | `ImageBootable` | the tool takes an ELF header at any 16-byte step for a kernel, the loader only at the start |
| MCData | `{"mounted"}` | `ImageBootable` | lines of /proc/self/mountinfo never begin with the device; where a line does, the tool goes on to create a new image in its place |
| MCData | `{"loader_tasks"}` | `DescriptorsDecode` | the loader's TSS lies in low memory behind its GDT, so the interrupt stack of faults is whatever is there (loader_x86.c:2410) |
| MCData | `{"new_vectors"}` | `DescriptorsDecode` | newer processors push a code for vectors 21 and 29, the stubs do not expect it |

Other statements hold in the runs' instances without a run of their own: `PanicOnlyWhenFull`,
`TicksComeFromTimer`, `SleepersApart`, which are proved (section 4), `KeyMeansBackup`, and of the
Loader's good machines `ModulesInRam`, `RamMapped`, `TagsInOwnMemory`; `ConfigKept` of Ps2Init when answers are in time.

What the data modules translate, and the reference definitions take into account, where a reader might expect
otherwise: a long line on the text screen runs on into the next line's cells; the loader's `%ld`
takes the sign from the lower half of the number, and its `%x` extends an int with its sign;  the size of memory is right only for a sorted map whose topmost area is usable and not
the only one; a partition count that does not fill its last sector lets all of a GPT's sectors be read; `-p`
takes the file's name from the GUID's word, so no further partition is ever made, and its places and sizes would be wrong; the CRC of
the partition array is taken from the last entry; the last usable sector of the GPT is the
first of the backup array; the El Torito sector count is modulo 65536; a drive that reports an error while ready is waited for
without end; `gdt[6]` is 8 bytes too short for the TSS descriptor, and the far return jumps over `ltr`.

## 4. Proofs

Every theorem holds for every value of the constants that its module's assumptions admit: any number of tasks, cores,
frames, table entries, any register values, any stack and heap size, any memory map. Where the code
needs more than that to be right, the theorem says so in its hypotheses; the table of section 3 has
the run that violates the property when the hypothesis is dropped.

| module | theorems | hypotheses, beyond the module's ASSUME |
|---|---|---|
| `TaskSwitch_proofs` | of Sched: `TypeCorrect`, `RingCorrect`, `OneRunningCorrect` | none |
| | `TypesCorrect`, `ImplementsSched`, `RingHolds`, `OneRunningHolds` | none |
| | `ContextsStayOwn`, `CpuStaysCurrent`, `FramesDoNotPile` | none |
| | `ImplementsVirtualCpus` | no task computes the mark |
| `Interrupts_proofs` | `TypeCorrect` | none |
| | `EveryInterruptClaimed`, `TicksFromTimer` | `FirstPeriodLong` |
| `PhysMem_proofs` | `FrameHeldOnce`, `BitmapIsExact`, `PanicJustified` | `Covered`, `BitmapFillsPage` |
| | `FramesAreRam` | `NoHole`, `BitmapFillsPage` |
| `Heap_proofs` | `ListCoversHeap`, `ObjectsKeepApart`, `SearchEnds` | `NotUsedUp`, `[]MutualExclusion` |
| | `HeadersKeepApart` | also `Budget + HEADER <= HEADER * HEADER - HEADER` |
| | `OneCallerSafe` | `NotUsedUp`, one caller |
| `Paging_proofs` | `TreeOfTables`, `MapReachesTable`, `TablesImplementMap` | `~MapsInHuge` |
| `ApStart_proofs` | `LoaderFirst`, `CountOfRunning`, `StacksDisjoint` | none |
| `Ps2Init_proofs` | `AnswersComeInTurn` | none |
| | `TrueMeansTestedHolds` | `NoLookalike` |
| `Loader_proofs` | `ModulesInPlaceHolds` | `[]RoomToInflate` |
| | `NoWildWalkHolds` | `Orderly` machines |

Where a proof needs the largest number of a set that TLC computes, or that a function defined by recursion
exists, it goes by induction over a *set* of naturals (`SetInduction` in `PhysMem_proofs` and
`Loader_proofs`, from the existence of a least element), which needs no operator parameter.

**Scheduler.** `SchedInv` (types, progress of the set-up, ring, one RUNNING task) is inductive for
Sched. The ring alone is not: `create_task` needs the last task to exist, hence that every PID below
`next_pid` is used, and that the set-up has come far enough; a switch needs that `current_task` is
in the ring.

**Task switch.** `ImplementsSched`: TaskSwitch changes the scheduler's variables only by steps of
Sched, so what holds of Sched holds of the kernel, also with nested ticks. It needs `MachineInv`:
whatever an `iretq` may pop is data or a resumable register file, and the handler runs only after
the set-up. `OwnInv`: until a tick nests, the registers of every task are where `VirtualRegs`
looks for them and are its own. It is what makes `ContextsAreOwn` and `CpuIsCurrent`
inductive: neither says where the running task's registers are while the handler runs. A nested tick ends it for
good, and nothing is proved of registers from then on but `MachineInv`.
`FramesDoNotPile` goes on behind it: `DeepInv` says of every register file that was saved, in a context or in a
frame, how deep its stack pointer may be, the ones saved before an `iretq` included, for they come back later.

`ImplementsVirtualCpus` is `PreemptionTransparent`: every step of TaskSwitch is a step of VirtualCpus
or a stutter, unless a tick has nested by then. `create_task` admits, `enable_interrupts` starts, task code and the interrupt of a halted
CPU run, a handler that changes `current_task` switches, and everything else, a switch's `iretq`
included, is invisible. It takes from `SchedInv` that the PIDs number the created tasks (so that the
ring of VirtualCpus has them all, once each, and `next` leads to the successor), from `OwnInv` where the
registers are, and one more invariant, `MarkInv`: until the scheduler runs, the context of a task is
what `create_task` put there, and the registers in CPU and frame never show the mark. Without the
latter, which is the hypothesis on `RaxVals`, the handler takes a task's own value for the mark.

**Interrupts.** `ClaimInv`: until LINT0 is masked interrupts are off, from then on the PIC's requests
end there; the timer's vector is requested only after `init_lapic_timer`, when its callback is registered; what is
in service is what is being handled. `NoUnclaimedInterrupt` alone says nothing of requests that
are still latched. `FirstPeriodLong` says that the first period of the timer, started with vector 0xEF, outlasts the few
calls until the vector is replaced.

**Frames.** `AllocInv`: a bit is set just when its frame lies below the first frame or has one holder,
and the frames `phys_init_multiboot` took for itself are never given back. The last part keeps
`FirstFrame` in use, which lies on the bitmap: whoever got it again would zero the bitmap.
`Covered`: what was freed reaches up to the last bit, so that no bit beyond is left set. `BitmapFillsPage`: the bits the first allocation zeroes
are those of frames behind the first one, true when the bitmap is at least a page long, with more than 128 MB. `NoHole`: the bitmap ends with the region the frames
are taken from. All three are about the machine's memory map, and the one of `make run` (256 MB) satisfies them.

**Heap.** `HeapInv`: the blocks follow each other from 0 to the end, each linking to its neighbours, and
only the last is free, since `kfree` never finds the header it should mark (`BlocksInRow`); objects lie in
blocks that were handed out (`LiveInBlocks`); and who searches asked for no more than is left
(`SearchInv`). `Tiling` alone does not survive a `split`: it needs that the block still is the free one
when it is taken, hence `MutualExclusion`, an assumption since the lock does not give it and a fact with one
caller. `NotUsedUp` leaves room for the last block behind the budget. `HEADER * HEADER - HEADER` is
where the first object's shadow header begins, 32 * 32 - 32 in the kernel, so the budget there is 960 bytes.

**Paging.** `PagingInv`: the tables of each level (`Levels`) are disjoint and finite in depth, one entry leads to each,
huge pages hang only from the third level, and no table is free or held by a caller; and there is
no huge page at `HEAP_BASE`. `TablesExclusive` alone does not say that a frame `get_table` takes is
not yet reachable from another level, and the effect of one write on a walk (`MapReachesTable`, and that no other
page moves, `TablesImplementMap`) follows only when no table is on the way twice. The proof
follows `Mapped` through its three calls of `get_table` and the write of the leaf, with or without a panic in
between. `LoaderAssumption` says of the loader's tables what `fw_map` builds: a tree whose huge pages are 2 MB.

**Processors.** `EntryInv`: `entry` is 0 from the first message until the hand-over, so that whoever came up spins; what
lies there before does not matter, for nobody executes yet. `StackInv`: the stack of a core is computed from
its id, that of the booting one is at the top. `StacksDisjoint` says of it what is true, that the processors KernelMain sends to
sleep keep apart (`SleepersApart`): they use less than the 1024 bytes they have (`StackUse`), and 0 is none of their ids. `CountInv`: `running` is one more than the cores that came up, less the one whose flag is set
and not counted; it holds as an equality until a wait has been repeated.

**Keyboard.** `TrueMeansTested` looks at the end of a dialogue of 20 steps, so its inductive form follows the
dialogue. `StepInv`: a byte in the input buffer is one the script sends, from the step that waits or one
before. `BytesInv`: every byte under way, in the output buffer or left behind on the data port tells the
truth (a byte that reads "passed" exists only when that test has passed), and a step behind a test has its answer. The data
port shows its last byte again when nothing has come, so the truth must hold of old bytes too. One
byte is no answer of a test but may look like one, the configuration byte, which `ConfigInv` follows from
firmware to the second read. `NoLookalike` excludes 0x45 and 0x55, which with port 1 switched off (bit 4 set) read
like the controller's answer, and 0x55 as a byte left over (`TellsController`, `OutputInv` say what such a byte cannot be until it is
drained); section 3 has the runs that violate the property with each of them. Without a controller the dialogue
never gets past its first drain (`AbsentInv`), so nothing is ever read or returned. `Dialogue` says for each step which bytes may be under way; while nothing is late and no key is
pressed it is inductive, and `AnswersComeInTurn` follows up to step 14, behind which the keyboard is one answer behind.

**Loader.** `ModInv`, for the modules: the memory is `Sound` (pages handed out once, lent ones finitely many, `file_buf` on a page
boundary), and each module in the list holds its bytes in a range whose pages are neither spare nor
lent (`Holds`). `ModulesInPlace` says nothing of where the next thing goes, and every call of `fw_map`,
`fw_loadseg` and `efi_allocpages` before the kernel runs could break it; `Keeps` is what they have in common: what was
handed out stays as it was. On BIOS a key cuts the reads short from then on, and the modules listed may hold anything; it
also makes the loader start over, which is why the conclusion is true.
`RoomToInflate`: when the modules come, UEFI has a run of free pages for each file inflated. Without it the packed
form stays, with the length of the packed form, which is a tag that does not hold the module.

`WalkInv`, for the tables: every entry of a table that says "table" leads to one, and no table is in
a spare page or one that will be given back (`Leads`). Of the BIOS loader this is not inductive alone: until a high segment comes it sets `file_buf` back and puts
low segments where they ask to be, so that until then the only tables may be those of the identity map (`Bare`), which
lie in what the loader keeps for itself. `Orderly`: on BIOS the high segments come after the low ones, as linkers write them; on UEFI
no segment has more in the file than in memory, and the memory map's free pages are apart from the loader's tables.
All of it holds while the loader has put nothing over its own tables (`over`), and the theorem says just that: a wild walk comes
only after a BIOS loader started over pages it had made tables, or a Linux command line went over some. The code prevents neither; `LateMachines` is the
first, a key pressed when a high segment or the framebuffer has been mapped, and there the boot does go wild and never ends (loader_x86.c:1852). `fw_map`'s walk is a
recursive function over the pages of a range; that it exists and takes one step per page is `SetInduction`'s second use.

**Only model-checked.** `EveryTaskRuns`, `TimerKeepsTicking`, `SetUpReturns`, `BootEnds`, `KernelRuns`:
liveness under fairness is out of this prover's reach. The comparisons of MCData: what a recursive
definition computes for every input needs induction with an operator as parameter, and modules
with recursive operators get no SMT backend. The invariants of FatImage: FAT walks are recursive functions over
a FAT that changes under them, and directories are folds over slots. `SegmentsInPlace`: beyond `WalkInv` it needs what the walk of
every mapped address gives, hence the arithmetic of all four levels at once. `TagsOfThisPass`: true of configurations outside section 3's
exceptions only, and a statement about filtered sequences. And what is violated.

## 5. Not modelled

* The loaders for the Raspberry Pi and for coreboot, the example kernel, and the build scripts: DimensionOS is an x86
  kernel and boots from BIOS or UEFI; none of them is built for it.
* `schedule()` and `switch_context`, the inter-processor functions of lapic.cc, `expand_heap`, the scan code tables: nothing
  calls or reaches them.
* xmm state (the kernel is built without saving it) and the segment registers (the same for all
  tasks).
* KernelMain's walk over the tags beyond the memory map, and its heap calls at the end, which to the scheduler are
  code of a task.
* The boot logo, the EDID and coreboot tables, the register words of BIOS calls; floating point and `%n` of vsnprintf;
  the serial port behind `printk`; the texts the image tool prints.
* The write through a null `next` in the heap's `split`, which goes to low memory.

## 6. Plan

Done: scheduling, interrupt controllers, frames, paging, heap, PS/2, image, loader, processors, the
computations; proofs for the kernel's own components, both refinements included, for the keyboard's set-up and for
the loader's modules and page tables. What remains is proof:

1. `Loader`: `SegmentsInPlace`, from `WalkInv` and a lemma about what the walk of an address gives after
   `fw_map`; `TagsOfThisPass`, for one menu entry with `cmdline` and `initrd` set anew.
2. `FatImage`: `ChainsDisjoint` and `FreeCountExact`, with the invariant that a cluster is on one chain
   or free.

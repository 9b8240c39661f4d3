------------------------------- MODULE Paging -------------------------------
(***************************************************************************)
(* The page tables of mm/pframe.cc: map_page, unmap_page, virt_to_phys and *)
(* heap_request_page on a four-level tree whose tables are frames of the   *)
(* physical memory, beside what the CPU makes of that tree: the page walk  *)
(* and the translations it remembers.                                      *)
(*                                                                         *)
(* A virtual page is a number; its four indices are its digits to the base *)
(* ENTRIES (512).  Memory that is not a table is Data, which would be read *)
(* as present entries if somebody took it for a table.  The boot loader    *)
(* maps physical memory to itself with huge pages of ENTRIES frames.       *)
(***************************************************************************)
EXTENDS Integers, FiniteSets, FiniteSetsExt

CONSTANTS
  ENTRIES,      \* entries in a table
  Frames,       \* frame numbers of RAM and devices
  cr3,          \* the frame of the top table
  BootTables,   \* the loader's tables: their contents by frame
  BootFree,     \* frames the allocator has at the start
  HEAP_BASE,    \* the page number of HEAP_BASE
  MapPages,     \* pages callers map
  UnmapPages,   \* pages callers unmap
  CachedPages,  \* pages of which the CPU may remember the translation
  MapsInHuge,   \* whether callers map pages inside a huge page
  Requests      \* bound: number of calls of heap_request_page

Index == 0..(ENTRIES - 1)
Pages == 0..(ENTRIES * ENTRIES * ENTRIES * ENTRIES - 1)
Entry == [present : BOOLEAN, huge_page : BOOLEAN, frame : Frames]

NotMapped == -1

ASSUME PagingAssumption ==
  /\ ENTRIES \in Nat \ {0}
  /\ Frames \subseteq Nat /\ IsFiniteSet(Frames) /\ 0 \in Frames
  /\ cr3 \in DOMAIN BootTables
  /\ DOMAIN BootTables \subseteq Frames
  /\ \A t \in DOMAIN BootTables : BootTables[t] \in [Index -> Entry]
  /\ BootFree \subseteq Frames \ DOMAIN BootTables
  /\ HEAP_BASE \in Pages
  /\ MapPages \cup UnmapPages \cup CachedPages \subseteq Pages
  /\ MapsInHuge \in BOOLEAN
  /\ Requests \in Nat

-----------------------------------------------------------------------------
p4_idx(v) == v \div (ENTRIES * ENTRIES * ENTRIES)
p3_idx(v) == (v \div (ENTRIES * ENTRIES)) % ENTRIES
p2_idx(v) == (v \div ENTRIES) % ENTRIES
p1_idx(v) == v % ENTRIES

(* The entries of memory m on the way to page v.                           *)
E4(m, v) == m[cr3][p4_idx(v)]
E3(m, v) == m[E4(m, v).frame][p3_idx(v)]
E2(m, v) == m[E3(m, v).frame][p2_idx(v)]
E1(m, v) == m[E2(m, v).frame][p1_idx(v)]

HasE2(m, v)  == E4(m, v).present /\ E3(m, v).present /\ E2(m, v).present
InHuge(m, v) == HasE2(m, v) /\ E2(m, v).huge_page
HasE1(m, v)  == HasE2(m, v) /\ ~E2(m, v).huge_page /\ E1(m, v).present

(* What the CPU's page walk finds for page v.                              *)
Walk(m, v) ==
  CASE InHuge(m, v) -> E2(m, v).frame + p1_idx(v)
    [] HasE1(m, v)  -> E1(m, v).frame
    [] OTHER        -> NotMapped

(* What virt_to_phys answers, as a frame.                                  *)
virt_to_phys(m, v) ==
  CASE InHuge(m, v) -> E2(m, v).frame
    [] HasE1(m, v)  -> E1(m, v).frame
    [] OTHER        -> NotMapped

(* The entries, as table and index, that lead from a table to a table.     *)
Below(m, tables) == {e \in tables \X Index :
                       m[e[1]][e[2]].present /\ ~m[e[1]][e[2]].huge_page}
Behind(m, links) == {m[e[1]][e[2]].frame : e \in links}

Level3(m) == Behind(m, Below(m, {cr3}))
Level2(m) == Behind(m, Below(m, Level3(m)))
Links(m)  == Below(m, {cr3} \cup Level3(m) \cup Level2(m))
Tables(m) == {cr3} \cup Behind(m, Links(m))

Points(p)    == [present |-> TRUE, huge_page |-> FALSE, frame |-> p]
Data         == [i \in Index |-> Points(cr3)]
ZeroPage     == [i \in Index |-> [present |-> FALSE, huge_page |-> FALSE, frame |-> 0]]

BootMemory == [f \in Frames |-> IF f \in DOMAIN BootTables THEN BootTables[f] ELSE Data]

(* The loader's tables form a tree, each with one entry leading to it; its  *)
(* huge pages hang from the tables of the third level and lead to memory,   *)
(* and there is none where the kernel's heap begins.                       *)
ASSUME LoaderAssumption ==
  /\ Tables(BootMemory) \subseteq DOMAIN BootTables
  /\ cr3 \notin Behind(BootMemory, Links(BootMemory))
  /\ \A e, f \in Links(BootMemory) :
       BootMemory[e[1]][e[2]].frame = BootMemory[f[1]][f[2]].frame => e = f
  /\ \A t \in {cr3} \cup Level3(BootMemory) : \A i \in Index :
       BootMemory[t][i].present => ~BootMemory[t][i].huge_page
  /\ \A t \in DOMAIN BootTables : \A i, j \in Index :
       BootTables[t][i].huge_page => BootTables[t][i].frame + j \in Frames
  /\ ~InHuge(BootMemory, HEAP_BASE)

-----------------------------------------------------------------------------
VARIABLES
  mem,        \* the contents of every frame, read as a table
  free,       \* frames the allocator has
  held,       \* frames that callers have allocated
  heap_base,
  given,      \* what heap_request_page returned
  tlb,        \* translations the CPU remembers
  halted      \* after a panic

vars == <<mem, free, held, heap_base, given, tlb, halted>>

Init ==
  /\ mem = BootMemory
  /\ free = BootFree
  /\ held = {}
  /\ heap_base = HEAP_BASE
  /\ given = {}
  /\ tlb = [v \in {} |-> NotMapped]
  /\ halted = FALSE

-----------------------------------------------------------------------------
(* get_table works on a memory: its frames, those still free, the table    *)
(* the walk has come to, and whether the allocator has panicked.           *)
Start == [mem |-> mem, free |-> free, table |-> cr3, ok |-> TRUE]

(* Mutants: the new table is not zeroed; it stays free.                    *)
NewTable_Dirty(s, i) ==
  LET p == Min(s.free)
  IN  [mem |-> [s.mem EXCEPT ![s.table][i] = Points(p)],
       free |-> s.free \ {p}, table |-> p, ok |-> TRUE]
NewTable_StillFree(s, i) ==
  LET p == Min(s.free)
  IN  [mem |-> [s.mem EXCEPT ![p] = ZeroPage, ![s.table][i] = Points(p)],
       free |-> s.free, table |-> p, ok |-> TRUE]

NewTable(s, i) ==
  LET p == Min(s.free)
  IN  [mem |-> [s.mem EXCEPT ![p] = ZeroPage, ![s.table][i] = Points(p)],
       free |-> s.free \ {p}, table |-> p, ok |-> TRUE]

(* The table behind entry i, a new zeroed frame if there is none.          *)
get_table(s, i) ==
  IF ~s.ok THEN s
  ELSE CASE s.mem[s.table][i].present -> [s EXCEPT !.table = s.mem[s.table][i].frame]
         [] ~s.mem[s.table][i].present /\ s.free = {} -> [s EXCEPT !.ok = FALSE]
         [] OTHER                     -> NewTable(s, i)

(* Mutant: the index of the second level is used on the third, too.        *)
Reach_WrongIndex(s, v) ==
  get_table(get_table(get_table(s, p4_idx(v)), p3_idx(v)), p3_idx(v))

(* map_page goes down to the last table on the way to page v ...           *)
Reach(s, v) == get_table(get_table(get_table(s, p4_idx(v)), p3_idx(v)), p2_idx(v))

(* ... and overwrites its entry.                                           *)
Mapped(s, v, p) ==
  LET t == Reach(s, v)
  IN  IF t.ok THEN [t EXCEPT !.mem[t.table][p1_idx(v)] = Points(p)] ELSE t

Becomes(s) ==
  /\ mem' = s.mem
  /\ free' = s.free
  /\ halted' = ~s.ok

(* A caller takes a frame for its data; the last one makes it panic.       *)
phys_alloc_page ==
  /\ ~halted
  /\ IF free = {}
     THEN halted' = TRUE /\ UNCHANGED <<mem, free, held>>
     ELSE /\ free' = free \ {Min(free)}
          /\ held' = held \cup {Min(free)}
          /\ mem' = [mem EXCEPT ![Min(free)] = Data]
          /\ UNCHANGED halted
  /\ UNCHANGED <<heap_base, given, tlb>>

map_page(v, p) ==
  /\ ~halted
  /\ InHuge(mem, v) => MapsInHuge
  /\ Becomes(Mapped(Start, v, p))
  /\ UNCHANGED <<held, heap_base, given, tlb>>

(* unmap_page clears the present bit of the last entry of its walk, which  *)
(* is that of the huge page where there is one.                            *)
unmap_page(v) ==
  /\ ~halted
  /\ mem' = CASE ~HasE2(mem, v) -> mem
              [] InHuge(mem, v) -> [mem EXCEPT ![E3(mem, v).frame][p2_idx(v)].present = FALSE]
              [] OTHER          -> [mem EXCEPT ![E2(mem, v).frame][p1_idx(v)].present = FALSE]
  /\ UNCHANGED <<free, held, heap_base, given, tlb, halted>>

(* heap_request_page sets heap_base back before it maps.                   *)
heap_request_page ==
  /\ ~halted
  /\ Cardinality(given) < Requests
  /\ IF free = {}
     THEN halted' = TRUE /\ UNCHANGED <<mem, free, held, heap_base, given>>
     ELSE LET page == Min(free)
              s    == [Start EXCEPT !.free = @ \ {page}, !.mem[page] = Data]
          IN  /\ Becomes(Mapped(s, HEAP_BASE, page))
              /\ held' = held \cup {page}
              /\ given' = given \cup {heap_base}
              /\ heap_base' = HEAP_BASE + 1
  /\ UNCHANGED tlb

(* The CPU accesses page v and remembers where it is.  No code drops what  *)
(* it remembers.                                                           *)
Access(v) ==
  /\ ~halted
  /\ v \notin DOMAIN tlb /\ Walk(mem, v) # NotMapped
  /\ tlb' = [u \in DOMAIN tlb \cup {v} |-> IF u = v THEN Walk(mem, v) ELSE tlb[u]]
  /\ UNCHANGED <<mem, free, held, heap_base, given, halted>>

Next ==
  \/ phys_alloc_page
  \/ \E v \in MapPages, p \in held : map_page(v, p)
  \/ \E v \in UnmapPages : unmap_page(v)
  \/ heap_request_page
  \/ \E v \in CachedPages : Access(v)

Spec == Init /\ [][Next]_vars

-----------------------------------------------------------------------------
TypeOK ==
  /\ mem \in [Frames -> [Index -> Entry]]
  /\ free \subseteq Frames /\ held \subseteq Frames
  /\ heap_base \in Pages /\ given \subseteq Pages
  /\ \A v \in DOMAIN tlb : v \in Pages /\ tlb[v] \in Frames
  /\ halted \in BOOLEAN

(* get_table: the tables form a tree, each with one entry leading to it,   *)
(* and no table is a frame of a caller or one the allocator may hand out.  *)
TablesExclusive ==
  /\ Cardinality(Tables(mem)) = Cardinality(Links(mem)) + 1
  /\ Tables(mem) \cap (free \cup held) = {}

(* map_page, unmap_page and heap_request_page change what they are asked   *)
(* to change of the translation and nothing else.                          *)
HugeBlock(b) == (b * ENTRIES) .. (b * ENTRIES + ENTRIES - 1)
Map == INSTANCE PageMap WITH
         Targets     <- Frames,
         HugePages   <- {HugeBlock(b) : b \in 0..(ENTRIES * ENTRIES * ENTRIES - 1)},
         translation <- [v \in Pages |-> Walk(mem, v)]
TranslationRefines == Map!MapSpec

(* "Map a page into the specified page directory" (pframe.cc:227-229): the *)
(* CPU finds page v in frame p as soon as map_page(v, p) has returned.     *)
MapTakesEffect ==
  [][\A v \in MapPages : \A p \in held : map_page(v, p) => halted' \/ Walk(mem', v) = p]_vars

(* "Physical address of ..." (test_mm): virt_to_phys and the CPU agree.    *)
VirtToPhysAgrees == \A v \in Pages : virt_to_phys(mem, v) = Walk(mem, v)

(* What heap_request_page returns is mapped.                               *)
RequestsMapped == \A v \in given : halted \/ Walk(mem, v) # NotMapped

(* "Unmap the page" (unmap_page): what the CPU remembers is still so.      *)
RemembersCurrent == \A v \in DOMAIN tlb : tlb[v] = Walk(mem, v)
=============================================================================

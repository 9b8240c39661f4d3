-------------------------------- MODULE Heap --------------------------------
(***************************************************************************)
(* The kernel heap of mm/heap.cc and the spinlock of lib/spinlock.cc that  *)
(* is meant to guard it.  Blocks follow each other in the heap, each behind *)
(* its header; a list links the headers, and kmalloc takes the first free  *)
(* block that is long enough and splits it.                                *)
(*                                                                         *)
(* Addresses are offsets from heap_start.  kmalloc returns                 *)
(* `hdr + sizeof(heap_header_t)`, which is HEADER headers behind hdr, and  *)
(* kfree takes what lies HEADER bytes before the pointer for the header;   *)
(* that place is called the shadow header here.  The frames of the heap    *)
(* were zeroed, so a shadow header that nothing else has been written over *)
(* reads as one without neighbours.                                        *)
(***************************************************************************)
EXTENDS Integers, FiniteSets

CONSTANTS
  Callers,    \* tasks that call kmalloc and kfree
  Sizes,      \* what they ask for
  HEADER,     \* sizeof(heap_header_t)
  ROUND_NUM,
  PAGE_SIZE,
  pages,      \* of the initial heap
  WORD,       \* 2^64, the modulus of ulong
  Budget      \* bound: where the last block handed out may end

ASSUME HeapAssumption ==
  /\ IsFiniteSet(Callers)
  /\ Sizes \subseteq Nat \ {0}
  /\ HEADER \in Nat \ {0}
  /\ ROUND_NUM \in Nat \ {0}
  /\ PAGE_SIZE \in Nat /\ PAGE_SIZE > HEADER
  /\ pages \in Nat \ {0}
  /\ WORD \in Nat /\ WORD > pages * PAGE_SIZE
  /\ Budget \in Nat

Null == -1   \* nullptr

VARIABLES
  blocks,  \* the headers, by address
  live,    \* objects handed out and not freed: their block and size
  locked,  \* the lock's flag
  pc,      \* where each caller is in kmalloc
  hdr,     \* the header its search has come to
  size,    \* the size it asked for, rounded up
  phase    \* "ok", "fault" (page fault: the CPU halts), or "wild" (the
           \* search has followed a null pointer)

vars == <<blocks, live, locked, pc, hdr, size, phase>>

-----------------------------------------------------------------------------
heap_end == pages * PAGE_SIZE

(* init_kmalloc maps page i while `i < pages - i`.                         *)
MappedEnd == PAGE_SIZE * Cardinality({i \in 0..(pages - 1) : i < pages - i})

Rounded(n) == IF n % ROUND_NUM = 0 THEN n ELSE n - (n % ROUND_NUM) + ROUND_NUM

(* What kmalloc returns for the block at h.                                *)
Ptr(h) == h + HEADER * HEADER

Header(h) == h .. (h + HEADER - 1)

(* The object and the shadow header before it.                             *)
Footprint(o) == (Ptr(o.hdr) - HEADER) .. (Ptr(o.hdr) + o.size - 1)

Handed == {h \in DOMAIN blocks : ~blocks[h].is_free}

Extent(h) == HEADER + blocks[h].length

Init ==
  /\ blocks = [h \in {0} |-> [length |-> heap_end - HEADER, next |-> Null,
                              last |-> Null, is_free |-> TRUE]]
  /\ live = {}
  /\ locked = 0
  /\ pc = [p \in Callers |-> "idle"]
  /\ hdr = [p \in Callers |-> 0]
  /\ size = [p \in Callers |-> 0]
  /\ phase = "ok"

-----------------------------------------------------------------------------
(* spinlock_t: lock() decides on its local variable `expected`, which is 0, *)
(* and leaves `locked` alone.                                              *)
lock    == UNCHANGED locked
release == locked' = 0

(* Bound: a block of n bytes behind those handed out ends within Budget.    *)
InBudget(n) ==
  /\ HEADER + Rounded(n) <= Budget
  /\ \A h \in Handed : h + Extent(h) + HEADER + Rounded(n) <= Budget

(* kmalloc(n): round up, lock, start at heap_start.                        *)
kmalloc(p, n) ==
  /\ phase = "ok" /\ pc[p] = "idle"
  /\ InBudget(n)
  /\ lock
  /\ size' = [size EXCEPT ![p] = Rounded(n)]
  /\ hdr' = [hdr EXCEPT ![p] = 0]
  /\ pc' = [pc EXCEPT ![p] = "search"]
  /\ UNCHANGED <<blocks, live, phase>>

Fits(p) == blocks[hdr[p]].is_free /\ blocks[hdr[p]].length >= size[p]

(* The block is found ...                                                  *)
found(p) ==
  /\ phase = "ok" /\ pc[p] = "search"
  /\ Fits(p)
  /\ pc' = [pc EXCEPT ![p] = "take"]
  /\ UNCHANGED <<blocks, live, locked, hdr, size, phase>>

(* ... or the search goes on, through a null pointer at the list's end.    *)
search(p) ==
  /\ phase = "ok" /\ pc[p] = "search"
  /\ ~Fits(p)
  /\ IF blocks[hdr[p]].next = Null
     THEN phase' = "wild" /\ UNCHANGED hdr
     ELSE hdr' = [hdr EXCEPT ![p] = blocks[hdr[p]].next] /\ UNCHANGED phase
  /\ UNCHANGED <<blocks, live, locked, pc, size>>

(* split computes the length of the rest without a sign.                   *)
SplitLength(h, n) == (blocks[h].length - n - HEADER) % WORD

SplitsOff(h, n) == /\ blocks[h].length > n
                   /\ n >= ROUND_NUM
                   /\ SplitLength(h, n) >= ROUND_NUM

(* Mutant: the rest's length counts the new header in.                     *)
Rest_Long(h, n) ==
  [length |-> SplitLength(h, n) + HEADER, next |-> blocks[h].next,
   last |-> h, is_free |-> TRUE]

(* The header of what is left of block h behind n bytes.                   *)
Rest(h, n) == [length |-> SplitLength(h, n), next |-> blocks[h].next,
               last |-> h, is_free |-> TRUE]

(* The headers after block h was split behind n bytes.  Writing the `last` *)
(* of a null neighbour goes to low memory and is not modelled.             *)
split(h, n) ==
  LET header == h + n + HEADER
      old    == blocks[h]
  IN  [b \in DOMAIN blocks \cup {header} |->
         CASE b = header   -> Rest(h, n)
           [] b = h        -> [old EXCEPT !.next = header, !.length = n]
           [] b = old.next -> [blocks[b] EXCEPT !.last = header]
           [] OTHER        -> blocks[b]]

(* Mutant: the block stays free.                                           *)
take_StillFree(p) ==
  /\ phase = "ok" /\ pc[p] = "take"
  /\ blocks' = IF SplitsOff(hdr[p], size[p]) THEN split(hdr[p], size[p]) ELSE blocks
  /\ live' = live \cup {[hdr |-> hdr[p], size |-> size[p]]}
  /\ release
  /\ pc' = [pc EXCEPT ![p] = "idle"]
  /\ UNCHANGED <<hdr, size, phase>>

(* The block is split, marked and returned, unless the new header lies in  *)
(* a page that is not mapped.                                              *)
take(p) ==
  /\ phase = "ok" /\ pc[p] = "take"
  /\ LET h == hdr[p]
         n == size[p]
     IN  IF SplitsOff(h, n) /\ h + n + 2 * HEADER > MappedEnd
         THEN /\ phase' = "fault"
              /\ UNCHANGED <<blocks, live, locked, pc>>
         ELSE /\ blocks' = [(IF SplitsOff(h, n) THEN split(h, n) ELSE blocks)
                              EXCEPT ![h].is_free = FALSE]
              /\ live' = live \cup {[hdr |-> h, size |-> n]}
              /\ release
              /\ pc' = [pc EXCEPT ![p] = "idle"]
              /\ UNCHANGED phase
  /\ UNCHANGED <<hdr, size>>

(* kfree marks the shadow header free; both its neighbours read as null,   *)
(* so combine_forward and combine_backward return.                         *)
kfree(p, o) ==
  /\ phase = "ok" /\ pc[p] = "idle"
  /\ live' = live \ {o}
  /\ release
  /\ UNCHANGED <<blocks, pc, hdr, size, phase>>

Next ==
  \E p \in Callers :
    \/ \E n \in Sizes : kmalloc(p, n)
    \/ found(p)
    \/ search(p)
    \/ take(p)
    \/ \E o \in live : kfree(p, o)

Spec == Init /\ [][Next]_vars

-----------------------------------------------------------------------------
(* Links lead to headers, sizes are whole multiples of ROUND_NUM.          *)
TypeOK ==
  /\ \A h \in DOMAIN blocks :
       /\ blocks[h].length \in 0..(WORD - 1)
       /\ {blocks[h].next, blocks[h].last} \subseteq DOMAIN blocks \cup {Null}
       /\ blocks[h].is_free \in BOOLEAN
  /\ live \subseteq [hdr : DOMAIN blocks, size : Nat]
  /\ \A p \in Callers : size[p] % ROUND_NUM = 0
  /\ locked \in {0, 1}
  /\ pc \in [Callers -> {"idle", "search", "take"}]
  /\ phase \in {"ok", "fault", "wild"}

(* The list covers the heap: each block ends where the next header begins, *)
(* the last one at heap_end, and `last` undoes `next`.                     *)
Tiling ==
  /\ blocks[0].last = Null
  /\ \A h \in DOMAIN blocks :
       LET end == h + HEADER + blocks[h].length
       IN  IF blocks[h].next = Null THEN end = heap_end
           ELSE blocks[h].next = end /\ blocks[end].last = h

(* No two objects share a byte, nor does the header that kfree will look   *)
(* for in front of one lie in another.                                     *)
ObjectsDisjoint ==
  \A o, q \in live : o # q => Footprint(o) \cap Footprint(q) = {}

(* No header is written into an object or a shadow header.                 *)
HeadersApart ==
  \A h \in DOMAIN blocks : \A o \in live : Header(h) \cap Footprint(o) = {}

(* spinlock.cc: a caller that has "successfully acquired" the lock is alone. *)
MutualExclusion == Cardinality({p \in Callers : pc[p] # "idle"}) <= 1

(* A block that is not free belongs to an object in use, so what kfree was *)
(* given can be handed out again.                                          *)
FreedBlocksReturn == \A h \in Handed : \E o \in live : o.hdr = h

(* kmalloc ends with a block or a bigger heap, never behind the list.      *)
NoWildSearch == phase # "wild"

(* The heap's pages are mapped when they are used.                         *)
NoFault == phase # "fault"
=============================================================================

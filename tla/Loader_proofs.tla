--------------------------- MODULE Loader_proofs ---------------------------
(***************************************************************************)
(* Theorems about the boot loader's second stage, for any machines: what   *)
(* it loads stays where it put it, and its page tables stay page tables.   *)
(***************************************************************************)
EXTENDS Loader, FiniteSetsExt, FiniteSetTheorems, WellFoundedInduction, TLAPS

-----------------------------------------------------------------------------
(* Sets of natural numbers.                                                *)
(* A set of natural numbers that has an element has a least one.           *)
LEMMA LeastNat ==
  ASSUME NEW T \in SUBSET Nat, T # {}
  PROVE  \E c \in T : \A m \in T : c <= m
<1> DEFINE R == OpToRel(<, Nat)
<1>1. \A x, y \in Nat : x < y => <<x, y>> \in R
  BY DEF OpToRel
<1>2. IsWellFoundedOn(R, Nat)
  BY NatLessThanWellFounded
<1> HIDE DEF R
<1>3. PICK x \in T : \A y \in T : <<y, x>> \notin R
  BY <1>2, WFMin
<1>4. \A y \in T : ~(y < x)
  BY <1>1, <1>3
<1> QED
  BY <1>4

(* A set that contains 0, and with a number the next one, contains them all. *)
LEMMA SetInduction ==
  ASSUME NEW T, 0 \in T, \A c \in Nat : c \in T => c + 1 \in T
  PROVE  Nat \subseteq T
<1> SUFFICES ASSUME Nat \ T # {}
             PROVE  FALSE
  OBVIOUS
<1>1. PICK c \in Nat \ T : \A m \in Nat \ T : c <= m
  <2>1. Nat \ T \in SUBSET Nat
    OBVIOUS
  <2> QED
    BY <2>1, LeastNat
<1>2. c - 1 \in Nat /\ ~(c <= c - 1)
  BY <1>1
<1>3. c - 1 \in T
  BY <1>1, <1>2
<1> QED
  BY <1>1, <1>2, <1>3

(* An element of a set.                                                    *)
Pick(s) == CHOOSE x \in s : TRUE

(* What is left of a set without its picked element is one smaller.         *)
LEMMA RestIsSmaller ==
  ASSUME NEW S, IsFiniteSet(S), NEW s \in SUBSET S, s # {}
  PROVE  /\ Pick(s) \in s /\ s \ {Pick(s)} \in SUBSET S
         /\ Cardinality(s) \in Nat /\ Cardinality(s \ {Pick(s)}) = Cardinality(s) - 1
<1>1. Pick(s) \in s
  BY DEF Pick
<1>2. IsFiniteSet(s) /\ Cardinality(s) \in Nat
  BY FS_Subset, FS_CardinalityType
<1>3. Cardinality(s \ {Pick(s)}) = Cardinality(s) - 1
  BY <1>1, <1>2, FS_RemoveElement
<1> QED
  BY <1>1, <1>2, <1>3

(* Among finitely many things the greatest measure is some thing's.         *)
LEMMA FiniteHasGreatest ==
  ASSUME NEW S, IsFiniteSet(S), S # {}, NEW f \in [S -> Nat]
  PROVE  \E x \in S : \A y \in S : f[y] <= f[x]
<1> DEFINE Greatest(s) == \E x \in s : \A y \in s : f[y] <= f[x]
<1> DEFINE T == {c \in Nat : \A s \in SUBSET S : s # {} /\ Cardinality(s) <= c => Greatest(s)}
<1>1. 0 \in T
  <2>1. \A s \in SUBSET S : Cardinality(s) <= 0 => s = {}
    BY FS_Subset, FS_CardinalityType, FS_EmptySet
  <2> QED
    BY <2>1
<1>2. ASSUME NEW c \in Nat, c \in T
      PROVE  c + 1 \in T
  <2>1. ASSUME NEW s \in SUBSET S, s # {}, Cardinality(s) <= c + 1
        PROVE  Greatest(s)
    <3> DEFINE p == Pick(s)
    <3>1. p \in s /\ p \in S /\ s \ {p} \in SUBSET S /\ Cardinality(s \ {p}) <= c
      BY <2>1, RestIsSmaller
    <3> HIDE DEF p
    <3>2. CASE s \ {p} = {}
      BY <3>1, <3>2
    <3>3. CASE s \ {p} # {}
      <4>1. PICK x \in s \ {p} : \A y \in s \ {p} : f[y] <= f[x]
        BY <1>2, <3>1, <3>3
      <4>2. CASE f[p] <= f[x]
        BY <4>1, <4>2
      <4>3. CASE ~(f[p] <= f[x])
        <5>1. \A y \in s : f[y] \in Nat
          OBVIOUS
        <5>2. \A y \in s : f[y] <= f[p]
          BY <3>1, <4>1, <4>3, <5>1
        <5> QED
          BY <3>1, <5>2
      <4> QED
        BY <4>2, <4>3
    <3> QED
      BY <3>2, <3>3
  <2> QED
    BY <2>1
<1> HIDE DEF T
<1>3. Nat \subseteq T
  BY <1>1, <1>2, SetInduction
<1>4. Cardinality(S) \in T
  BY <1>3, FS_CardinalityType
<1> QED
  BY <1>4 DEF T

-----------------------------------------------------------------------------

(* A memory has just the fields of LoaderMemory.                           *)
Fields == {"uefi", "file_buf", "table", "data", "free", "hack_buf", "ptrs", "ram", "memmap",
           "ok", "wild"}
IsMem(m) == m = [x \in Fields |-> m[x]]

(* The pages that are still to be handed out.                              *)
Spare(m) == IF m.uefi THEN m.free ELSE {p \in Nat : PageOf(m.file_buf) <= p}

(* What will go back to the firmware.                                      *)
Lent(m) == m.hack_buf \cup UNION {Run(x[1], x[2]) : x \in {m.ptrs[k] : k \in DOMAIN m.ptrs}}

(* The firmware's memory has an end.                                       *)
Limited(m) == IsFiniteSet(m.free \cup Lent(m))

Sound(m) ==
  /\ IsMem(m) /\ Limited(m)
  /\ {m.uefi, m.ok, m.wild} \subseteq BOOLEAN
  /\ m.free \subseteq Nat /\ m.hack_buf \subseteq Nat
  /\ m.ptrs \in Seq(Nat \X Nat)
  /\ m.file_buf \in Nat /\ m.file_buf % PAGE = 0
  /\ m.ram \in Nat
  /\ DOMAIN m.data \subseteq Nat

(* The tables lead to tables, and neither they nor the spare pages are     *)
(* among what will go back.                                                *)
EntryLeads(m, e) ==
  /\ e.kind \in {"none", "table", "huge", "page"}
  /\ e.kind = "table" => e.page \in DOMAIN m.table

Leads(m) ==
  /\ pt \in DOMAIN m.table
  /\ DOMAIN m.table \subseteq Nat /\ DOMAIN m.table \cap Spare(m) = {}
  /\ \A p \in DOMAIN m.table : DOMAIN m.table[p] = Slots
  /\ \A p \in DOMAIN m.table : \A j \in Slots : EntryLeads(m, m.table[p][j])
  /\ m.uefi => Lent(m) \cap (m.free \cup DOMAIN m.table) = {}
  /\ ~m.wild

(* From m to r the loader has only handed out spare pages, or lent them.   *)
Keeps(m, r) ==
  /\ Sound(r)
  /\ r.uefi = m.uefi /\ r.ram = m.ram /\ r.memmap = m.memmap
  /\ Spare(r) \subseteq Spare(m) /\ Lent(m) \subseteq Lent(r)
  /\ \A u \in DOMAIN m.data : PageOf(u) \notin Spare(m) =>
       u \in DOMAIN r.data /\ r.data[u] = m.data[u]
  /\ Leads(m) => Leads(r) /\ DOMAIN m.table \subseteq DOMAIN r.table

LEMMA KeepsOn ==
  ASSUME NEW m, NEW r, NEW s, Keeps(m, r), Keeps(r, s)
  PROVE  Keeps(m, s)
BY DEF Keeps

LEMMA KeepsItself ==
  ASSUME NEW m, Sound(m)
  PROVE  Keeps(m, m)
BY DEF Keeps

(* Pages and units.                                                        *)
LEMMA PageFacts ==
  ASSUME NEW u \in Nat
  PROVE  /\ PageOf(u) \in Nat
         /\ \A p \in Nat : u \in Units(p, 1) <=> PageOf(u) = p
         /\ \A p, c \in Nat : u \in Units(p, c) => PageOf(u) \in Run(p, c)
         /\ \A v \in Nat : v <= u => PageOf(v) <= PageOf(u)
         /\ Round(u) \in Nat /\ u <= Round(u) /\ Round(u) % PAGE = 0 /\ Unit(PageOf(Round(u))) = Round(u)
         /\ PageOf(Unit(u)) = u /\ Unit(u) \in Nat /\ Unit(u) % PAGE = 0
BY DEF PageOf, Units, Unit, PAGE, Run, Round

LEMMA NextPage ==
  ASSUME NEW u \in Nat, u % PAGE = 0, NEW c \in Nat, c % PAGE = 0
  PROVE  /\ PageOf(u + PAGE) = PageOf(u) + 1 /\ u + PAGE \in Nat /\ (u + PAGE) % PAGE = 0
         /\ u + c \in Nat /\ (u + c) % PAGE = 0 /\ PageOf(u) <= PageOf(u + c)
         /\ PageOf(u + c) = PageOf(u) + PageOf(c)
         /\ u = Unit(PageOf(u))
BY DEF PageOf, PAGE, Unit

LEMMA LimitedStays ==
  ASSUME NEW m, NEW r, Limited(m),
         r.free \subseteq m.free, r.ptrs = m.ptrs, r.hack_buf = m.hack_buf
  PROVE  Limited(r) /\ Lent(r) = Lent(m)
<1>1. Lent(r) = Lent(m)
  BY DEF Lent
<1>2. r.free \cup Lent(r) \subseteq m.free \cup Lent(m)
  BY <1>1
<1> QED
  BY <1>1, <1>2, FS_Subset DEF Limited

(* A memory in which only these fields have changed is as sound.           *)
LEMMA SoundStays ==
  ASSUME NEW m, NEW r, Sound(m), IsMem(r), {r.ok, r.wild} \subseteq BOOLEAN,
         r.free \subseteq m.free, r.ptrs = m.ptrs, r.hack_buf = m.hack_buf,
         r.uefi = m.uefi, r.ram = m.ram, r.file_buf \in Nat, r.file_buf % PAGE = 0,
         DOMAIN r.data \subseteq Nat
  PROVE  Sound(r) /\ Lent(r) = Lent(m)
<1>1. Limited(r) /\ Lent(r) = Lent(m)
  BY LimitedStays DEF Sound
<1> QED
  BY <1>1 DEF Sound

LEMMA AnyPagesFits ==
  ASSUME NEW m, Sound(m), NEW c \in Nat, AnyPages(m, c) # Nowhere
  PROVE  AnyPages(m, c) \in m.free /\ Run(AnyPages(m, c), c) \subseteq m.free
<1> DEFINE fit == {p \in m.free : Run(p, c) \subseteq m.free}
<1>1. fit # {} /\ fit \in SUBSET Nat /\ fit \subseteq m.free \cup Lent(m)
  BY DEF AnyPages, Sound
<1>2. IsFiniteSet(fit)
  BY <1>1, FS_Subset DEF Sound, Limited
<1>3. \E p \in fit : \A q \in fit : q <= p
  <2> DEFINE f == [p \in fit |-> p]
  <2>1. f \in [fit -> Nat]
    BY <1>1
  <2> HIDE DEF fit
  <2>2. \E p \in fit : \A q \in fit : f[q] <= f[p]
    <3> HIDE DEF f
    <3> QED
      BY <1>1, <1>2, <2>1, FiniteHasGreatest
  <2> QED
    BY <2>2
<1>4. AnyPages(m, c) \in fit
  BY <1>1, <1>3 DEF AnyPages
<1> QED
  BY <1>4

LEMMA AnyPagesType ==
  ASSUME NEW m, Sound(m), NEW c \in Nat
  PROVE  AnyPages(m, c) \in Int /\ (AnyPages(m, c) # Nowhere => AnyPages(m, c) \in Nat)
<1>1. CASE AnyPages(m, c) = Nowhere
  BY <1>1 DEF Nowhere
<1>2. CASE AnyPages(m, c) # Nowhere
  <2>1. AnyPages(m, c) \in m.free
    BY <1>2, AnyPagesFits
  <2> QED
    BY <1>2, <2>1 DEF Sound
<1> QED
  BY <1>1, <1>2

(* A table of its own for the loader.                                      *)
LEMMA TableTaken ==
  ASSUME NEW m, Sound(m), TableAlloc(m).ok
  PROVE  /\ NewPageOf(m) \in Spare(m)
         /\ Spare(TableAlloc(m)) \subseteq Spare(m) \ {NewPageOf(m)}
         /\ Sound(TableAlloc(m))
         /\ TableAlloc(m).data = [u \in DOMAIN m.data \ Units(NewPageOf(m), 1) |-> m.data[u]]
         /\ TableAlloc(m).table = [q \in DOMAIN m.table \cup {NewPageOf(m)} |->
                                     IF q = NewPageOf(m) THEN EmptyTable ELSE m.table[q]]
         /\ TableAlloc(m).uefi = m.uefi /\ TableAlloc(m).wild = m.wild
         /\ TableAlloc(m).ram = m.ram /\ TableAlloc(m).memmap = m.memmap
         /\ TableAlloc(m).ptrs = m.ptrs /\ TableAlloc(m).hack_buf = m.hack_buf
<1>1. CASE ~m.uefi
  <2>1. TableAlloc(m) = bios_alloc(m) /\ NewPageOf(m) = PageOf(m.file_buf)
    BY <1>1 DEF TableAlloc, NewPageOf
  <2>2. PageOf(m.file_buf) \in Nat /\ PageOf(m.file_buf + PAGE) = PageOf(m.file_buf) + 1
        /\ m.file_buf + PAGE \in Nat /\ (m.file_buf + PAGE) % PAGE = 0
    BY PageFacts, NextPage DEF Sound, PAGE
  <2>3. /\ bios_alloc(m).file_buf = m.file_buf + PAGE /\ bios_alloc(m).uefi = m.uefi
        /\ bios_alloc(m).free = m.free /\ bios_alloc(m).hack_buf = m.hack_buf
        /\ bios_alloc(m).ptrs = m.ptrs /\ bios_alloc(m).ram = m.ram
        /\ bios_alloc(m).memmap = m.memmap /\ bios_alloc(m).wild = m.wild
        /\ bios_alloc(m).ok = TRUE /\ IsMem(bios_alloc(m))
        /\ bios_alloc(m).data = [u \in DOMAIN m.data \ Units(PageOf(m.file_buf), 1) |-> m.data[u]]
        /\ bios_alloc(m).table = [q \in DOMAIN m.table \cup {PageOf(m.file_buf)} |->
                                     IF q = PageOf(m.file_buf) THEN EmptyTable ELSE m.table[q]]
    BY DEF bios_alloc, NewTable, Sound, IsMem, Fields
  <2> DEFINE r == bios_alloc(m)
  <2>4. Sound(r)
    <3>1. {r.ok, r.wild} \subseteq BOOLEAN /\ r.free \subseteq m.free /\ DOMAIN r.data \subseteq Nat
      BY <2>3 DEF Sound
    <3>2. r.ptrs = m.ptrs /\ r.hack_buf = m.hack_buf /\ r.uefi = m.uefi /\ r.ram = m.ram /\ IsMem(r)
          /\ r.file_buf \in Nat /\ r.file_buf % PAGE = 0
      BY <2>2, <2>3
    <3> HIDE DEF r
    <3> QED
      BY <3>1, <3>2, SoundStays
  <2> QED
    BY <1>1, <2>1, <2>2, <2>3, <2>4 DEF Spare
<1>2. CASE m.uefi
  <2> DEFINE p == AnyPages(m, 1)
  <2>1. TableAlloc(m) = efi_alloc(m) /\ NewPageOf(m) = p
    BY <1>2 DEF TableAlloc, NewPageOf
  <2>2. p # Nowhere
    BY <2>1 DEF efi_alloc, Sound, IsMem, Fields
  <2>3. p \in m.free
    BY <2>2, AnyPagesFits
  <2> HIDE DEF p
  <2> DEFINE r == efi_alloc(m)
  <2>4. /\ r.file_buf = m.file_buf /\ r.uefi = m.uefi
        /\ r.free = m.free \ {p} /\ r.hack_buf = m.hack_buf
        /\ r.ptrs = m.ptrs /\ r.ram = m.ram
        /\ r.memmap = m.memmap /\ r.wild = m.wild
        /\ r.ok = TRUE /\ IsMem(r)
        /\ r.data = [u \in DOMAIN m.data \ Units(p, 1) |-> m.data[u]]
        /\ r.table = [q \in DOMAIN m.table \cup {p} |->
                                     IF q = p THEN EmptyTable ELSE m.table[q]]
    BY <2>2 DEF efi_alloc, NewTable, Sound, IsMem, Fields, p
  <2>5. Sound(r)
    <3>1. {r.ok, r.wild} \subseteq BOOLEAN /\ r.free \subseteq m.free /\ DOMAIN r.data \subseteq Nat
          /\ r.file_buf \in Nat /\ r.file_buf % PAGE = 0
      BY <2>4 DEF Sound
    <3>2. r.ptrs = m.ptrs /\ r.hack_buf = m.hack_buf /\ r.uefi = m.uefi /\ r.ram = m.ram /\ IsMem(r)
      BY <2>4
    <3> HIDE DEF r
    <3> QED
      BY <3>1, <3>2, SoundStays
  <2> QED
    BY <1>2, <2>1, <2>3, <2>4, <2>5 DEF Spare
<1> QED
  BY <1>1, <1>2 DEF Sound

(* Gone wild.                                                              *)
LEMMA Gone ==
  ASSUME NEW m, Sound(m), ~Leads(m)
  PROVE  LET mw == [m EXCEPT !.wild = TRUE]
         IN Sound(mw) /\ Keeps(m, mw) /\ ~Leads(mw) /\ mw.ok = m.ok /\ mw.uefi = m.uefi
<1> DEFINE mw == [m EXCEPT !.wild = TRUE]
<1>1. /\ IsMem(mw) /\ mw.uefi = m.uefi /\ mw.file_buf = m.file_buf /\ mw.table = m.table
      /\ mw.data = m.data /\ mw.free = m.free /\ mw.hack_buf = m.hack_buf /\ mw.ptrs = m.ptrs
      /\ mw.ram = m.ram /\ mw.memmap = m.memmap /\ mw.ok = m.ok /\ mw.wild = TRUE
  BY DEF Sound, IsMem, Fields
<1> HIDE DEF mw
<1>2. Sound(mw)
  <2>1. {mw.ok, mw.wild} \subseteq BOOLEAN /\ mw.file_buf \in Nat /\ mw.file_buf % PAGE = 0
        /\ DOMAIN mw.data \subseteq Nat /\ mw.free \subseteq m.free
    BY <1>1 DEF Sound
  <2> QED
    BY <1>1, <2>1, SoundStays
<1>3. Spare(mw) = Spare(m)
  BY <1>1 DEF Spare
<1>4. Lent(mw) = Lent(m)
  BY <1>1 DEF Lent
<1>5. Keeps(m, mw) /\ ~Leads(mw)
  BY <1>1, <1>2, <1>3, <1>4 DEF Keeps, Leads
<1> QED
  BY <1>1, <1>2, <1>5 DEF mw

(* The walk of fw_map, where it has come to.                               *)
Walking(r) ==
  /\ Sound(r.m)
  /\ r = [m |-> r.m, at |-> r.at, next |-> r.next]
  /\ Leads(r.m) => r.at \in DOMAIN r.m.table
  /\ ~r.m.uefi => r.m.ok

LEMMA IndexIsSlot ==
  ASSUME NEW vp \in Int, NEW level \in 1..4
  PROVE  Index(vp, level) \in Slots
<1>1. Weight[level] \in Nat \ {0}
  <2>1. \A a, b \in Nat \ {0} : a * b \in Nat \ {0}
    OBVIOUS
  <2>2. Radix * Radix \in Nat \ {0} /\ Radix * Radix * Radix \in Nat \ {0}
    BY <2>1, MemoryAssumption
  <2> QED
    BY <2>2, MemoryAssumption DEF Weight
<1> DEFINE q == vp \div Weight[level]
<1>2. q \in Int
  BY <1>1
<1> HIDE DEF q
<1>3. q % Radix \in 0..Radix - 1
  BY <1>2, MemoryAssumption
<1> QED
  BY <1>3 DEF Index, Slots, q

LEMMA DownKeeps ==
  ASSUME NEW r, Walking(r), NEW vp \in Int, NEW level \in 1..4
  PROVE  /\ Walking(Down(r, vp, level))
         /\ Keeps(r.m, Down(r, vp, level).m)
<1> DEFINE j   == Index(vp, level)
           e   == EntryAt(r.m, r.at, j)
           new == NewPageOf(r.m)
           m1  == TableAlloc(r.m)
           d   == Down(r, vp, level)
<1>1. j \in Slots
  BY IndexIsSlot
<1>2. Keeps(r.m, r.m)
  BY KeepsItself DEF Walking
<1>3. Leads(r.m) => e = r.m.table[r.at][j] /\ e.kind # "garbage"
  BY <1>1 DEF Walking, Leads, EntryAt, EntryLeads
<1>d. d = IF ~r.m.ok \/ r.m.wild THEN r
          ELSE IF e.kind = "table" THEN [r EXCEPT !.at = e.page]
          ELSE IF e.kind = "garbage" THEN [r EXCEPT !.m.wild = TRUE]
          ELSE IF ~m1.ok THEN [r EXCEPT !.m = m1]
          ELSE [r EXCEPT !.at = new, !.m = [m1 EXCEPT !.table[r.at][j] = Table(new)]]
  BY DEF Down
<1>r. r = [m |-> r.m, at |-> r.at, next |-> r.next] /\ Sound(r.m) /\ {r.m.ok, r.m.wild} \subseteq BOOLEAN
  BY DEF Walking, Sound
<1>w. (Leads(r.m) => r.at \in DOMAIN r.m.table) /\ (~r.m.uefi => r.m.ok)
  BY DEF Walking
<1> SUFFICES Walking(d) /\ Keeps(r.m, d.m)
  OBVIOUS
<1>t. m1.ok => /\ new \in Spare(r.m)
               /\ Spare(m1) \subseteq Spare(r.m) \ {new}
               /\ Sound(m1)
               /\ m1.data = [u \in DOMAIN r.m.data \ Units(new, 1) |-> r.m.data[u]]
               /\ m1.table = [q \in DOMAIN r.m.table \cup {new} |->
                                     IF q = new THEN EmptyTable ELSE r.m.table[q]]
               /\ m1.uefi = r.m.uefi /\ m1.wild = r.m.wild
               /\ m1.ram = r.m.ram /\ m1.memmap = r.m.memmap
               /\ m1.ptrs = r.m.ptrs /\ m1.hack_buf = r.m.hack_buf
  BY <1>r, TableTaken
<1>c. ~m1.ok => m1 = [r.m EXCEPT !.ok = FALSE] /\ r.m.uefi
  <2>1. bios_alloc(r.m).ok /\ (AnyPages(r.m, 1) # Nowhere => efi_alloc(r.m).ok)
    BY <1>r DEF bios_alloc, efi_alloc, NewTable, Sound, IsMem, Fields
  <2> QED
    BY <2>1 DEF TableAlloc, efi_alloc
<1> HIDE DEF d, m1, new, e, j
<1>4. CASE ~r.m.ok \/ r.m.wild
  BY <1>2, <1>4, <1>d
<1>5. CASE r.m.ok /\ ~r.m.wild /\ e.kind = "table"
  <2>1. d = [r EXCEPT !.at = e.page]
    BY <1>5, <1>d
  <2>2. d = [m |-> r.m, at |-> e.page, next |-> r.next]
    BY <1>r, <2>1
  <2>3. Leads(r.m) => e.page \in DOMAIN r.m.table
    BY <1>1, <1>3, <1>5, <1>w DEF Leads, EntryLeads
  <2> QED
    BY <1>2, <1>r, <1>w, <2>2, <2>3 DEF Walking
<1>6. CASE r.m.ok /\ ~r.m.wild /\ e.kind = "garbage"
  <2>1. d = [r EXCEPT !.m.wild = TRUE]
    BY <1>6, <1>d
  <2> DEFINE mw == [r.m EXCEPT !.wild = TRUE]
  <2>2. d = [m |-> mw, at |-> r.at, next |-> r.next]
    BY <1>r, <2>1
  <2>3. ~Leads(r.m)
    BY <1>3, <1>6
  <2>4. Sound(mw) /\ Keeps(r.m, mw) /\ ~Leads(mw) /\ mw.ok = r.m.ok /\ mw.uefi = r.m.uefi
    BY <1>r, <2>3, Gone
  <2> HIDE DEF mw
  <2> QED
    BY <1>w, <2>2, <2>4 DEF Walking
<1>7. CASE r.m.ok /\ ~r.m.wild /\ e.kind \notin {"table", "garbage"} /\ ~m1.ok
  <2>1. d = [r EXCEPT !.m = m1]
    BY <1>7, <1>d
  <2>2. d = [m |-> m1, at |-> r.at, next |-> r.next]
    BY <1>r, <2>1
  <2>3. Sound(m1) /\ Keeps(r.m, m1) /\ m1.table = r.m.table /\ (Leads(m1) => Leads(r.m))
    <3>1. /\ Sound(m1) /\ m1.table = r.m.table /\ m1.data = r.m.data /\ m1.uefi = r.m.uefi
          /\ m1.ram = r.m.ram /\ m1.memmap = r.m.memmap /\ m1.ptrs = r.m.ptrs
          /\ m1.hack_buf = r.m.hack_buf /\ m1.free = r.m.free /\ m1.wild = r.m.wild
          /\ Spare(m1) = Spare(r.m)
      <4>1. /\ IsMem(m1) /\ m1.table = r.m.table /\ m1.data = r.m.data /\ m1.uefi = r.m.uefi
            /\ m1.ram = r.m.ram /\ m1.memmap = r.m.memmap /\ m1.ptrs = r.m.ptrs
            /\ m1.hack_buf = r.m.hack_buf /\ m1.free = r.m.free /\ m1.wild = r.m.wild
            /\ m1.file_buf = r.m.file_buf /\ m1.ok = FALSE
        BY <1>r, <1>c, <1>7 DEF Sound, IsMem, Fields
      <4>2. Sound(m1)
        BY <1>r, <4>1, SoundStays DEF Sound
      <4> QED
        BY <4>1, <4>2 DEF Spare
    <3>2. Lent(m1) = Lent(r.m)
      BY <3>1 DEF Lent
    <3>3. Leads(m1) <=> Leads(r.m)
      BY <3>1, <3>2 DEF Leads, EntryLeads
    <3> QED
      BY <3>1, <3>2, <3>3 DEF Keeps
  <2> QED
    BY <1>c, <1>w, <1>7, <2>2, <2>3 DEF Walking, Keeps
<1>8. CASE r.m.ok /\ ~r.m.wild /\ e.kind \notin {"table", "garbage"} /\ m1.ok
  <2> DEFINE m2 == [m1 EXCEPT !.table[r.at][j] = Table(new)]
  <2>1. d = [r EXCEPT !.at = new, !.m = m2]
    BY <1>8, <1>d
  <2>2. d = [m |-> m2, at |-> new, next |-> r.next]
    BY <1>r, <2>1
  <2>3. /\ IsMem(m2) /\ m2.uefi = m1.uefi /\ m2.ok = m1.ok /\ m2.wild = m1.wild /\ m2.free = m1.free
        /\ m2.hack_buf = m1.hack_buf /\ m2.ptrs = m1.ptrs /\ m2.file_buf = m1.file_buf
        /\ m2.ram = m1.ram /\ m2.memmap = m1.memmap /\ m2.data = m1.data
        /\ m2.table = [m1.table EXCEPT ![r.at][j] = Table(new)]
    BY <1>8, <1>t DEF Sound, IsMem, Fields
  <2> HIDE DEF m2
  <2>4. Sound(m2) /\ Spare(m2) = Spare(m1)
    <3>1. Sound(m2)
      BY <1>8, <1>t, <2>3, SoundStays DEF Sound
    <3> QED
      BY <2>3, <3>1 DEF Spare
  <2>5. Leads(r.m) => Leads(m2) /\ DOMAIN m2.table = DOMAIN r.m.table \cup {new}
    <3> SUFFICES ASSUME Leads(r.m)
                 PROVE  Leads(m2) /\ DOMAIN m2.table = DOMAIN r.m.table \cup {new}
      OBVIOUS
    <3>1. r.at \in DOMAIN r.m.table /\ new \notin DOMAIN r.m.table /\ new \in Nat
      BY <1>r, <1>t, <1>w, <1>8 DEF Leads, Spare, Sound
    <3>2. /\ DOMAIN m2.table = DOMAIN r.m.table \cup {new}
          /\ m2.table[new] = EmptyTable
          /\ \A p \in DOMAIN r.m.table \ {r.at} : m2.table[p] = r.m.table[p]
          /\ m2.table[r.at] = [r.m.table[r.at] EXCEPT ![j] = Table(new)]
      BY <1>t, <1>8, <2>3, <3>1
    <3>3. \A p \in DOMAIN m2.table : DOMAIN m2.table[p] = Slots
      BY <3>1, <3>2 DEF Leads, EmptyTable
    <3>4. \A p \in DOMAIN r.m.table : \A i1 \in Slots : EntryLeads(m2, r.m.table[p][i1])
      BY <3>2 DEF Leads, EntryLeads
    <3>5. EntryLeads(m2, Table(new)) /\ EntryLeads(m2, NoEntry)
      BY <3>2 DEF EntryLeads, Table, NoEntry
    <3>6. \A p \in DOMAIN m2.table : \A i1 \in Slots : EntryLeads(m2, m2.table[p][i1])
      BY <1>1, <3>1, <3>2, <3>4, <3>5 DEF Leads, EmptyTable
    <3>7. Lent(m2) = Lent(r.m)
      BY <1>t, <1>8, <2>3 DEF Lent
    <3>8. m2.uefi => m2.free \subseteq r.m.free /\ new \in r.m.free
      BY <1>t, <1>8, <2>3 DEF Spare
    <3>9. m2.uefi => Lent(m2) \cap (m2.free \cup DOMAIN m2.table) = {}
      <4>1. r.m.uefi => Lent(r.m) \cap (r.m.free \cup DOMAIN r.m.table) = {}
        BY DEF Leads
      <4>2. m2.uefi = r.m.uefi
        BY <1>t, <1>8, <2>3
      <4> QED
        BY <3>2, <3>7, <3>8, <4>1, <4>2
    <3> QED
      BY <1>t, <1>8, <2>3, <2>4, <3>1, <3>2, <3>3, <3>6, <3>9 DEF Leads
  <2>6. Keeps(r.m, m2)
    <3>1. ASSUME NEW u \in DOMAIN r.m.data, PageOf(u) \notin Spare(r.m)
          PROVE  u \in DOMAIN m2.data /\ m2.data[u] = r.m.data[u]
      <4>1. u \in Nat
        BY <1>r DEF Sound
      <4>2. new \in Nat
        BY <1>r, <1>t, <1>8 DEF Spare, Sound
      <4>3. u \notin Units(new, 1)
        BY <1>t, <1>8, <3>1, <4>1, <4>2, PageFacts
      <4> QED
        BY <1>t, <1>8, <2>3, <3>1, <4>3
    <3>2. Lent(m2) = Lent(r.m)
      BY <1>t, <1>8, <2>3 DEF Lent
    <3> QED
      BY <1>t, <1>8, <2>3, <2>4, <2>5, <3>1, <3>2 DEF Keeps
  <2>7. new \in DOMAIN m2.table
    BY <1>8, <1>t, <2>3
  <2> QED
    BY <1>t, <1>8, <2>2, <2>3, <2>4, <2>6, <2>7 DEF Walking
<1> QED
  BY <1>4, <1>5, <1>6, <1>7, <1>8, <1>r

(* One page of the walk.                                                   *)
LEMMA ReachKeeps ==
  ASSUME NEW r, Walking(r), NEW vp \in Int
  PROVE  Walking(Reach(r, vp)) /\ Keeps(r.m, Reach(r, vp).m)
<1> DEFINE r0 == [r EXCEPT !.at = pt]
           r1 == Down(r0, vp, 4)
           r2 == Down(r1, vp, 3)
           r3 == Down(r2, vp, 2)
           e  == EntryAt(r3.m, r3.at, Index(vp, 1))
           s  == Reach(r, vp)
<1>1. Walking(r0) /\ r0.m = r.m
  <2>1. r0 = [m |-> r.m, at |-> pt, next |-> r.next]
    BY DEF Walking
  <2> QED
    BY <2>1 DEF Walking, Leads
<1>5. s = IF ~r3.m.ok \/ r3.m.wild THEN r3
          ELSE IF e.kind = "garbage" THEN [r3 EXCEPT !.m.wild = TRUE]
          ELSE IF e.kind = "none" THEN [r3 EXCEPT !.next = Append(@, <<r3.at, Index(vp, 1)>>)]
          ELSE r3
  BY DEF Reach
<1> SUFFICES Walking(s) /\ Keeps(r.m, s.m)
  OBVIOUS
<1> HIDE DEF s, e, r3, r2, r1, r0
<1>2. Walking(r1) /\ Keeps(r0.m, r1.m)
  BY <1>1, DownKeeps DEF r1
<1>3. Walking(r2) /\ Keeps(r1.m, r2.m)
  BY <1>2, DownKeeps DEF r2
<1>4. Walking(r3) /\ Keeps(r2.m, r3.m)
  BY <1>3, DownKeeps DEF r3
<1>6. Keeps(r.m, r3.m)
  BY <1>1, <1>2, <1>3, <1>4, KeepsOn
<1>7. Leads(r3.m) => e.kind # "garbage"
  <2>1. Index(vp, 1) \in Slots
    BY IndexIsSlot
  <2> QED
    BY <1>4, <2>1 DEF Walking, Leads, EntryAt, EntryLeads, e
<1>8. CASE s = r3
  BY <1>4, <1>6, <1>8
<1>9. CASE s = [r3 EXCEPT !.m.wild = TRUE] /\ ~Leads(r3.m)
  <2> DEFINE mw == [r3.m EXCEPT !.wild = TRUE]
  <2>1. s = [m |-> mw, at |-> r3.at, next |-> r3.next]
    BY <1>4, <1>9 DEF Walking
  <2>2. Sound(mw) /\ Keeps(r3.m, mw) /\ ~Leads(mw) /\ mw.ok = r3.m.ok /\ mw.uefi = r3.m.uefi
    <3>1. Sound(r3.m)
      BY <1>4 DEF Walking
    <3> QED
      BY <1>9, <3>1, Gone
  <2> HIDE DEF mw
  <2> QED
    BY <1>4, <1>6, <2>1, <2>2, KeepsOn DEF Walking
<1>10. CASE s = [r3 EXCEPT !.next = Append(@, <<r3.at, Index(vp, 1)>>)]
  <2>1. s = [m |-> r3.m, at |-> r3.at, next |-> Append(r3.next, <<r3.at, Index(vp, 1)>>)]
    BY <1>4, <1>10 DEF Walking
  <2> QED
    BY <1>4, <1>6, <2>1 DEF Walking
<1> QED
  BY <1>5, <1>7, <1>8, <1>9, <1>10

(* Tables that nothing was written over lead where they did.               *)
LEMMA SameTables ==
  ASSUME NEW m, NEW r, Leads(m), Spare(r) \subseteq Spare(m), r.uefi = m.uefi, r.wild = m.wild,
         r.free \subseteq m.free, Lent(r) = Lent(m),
         DOMAIN r.table = DOMAIN m.table, \A p \in DOMAIN r.table : r.table[p] = m.table[p]
  PROVE  Leads(r)
<1>1. \A p \in DOMAIN r.table : \A j \in Slots : EntryLeads(r, r.table[p][j])
  BY DEF Leads, EntryLeads
<1> QED
  BY <1>1 DEF Leads

(* A memory whose last call failed.                                        *)
LEMMA RefusedFacts ==
  ASSUME NEW m, Sound(m)
  PROVE  LET r == Refused(m) IN
         /\ Sound(r) /\ r.uefi = m.uefi /\ r.ram = m.ram /\ ~r.ok /\ r.table = m.table
         /\ (Leads(m) => Leads(r)) /\ Keeps(m, r)
<1> DEFINE r == Refused(m)
<1>1. /\ IsMem(r) /\ r.uefi = m.uefi /\ r.ram = m.ram /\ r.memmap = m.memmap
      /\ r.free = m.free /\ r.ptrs = m.ptrs /\ r.hack_buf = m.hack_buf /\ r.file_buf = m.file_buf
      /\ r.ok = FALSE /\ r.wild = m.wild /\ r.data = m.data /\ r.table = m.table
  BY DEF Refused, Sound, IsMem, Fields
<1> HIDE DEF r
<1>2. {r.ok, r.wild} \subseteq BOOLEAN /\ DOMAIN r.data \subseteq Nat /\ r.free \subseteq m.free
      /\ r.file_buf \in Nat /\ r.file_buf % PAGE = 0
  BY <1>1 DEF Sound
<1>3. Sound(r) /\ Lent(r) = Lent(m)
  BY <1>1, <1>2, SoundStays
<1>4. Spare(r) = Spare(m)
  BY <1>1 DEF Spare
<1>5. Leads(m) => Leads(r)
  BY <1>1, <1>3, <1>4, SameTables
<1>6. Keeps(m, r)
  BY <1>1, <1>3, <1>4, <1>5 DEF Keeps
<1> QED
  BY <1>1, <1>3, <1>5, <1>6 DEF r

(* All pages of the walk.  reach is defined by recursion over the pages;   *)
(* that there is such a function, and what it keeps, is shown by induction. *)
LEMMA MapKeeps ==
  ASSUME NEW m, Sound(m), NEW phys \in Nat, NEW virt \in Nat, NEW size \in Nat \ {0}
  PROVE  Keeps(m, fw_map(m, phys, virt, size))
<1> DEFINE first == PageOf(virt)
           last  == PageOf(virt + size - 1)
           start == [m |-> [m EXCEPT !.ok = TRUE], at |-> pt, next |-> <<>>]
           Next1(g, p) == IF p = first - 1 THEN start
                          ELSE LET before == g[p - 1] IN Reach(before, p)
           IsReach(g, b) == g = [p \in first - 1..b |-> Next1(g, p)]
           T == {k \in Nat : \E g : IsReach(g, first - 1 + k)}
           good(r) == Walking(r) /\ Keeps(m, r.m)
           mapped(r) ==
             LET top == PageOf(MapBase(m, r.m, Unit(PageOf(phys))) + size - 1)
                 FrameFor(slot) == top - (Len(r.next) - (CHOOSE x \in DOMAIN r.next : r.next[x] = slot))
             IN IF ~r.m.ok \/ r.m.wild THEN r.m
                ELSE [r.m EXCEPT !.table =
                        [p \in DOMAIN @ |-> [j \in Slots |->
                           IF <<p, j>> \in ToSet(r.next) THEN Leaf(FrameFor(<<p, j>>)) ELSE @[p][j]]]]
           reach == CHOOSE g : IsReach(g, last)
<1>1. fw_map(m, phys, virt, size) = IF Canonical(virt) THEN mapped(reach[last]) ELSE Refused(m)
  BY DEF fw_map
<1>2. first \in Nat /\ last \in Nat /\ first <= last
  <2>1. virt + size - 1 \in Nat /\ virt <= virt + size - 1
    OBVIOUS
  <2> QED
    BY <2>1, PageFacts
<1> HIDE DEF mapped, start, first, last
<1>3. good(start)
  <2> DEFINE m0 == [m EXCEPT !.ok = TRUE]
  <2>1. /\ Sound(m0) /\ m0.table = m.table /\ m0.data = m.data /\ m0.uefi = m.uefi
        /\ m0.ram = m.ram /\ m0.memmap = m.memmap /\ m0.ptrs = m.ptrs /\ m0.ok
        /\ m0.hack_buf = m.hack_buf /\ m0.free = m.free /\ m0.wild = m.wild
        /\ Spare(m0) = Spare(m)
    <3>1. /\ IsMem(m0) /\ m0.table = m.table /\ m0.data = m.data /\ m0.uefi = m.uefi
          /\ m0.ram = m.ram /\ m0.memmap = m.memmap /\ m0.ptrs = m.ptrs /\ m0.ok = TRUE
          /\ m0.hack_buf = m.hack_buf /\ m0.free = m.free /\ m0.wild = m.wild
          /\ m0.file_buf = m.file_buf
      BY DEF Sound, IsMem, Fields
    <3> HIDE DEF m0
    <3>2. Sound(m0)
      BY <3>1, SoundStays DEF Sound
    <3> QED
      BY <3>1, <3>2 DEF Spare
  <2>2. start = [m |-> m0, at |-> pt, next |-> <<>>]
    BY DEF start
  <2> HIDE DEF m0
  <2>3. Lent(m0) = Lent(m)
    BY <2>1 DEF Lent
  <2>4. Leads(m0) <=> Leads(m)
    BY <2>1, <2>3 DEF Leads, EntryLeads
  <2> QED
    BY <2>1, <2>2, <2>3, <2>4 DEF Walking, Keeps, Leads
<1>4. 0 \in T
  <2> DEFINE g == [p \in first - 1..first - 1 |-> start]
  <2>1. IsReach(g, first - 1)
    BY <1>2
  <2>2. first - 1 + 0 = first - 1
    BY <1>2
  <2> QED
    BY <2>1, <2>2
<1>5. ASSUME NEW k \in Nat, k \in T
      PROVE  k + 1 \in T
  <2> DEFINE b == first - 1 + k
  <2>1. PICK g : IsReach(g, b)
    BY <1>5
  <2>2. b \in Int /\ first - 1 <= b /\ first - 1 + (k + 1) = b + 1
    BY <1>2
  <2> HIDE DEF b
  <2> DEFINE h == [p \in first - 1..b + 1 |-> Next1(g, p)]
  <2>3. \A p \in first - 1..b : p \in first - 1..b + 1 /\ h[p] = g[p]
    BY <1>2, <2>1, <2>2
  <2>4. \A p \in first - 1..b + 1 : p # first - 1 => p - 1 \in first - 1..b
    BY <1>2, <2>2
  <2>5. \A p \in first - 1..b + 1 : Next1(g, p) = Next1(h, p)
    BY <2>3, <2>4
  <2>6. IsReach(h, b + 1)
    BY <2>5
  <2> HIDE DEF IsReach, h
  <2>7. \E g1 : IsReach(g1, first - 1 + (k + 1))
    BY <2>2, <2>6
  <2> QED
    BY <2>7
<1>6. \E g : IsReach(g, last)
  <2>1. Nat \subseteq T
    <3> HIDE DEF T
    <3> QED
      BY <1>4, <1>5, SetInduction
  <2>2. last - first + 1 \in Nat /\ first - 1 + (last - first + 1) = last
    BY <1>2
  <2> HIDE DEF IsReach
  <2>3. last - first + 1 \in T
    BY <2>1, <2>2
  <2> QED
    BY <2>2, <2>3
<1>7. IsReach(reach, last)
  <2> HIDE DEF IsReach
  <2> QED
    BY <1>6
<1> HIDE DEF reach
<1>8. good(reach[last])
  <2> DEFINE G == {k \in Nat : first - 1 + k <= last => good(reach[first - 1 + k])}
  <2>r. \A p \in first - 1..last : reach[p] = Next1(reach, p)
    BY <1>7
  <2>1. 0 \in G
    <3>1. reach[first - 1] = start
      BY <1>2, <2>r
    <3>2. first - 1 + 0 = first - 1
      BY <1>2
    <3> QED
      BY <1>3, <3>1, <3>2
  <2>2. ASSUME NEW k \in Nat, k \in G
        PROVE  k + 1 \in G
    <3> SUFFICES ASSUME first - 1 + (k + 1) <= last
                 PROVE  good(reach[first - 1 + (k + 1)])
      OBVIOUS
    <3> DEFINE b == first - 1 + k
    <3>1. /\ b \in Int /\ b <= last /\ first - 1 + (k + 1) = b + 1 /\ b + 1 # first - 1
          /\ b + 1 \in first - 1..last /\ b + 1 - 1 = b
      BY <1>2
    <3>2. good(reach[b])
      BY <2>2, <3>1
    <3> HIDE DEF b
    <3>3. reach[b + 1] = Reach(reach[b], b + 1)
      BY <2>r, <3>1
    <3> DEFINE rb == reach[b]
    <3>4. Walking(rb) /\ Keeps(m, rb.m) /\ b + 1 \in Int
      BY <3>1, <3>2
    <3>6. reach[b + 1] = Reach(rb, b + 1)
      BY <3>3
    <3> HIDE DEF rb
    <3>7. Walking(Reach(rb, b + 1)) /\ Keeps(rb.m, Reach(rb, b + 1).m)
      BY <3>4, ReachKeeps
    <3>8. Keeps(m, Reach(rb, b + 1).m)
      BY <3>4, <3>7, KeepsOn
    <3>5. good(reach[b + 1])
      BY <3>6, <3>7, <3>8
    <3> QED
      BY <3>1, <3>5
  <2>3. Nat \subseteq G
    <3> HIDE DEF G
    <3> QED
      BY <2>1, <2>2, SetInduction
  <2>4. last - first + 1 \in Nat /\ first - 1 + (last - first + 1) = last
    BY <1>2
  <2>5. last - first + 1 \in G
    <3> HIDE DEF G
    <3> QED
      BY <2>3, <2>4
  <2>6. first - 1 + (last - first + 1) <= last
    BY <1>2, <2>4
  <2>7. good(reach[first - 1 + (last - first + 1)])
    <3> HIDE DEF good
    <3> QED
      BY <2>5, <2>6
  <2> QED
    BY <2>4, <2>7
<1>9. ASSUME NEW r, good(r)
      PROVE  Keeps(m, mapped(r))
  <2> DEFINE Frame(p, j) ==
               PageOf(MapBase(m, r.m, Unit(PageOf(phys))) + size - 1)
                 - (Len(r.next) - (CHOOSE x \in DOMAIN r.next : r.next[x] = <<p, j>>))
             a == [r.m EXCEPT !.table =
                     [p \in DOMAIN @ |-> [j \in Slots |->
                        IF <<p, j>> \in ToSet(r.next) THEN Leaf(Frame(p, j)) ELSE @[p][j]]]]
  <2>1. mapped(r) = IF ~r.m.ok \/ r.m.wild THEN r.m ELSE a
    BY DEF mapped
  <2>2. Sound(r.m) /\ r.m.uefi = m.uefi /\ (~r.m.uefi => r.m.ok)
    BY <1>9 DEF Walking, Keeps
  <2> HIDE DEF Frame
  <2>3. /\ Sound(a) /\ a.data = r.m.data /\ a.uefi = r.m.uefi /\ a.ok = r.m.ok
        /\ a.ram = r.m.ram /\ a.memmap = r.m.memmap /\ a.ptrs = r.m.ptrs
        /\ a.hack_buf = r.m.hack_buf /\ a.free = r.m.free /\ a.wild = r.m.wild
        /\ Spare(a) = Spare(r.m)
        /\ a.table = [p \in DOMAIN r.m.table |-> [j \in Slots |->
                        IF <<p, j>> \in ToSet(r.next) THEN Leaf(Frame(p, j)) ELSE r.m.table[p][j]]]
    <3>1. /\ IsMem(a) /\ a.data = r.m.data /\ a.uefi = r.m.uefi /\ a.ok = r.m.ok
          /\ a.ram = r.m.ram /\ a.memmap = r.m.memmap /\ a.ptrs = r.m.ptrs
          /\ a.hack_buf = r.m.hack_buf /\ a.free = r.m.free /\ a.wild = r.m.wild
          /\ a.file_buf = r.m.file_buf
          /\ a.table = [p \in DOMAIN r.m.table |-> [j \in Slots |->
                        IF <<p, j>> \in ToSet(r.next) THEN Leaf(Frame(p, j)) ELSE r.m.table[p][j]]]
      BY <2>2 DEF Sound, IsMem, Fields
    <3> HIDE DEF a
    <3>2. Sound(a)
      <4>1. {a.ok, a.wild} \subseteq BOOLEAN /\ a.file_buf \in Nat /\ a.file_buf % PAGE = 0
            /\ DOMAIN a.data \subseteq Nat /\ a.free \subseteq r.m.free
        BY <2>2, <3>1 DEF Sound
      <4> QED
        BY <2>2, <3>1, <4>1, SoundStays
    <3> QED
      BY <3>1, <3>2 DEF Spare
  <2> HIDE DEF a
  <2>4. Lent(a) = Lent(r.m)
    BY <2>3 DEF Lent
  <2>5. Leads(r.m) => Leads(a)
    <3> SUFFICES ASSUME Leads(r.m)
                 PROVE  Leads(a)
      OBVIOUS
    <3>1. DOMAIN a.table = DOMAIN r.m.table
      BY <2>3
    <3>2. ASSUME NEW p \in DOMAIN r.m.table, NEW j \in Slots
          PROVE  EntryLeads(a, a.table[p][j])
      <4>1. EntryLeads(a, r.m.table[p][j])
        BY <3>1 DEF Leads, EntryLeads
      <4>2. EntryLeads(a, Leaf(Frame(p, j)))
        BY DEF EntryLeads, Leaf
      <4>3. a.table[p][j] = Leaf(Frame(p, j)) \/ a.table[p][j] = r.m.table[p][j]
        BY <2>3
      <4> QED
        BY <4>1, <4>2, <4>3
    <3>3. \A p \in DOMAIN a.table : DOMAIN a.table[p] = Slots
      BY <2>3
    <3> QED
      BY <2>3, <2>4, <3>1, <3>2, <3>3 DEF Leads
  <2>6. Keeps(r.m, a)
    BY <2>3, <2>4, <2>5 DEF Keeps
  <2>7. Keeps(m, a)
    BY <1>9, <2>6, KeepsOn
  <2> QED
    BY <1>9, <2>1, <2>2, <2>3, <2>7
<1> HIDE DEF good
<1> QED
  BY <1>1, <1>8, <1>9, RefusedFacts

-----------------------------------------------------------------------------
(* Something is written: other units keep what they held, and tables that  *)
(* it misses stay tables.                                                  *)
LEMMA Stored ==
  ASSUME NEW m, Sound(m), NEW f, DOMAIN f \subseteq Nat
  PROVE  LET r == Store(m, f) IN
         /\ Sound(r) /\ Spare(r) = Spare(m) /\ Lent(r) = Lent(m)
         /\ r.uefi = m.uefi /\ r.ram = m.ram /\ r.memmap = m.memmap /\ r.file_buf = m.file_buf
         /\ r.free = m.free /\ r.ptrs = m.ptrs /\ r.hack_buf = m.hack_buf
         /\ r.ok = m.ok /\ r.wild = m.wild
         /\ DOMAIN r.data = DOMAIN f \cup DOMAIN m.data
         /\ \A u \in DOMAIN f : r.data[u] = f[u]
         /\ \A u \in DOMAIN m.data \ DOMAIN f : r.data[u] = m.data[u]
         /\ DOMAIN r.table = DOMAIN m.table \ {PageOf(u) : u \in DOMAIN f}
         /\ \A p \in DOMAIN r.table : r.table[p] = m.table[p]
<1> DEFINE hit == {PageOf(u) : u \in DOMAIN f}
           r == Store(m, f)
<1>1. /\ IsMem(r) /\ r.uefi = m.uefi /\ r.ram = m.ram /\ r.memmap = m.memmap
      /\ r.file_buf = m.file_buf /\ r.free = m.free /\ r.ptrs = m.ptrs /\ r.hack_buf = m.hack_buf
      /\ r.ok = m.ok /\ r.wild = m.wild
      /\ r.data = [u \in DOMAIN f \cup DOMAIN m.data |-> IF u \in DOMAIN f THEN f[u] ELSE m.data[u]]
      /\ r.table = [p \in DOMAIN m.table \ hit |-> m.table[p]]
  BY DEF Store, Sound, IsMem, Fields
<1> HIDE DEF r, hit
<1>2. {r.ok, r.wild} \subseteq BOOLEAN /\ r.file_buf \in Nat /\ r.file_buf % PAGE = 0
      /\ DOMAIN r.data \subseteq Nat /\ r.free \subseteq m.free
  BY <1>1 DEF Sound
<1>3. Sound(r) /\ Lent(r) = Lent(m)
  BY <1>1, <1>2, SoundStays
<1>4. Spare(r) = Spare(m)
  BY <1>1 DEF Spare
<1>5. /\ DOMAIN r.data = DOMAIN f \cup DOMAIN m.data
      /\ \A u \in DOMAIN f : r.data[u] = f[u]
      /\ \A u \in DOMAIN m.data \ DOMAIN f : r.data[u] = m.data[u]
      /\ DOMAIN r.table = DOMAIN m.table \ hit
      /\ \A p \in DOMAIN r.table : r.table[p] = m.table[p]
  BY <1>1
<1> QED
  BY <1>1, <1>3, <1>4, <1>5 DEF r, hit

(* What is written into pages that were spare.                             *)
LEMMA StoreKeeps ==
  ASSUME NEW m, Sound(m), NEW r, Keeps(m, r), NEW f, DOMAIN f \subseteq Nat,
         \A u \in DOMAIN f : PageOf(u) \in Spare(m),
         Leads(m) => \A u \in DOMAIN f : PageOf(u) \notin DOMAIN r.table
  PROVE  Keeps(m, Store(r, f))
<1> DEFINE s == Store(r, f)
<1>1. /\ Sound(s) /\ Spare(s) = Spare(r) /\ Lent(s) = Lent(r)
      /\ s.uefi = r.uefi /\ s.ram = r.ram /\ s.memmap = r.memmap
      /\ s.free = r.free /\ s.wild = r.wild
      /\ DOMAIN s.data = DOMAIN f \cup DOMAIN r.data
      /\ \A u \in DOMAIN r.data \ DOMAIN f : s.data[u] = r.data[u]
      /\ DOMAIN s.table = DOMAIN r.table \ {PageOf(u) : u \in DOMAIN f}
      /\ \A p \in DOMAIN s.table : s.table[p] = r.table[p]
  BY Stored DEF Keeps
<1> HIDE DEF s
<1>2. ASSUME NEW u \in DOMAIN m.data, PageOf(u) \notin Spare(m)
      PROVE  u \in DOMAIN s.data /\ s.data[u] = m.data[u]
  BY <1>1, <1>2 DEF Keeps
<1>3. Leads(m) => Leads(s) /\ DOMAIN m.table \subseteq DOMAIN s.table
  <2> SUFFICES ASSUME Leads(m)
               PROVE  Leads(s) /\ DOMAIN m.table \subseteq DOMAIN s.table
    OBVIOUS
  <2>1. Leads(r) /\ DOMAIN m.table \subseteq DOMAIN r.table
    BY DEF Keeps
  <2>2. DOMAIN s.table = DOMAIN r.table
    BY <1>1
  <2> QED
    BY <1>1, <2>1, <2>2, SameTables
<1> QED
  BY <1>1, <1>2, <1>3 DEF Keeps, s

LEMMA Appending ==
  ASSUME NEW S, NEW s \in Seq(S), NEW e \in S
  PROVE  /\ Append(s, e) \in Seq(S) /\ Append(s, e) # <<>> /\ DOMAIN s = 1..Len(s) /\ Len(s) \in Nat
         /\ Len(Append(s, e)) = Len(s) + 1 /\ DOMAIN Append(s, e) = 1..Len(s) + 1
         /\ \A k \in DOMAIN s : Append(s, e)[k] = s[k]
         /\ Append(s, e)[Len(s) + 1] = e
         /\ SubSeq(Append(s, e), 1, Len(s)) = s
         /\ {Append(s, e)[k] : k \in DOMAIN Append(s, e)} = {s[k] : k \in DOMAIN s} \cup {e}
<1> DEFINE t == Append(s, e)
<1>1. /\ t \in Seq(S) /\ DOMAIN s = 1..Len(s) /\ Len(s) \in Nat /\ Len(t) = Len(s) + 1
      /\ DOMAIN t = 1..Len(s) + 1 /\ \A k \in 1..Len(s) : t[k] = s[k]
      /\ t[Len(s) + 1] = e
  OBVIOUS
<1>2. SubSeq(t, 1, Len(s)) = s
  OBVIOUS
<1> HIDE DEF t
<1>3. DOMAIN t = DOMAIN s \cup {Len(s) + 1}
  BY <1>1
<1>4. {t[k] : k \in DOMAIN t} = {s[k] : k \in DOMAIN s} \cup {e}
  BY <1>1, <1>3
<1>5. t # <<>>
  BY <1>1
<1> QED
  BY <1>1, <1>2, <1>4, <1>5 DEF t

(* Pages the firmware gives.                                               *)
LEMMA PagesTaken ==
  ASSUME NEW m, Sound(m), m.uefi, NEW p \in Int, NEW c \in Nat
  PROVE  LET r == efi_allocpages(m, p, c) IN
         /\ Keeps(m, r) /\ r.table = m.table /\ r.data = m.data /\ r.ok \in BOOLEAN
         /\ ~r.ok => r.free = m.free /\ r.ptrs = m.ptrs
         /\ r.ok => /\ c > 0 /\ p \in Nat /\ Run(p, c) \subseteq m.free
                   /\ r.free = m.free \ Run(p, c)
                   /\ r.ptrs = Append(m.ptrs, <<p, c>>) /\ r.hack_buf = m.hack_buf
                   /\ Lent(r) = Lent(m) \cup Run(p, c)
<1> DEFINE r == efi_allocpages(m, p, c)
           gives == c > 0 /\ Run(p, c) \subseteq m.free
<1>1. /\ IsMem(r) /\ r.uefi = m.uefi /\ r.ram = m.ram /\ r.memmap = m.memmap
      /\ r.file_buf = m.file_buf /\ r.hack_buf = m.hack_buf /\ r.wild = m.wild
      /\ r.data = m.data /\ r.table = m.table
      /\ gives => r.ok = TRUE /\ r.free = m.free \ Run(p, c) /\ r.ptrs = Append(m.ptrs, <<p, c>>)
      /\ ~gives => r.ok = FALSE /\ r.free = m.free /\ r.ptrs = m.ptrs
  BY DEF efi_allocpages, Sound, IsMem, Fields
<1>2. gives => p \in Nat
  <2>1. gives => p \in Run(p, c)
    BY DEF Run
  <2> QED
    BY <2>1 DEF Sound
<1> HIDE DEF r
<1> DEFINE e == <<p, c>>
           Q == Nat \X Nat
<1>a. gives => /\ r.ptrs \in Seq(Q)
               /\ {r.ptrs[k] : k \in DOMAIN r.ptrs} = {m.ptrs[k] : k \in DOMAIN m.ptrs} \cup {e}
  <2>1. m.ptrs \in Seq(Q) /\ (gives => e \in Q)
    BY <1>2 DEF Sound
  <2>2. gives => r.ptrs = Append(m.ptrs, e)
    BY <1>1
  <2> HIDE DEF e, Q, gives
  <2>3. ASSUME gives
        PROVE  /\ Append(m.ptrs, e) \in Seq(Q)
               /\ {Append(m.ptrs, e)[k] : k \in DOMAIN Append(m.ptrs, e)} = {m.ptrs[k] : k \in DOMAIN m.ptrs} \cup {e}
    BY <2>1, <2>3, Appending
  <2> QED
    BY <2>2, <2>3
<1>3. gives => Lent(r) = Lent(m) \cup Run(p, c)
  <2> SUFFICES ASSUME gives
               PROVE  Lent(r) = Lent(m) \cup Run(p, c)
    OBVIOUS
  <2> DEFINE A == {m.ptrs[k] : k \in DOMAIN m.ptrs}
  <2>1. Run(e[1], e[2]) = Run(p, c)
    OBVIOUS
  <2>2. {r.ptrs[k] : k \in DOMAIN r.ptrs} = A \cup {e}
    BY <1>a
  <2> HIDE DEF A, e, gives
  <2>3. UNION {Run(x[1], x[2]) : x \in A \cup {e}} = (UNION {Run(x[1], x[2]) : x \in A}) \cup Run(e[1], e[2])
    OBVIOUS
  <2> QED
    BY <1>1, <2>1, <2>2, <2>3 DEF Lent, A, gives
<1>4. ~gives => Lent(r) = Lent(m)
  BY <1>1 DEF Lent
<1>5. Sound(r)
  <2>1. r.free \cup Lent(r) \subseteq m.free \cup Lent(m)
    BY <1>1, <1>3, <1>4
  <2>2. Limited(r)
    BY <2>1, FS_Subset DEF Sound, Limited
  <2>3. r.ptrs \in Seq(Nat \X Nat)
    BY <1>1, <1>a DEF Sound
  <2>4. {r.ok, r.wild, r.uefi} \subseteq BOOLEAN /\ r.file_buf \in Nat /\ r.file_buf % PAGE = 0
        /\ DOMAIN r.data \subseteq Nat /\ r.free \subseteq Nat /\ r.hack_buf \subseteq Nat /\ r.ram \in Nat
    BY <1>1 DEF Sound
  <2> QED
    BY <1>1, <2>2, <2>3, <2>4 DEF Sound
<1>6. Spare(r) = r.free /\ Spare(m) = m.free /\ r.free \subseteq m.free
  BY <1>1 DEF Spare
<1>7. Leads(m) => Leads(r)
  <2> SUFFICES ASSUME Leads(m)
               PROVE  Leads(r)
    OBVIOUS
  <2>1. Lent(m) \cap (m.free \cup DOMAIN m.table) = {} /\ DOMAIN m.table \cap m.free = {}
    BY <1>6 DEF Leads
  <2>2. Lent(r) \cap (r.free \cup DOMAIN r.table) = {}
    BY <1>1, <1>3, <1>4, <2>1
  <2>3. \A q \in DOMAIN r.table : \A j \in Slots : EntryLeads(r, r.table[q][j])
    BY <1>1 DEF Leads, EntryLeads
  <2> QED
    BY <1>1, <1>6, <2>2, <2>3 DEF Leads
<1>8. Keeps(m, r)
  BY <1>1, <1>3, <1>4, <1>5, <1>6, <1>7 DEF Keeps
<1> QED
  BY <1>1, <1>2, <1>3, <1>8 DEF r

-----------------------------------------------------------------------------
(* Where a module lies.                                                    *)
LEMMA RoundRun ==
  ASSUME NEW p \in Nat, NEW x \in Nat, NEW u \in Unit(p)..Unit(p) + x - 1
  PROVE  u \in Nat /\ PageOf(u) \in Run(p, PageOf(Round(x)))
<1>1. Unit(p) \in Nat /\ u \in Nat
  BY DEF Unit, PAGE
<1>2. Round(x) \in Nat /\ x <= Round(x) /\ Unit(PageOf(Round(x))) = Round(x) /\ PageOf(Round(x)) \in Nat
  BY PageFacts
<1>3. Unit(p + PageOf(Round(x))) = Unit(p) + Round(x)
  BY <1>2 DEF Unit, PAGE
<1>4. u \in Units(p, PageOf(Round(x)))
  BY <1>1, <1>2, <1>3 DEF Units
<1> QED
  BY <1>1, <1>2, <1>4, PageFacts

LEMMA AtFacts ==
  ASSUME NEW len \in Nat, NEW buf \in Nat, NEW f, DOMAIN f = 0..len - 1
  PROVE  /\ DOMAIN At(f, buf) = buf..buf + len - 1
         /\ \A u \in buf..buf + len - 1 : At(f, buf)[u] = f[u - buf]
<1>1. {x + buf : x \in 0..len - 1} = buf..buf + len - 1
  <2>1. \A u \in buf..buf + len - 1 : u - buf \in 0..len - 1 /\ u = (u - buf) + buf
    OBVIOUS
  <2>2. \A x \in 0..len - 1 : x + buf \in buf..buf + len - 1
    OBVIOUS
  <2> QED
    BY <2>1, <2>2
<1> QED
  BY <1>1 DEF At

(* Units that are still to be handed out and hold no table.                *)
Aside(m, r, buf, len) ==
  \A u \in buf..buf + len - 1 :
    PageOf(u) \in Spare(m) /\ (Leads(m) => PageOf(u) \notin DOMAIN r.table)

LiesAt(s, f, buf, len) ==
  \A u \in buf..buf + len - 1 : u \in DOMAIN s.data /\ s.data[u] = f[u - buf]

(* Something is read into spare pages.                                     *)
LEMMA LoadKeeps ==
  ASSUME NEW m, Sound(m), NEW r, Keeps(m, r),
         NEW len \in Nat, NEW buf \in Nat, NEW f, DOMAIN f = 0..len - 1,
         Aside(m, r, buf, len)
  PROVE  LET s == Load(r, f, buf) IN
         /\ Keeps(m, s) /\ Spare(s) = Spare(r) /\ Lent(s) = Lent(r)
         /\ s.file_buf = r.file_buf /\ s.free = r.free /\ s.ptrs = r.ptrs /\ s.hack_buf = r.hack_buf
         /\ s.ok = r.ok
         /\ ~Cut => LiesAt(s, f, buf, len)
         /\ Leads(m) => DOMAIN s.table = DOMAIN r.table
<1> DEFINE s == Store(r, At(f, buf))
<1>a. /\ \A u \in buf..buf + len - 1 : PageOf(u) \in Spare(m)
      /\ Leads(m) => \A u \in buf..buf + len - 1 : PageOf(u) \notin DOMAIN r.table
  BY DEF Aside
<1>1. /\ DOMAIN At(f, buf) = buf..buf + len - 1
      /\ \A u \in buf..buf + len - 1 : At(f, buf)[u] = f[u - buf]
  BY AtFacts
<1>2. buf..buf + len - 1 \subseteq Nat /\ Sound(r)
  BY DEF Keeps
<1>3. /\ Spare(s) = Spare(r) /\ Lent(s) = Lent(r) /\ s.ok = r.ok
      /\ s.file_buf = r.file_buf /\ s.free = r.free /\ s.ptrs = r.ptrs /\ s.hack_buf = r.hack_buf
      /\ DOMAIN s.data = DOMAIN At(f, buf) \cup DOMAIN r.data
      /\ \A u \in DOMAIN At(f, buf) : s.data[u] = At(f, buf)[u]
      /\ DOMAIN s.table = DOMAIN r.table \ {PageOf(u) : u \in DOMAIN At(f, buf)}
  BY <1>1, <1>2, Stored
<1>4. Keeps(m, s)
  BY <1>1, <1>2, <1>a, StoreKeeps
<1> HIDE DEF s
<1>5. CASE Cut
  BY <1>5 DEF Load
<1>6. CASE ~Cut
  <2>1. Load(r, f, buf) = s
    BY <1>6 DEF Load, s
  <2>2. LiesAt(s, f, buf, len)
    BY <1>1, <1>3 DEF LiesAt
  <2>3. Leads(m) => DOMAIN s.table = DOMAIN r.table
    BY <1>1, <1>3, <1>a
  <2> QED
    BY <1>3, <1>4, <1>6, <2>1, <2>2, <2>3
<1> QED
  BY <1>5, <1>6

(* The BIOS loader moves file_buf on.                                      *)
LEMMA MovesOn ==
  ASSUME NEW m, NEW r, Keeps(m, r), ~m.uefi, NEW b \in Nat, b % PAGE = 0, r.file_buf <= b
  PROVE  LET s == [r EXCEPT !.file_buf = b] IN
         /\ Keeps(m, s) /\ s.data = r.data /\ s.table = r.table /\ s.file_buf = b /\ s.ok = r.ok
         /\ Spare(s) = {p \in Nat : PageOf(b) <= p}
<1> DEFINE s == [r EXCEPT !.file_buf = b]
<1>1. Sound(r) /\ r.uefi = FALSE /\ r.file_buf \in Nat
  BY DEF Keeps, Sound
<1>2. /\ IsMem(s) /\ s.uefi = r.uefi /\ s.ram = r.ram /\ s.memmap = r.memmap
      /\ s.free = r.free /\ s.ptrs = r.ptrs /\ s.hack_buf = r.hack_buf
      /\ s.ok = r.ok /\ s.wild = r.wild /\ s.data = r.data /\ s.table = r.table /\ s.file_buf = b
  BY <1>1 DEF Sound, IsMem, Fields
<1> HIDE DEF s
<1>3. {s.ok, s.wild} \subseteq BOOLEAN /\ DOMAIN s.data \subseteq Nat /\ s.free \subseteq r.free
  BY <1>1, <1>2 DEF Sound
<1>4. Sound(s) /\ Lent(s) = Lent(r)
  BY <1>1, <1>2, <1>3, SoundStays
<1>5. Spare(s) = {p \in Nat : PageOf(b) <= p} /\ Spare(s) \subseteq Spare(r)
  <2>1. PageOf(r.file_buf) \in Nat /\ PageOf(b) \in Nat /\ PageOf(r.file_buf) <= PageOf(b)
    BY <1>1, PageFacts
  <2> QED
    BY <1>1, <1>2, <2>1 DEF Spare
<1>6. Leads(r) => Leads(s)
  BY <1>2, <1>4, <1>5, SameTables
<1>7. Keeps(r, s)
  BY <1>2, <1>4, <1>5, <1>6 DEF Keeps
<1>8. Keeps(m, s)
  BY <1>7, KeepsOn
<1> QED
  BY <1>2, <1>5, <1>8 DEF s

(* A range of units that holds a file, and is not to be handed out.        *)
Holds(m, name, start, len) ==
  /\ start \in Nat /\ len \in Nat
  /\ \A u \in start..start + len - 1 :
       u \in DOMAIN m.data /\ PageOf(u) \notin Spare(m) /\ m.data[u] = <<name, u - start>>

LEMMA HoldsOn ==
  ASSUME NEW m, NEW r, Keeps(m, r), NEW name, NEW start, NEW len, Holds(m, name, start, len)
  PROVE  Holds(r, name, start, len)
BY DEF Keeps, Holds

LEMMA WholeFile ==
  ASSUME NEW f, f.size \in Nat
  PROVE  LET plain == FileUnits(f, 0, f.size, 0)
         IN DOMAIN plain = 0..f.size - 1 /\ \A u \in 0..f.size - 1 : plain[u] = <<f.name, u>>
<1>1. f.size - 1 = 0 + (IF 0 + f.size > f.size THEN f.size - 0 ELSE f.size) - 1
  OBVIOUS
<1>2. \A u \in 0..f.size - 1 : 0 + u - 0 = u
  OBVIOUS
<1> QED
  BY <1>1, <1>2 DEF FileUnits

(* There is room to inflate f, if there has to be.                         *)
Inflates(m, f) ==
  m.uefi /\ f.inflated > 0 => AnyPages(m, PageOf(Round(f.inflated))) # Nowhere

LEMMA ModuleOnBios ==
  ASSUME NEW m, Sound(m), ~m.uefi, NEW f, f.size \in Nat, f.inflated \in Nat
  PROVE  LET r == LoadModule(m, f) IN
         /\ Keeps(m, r.m)
         /\ ~Cut => Holds(r.m, f.name, r.start, r.len)
<1> DEFINE r == LoadModule(m, f)
           b == m.file_buf
           behind == b + Round(f.inflated)
           after == b + Round(f.size)
           plain == FileUnits(f, 0, f.size, 0)
<1>1. b \in Nat /\ b % PAGE = 0 /\ b = Unit(PageOf(b)) /\ PageOf(b) \in Nat
  BY NextPage, PageFacts DEF Sound, PAGE
<1>2. Spare(m) = {p \in Nat : PageOf(b) <= p}
  BY DEF Spare
<1>3. /\ behind \in Nat /\ behind % PAGE = 0 /\ b <= behind
      /\ after \in Nat /\ after % PAGE = 0 /\ b <= after
      /\ b + f.size <= after /\ b + f.inflated <= behind
      /\ behind = Unit(PageOf(behind)) /\ after = Unit(PageOf(after))
      /\ PageOf(behind) \in Nat /\ PageOf(after) \in Nat
  <2>1. \A x \in Nat : /\ Round(x) \in Nat /\ x <= Round(x) /\ Round(x) % PAGE = 0
    BY PageFacts
  <2>2. \A x \in Nat : /\ b + Round(x) \in Nat /\ (b + Round(x)) % PAGE = 0 /\ b <= b + Round(x)
                        /\ b + x <= b + Round(x)
    <3> HIDE DEF b
    <3> TAKE x \in Nat
    <3>1. Round(x) \in Nat /\ x <= Round(x) /\ Round(x) % PAGE = 0
      BY <2>1
    <3>2. b + Round(x) \in Nat /\ (b + Round(x)) % PAGE = 0
      BY <1>1, <3>1, NextPage
    <3> QED
      BY <1>1, <3>1, <3>2
  <2> HIDE DEF b
  <2>3. \A y \in Nat : y % PAGE = 0 => y = Unit(PageOf(y)) /\ PageOf(y) \in Nat
    BY NextPage, PageFacts DEF PAGE
  <2> QED
    BY <2>2, <2>3
<1>4. \A u \in Nat : b <= u => PageOf(u) \in Spare(m)
  BY <1>1, <1>2, PageFacts
<1>5. \A y, u \in Nat : y % PAGE = 0 /\ u < y => ~(PageOf(y) <= PageOf(u))
  BY DEF PageOf, PAGE
<1>6. Keeps(m, m)
  BY KeepsItself
<1>7. /\ r = IF f.inflated > 0
              THEN Loaded([Load(Load(m, Packed(f), behind), Content(f), b) EXCEPT !.file_buf = behind],
                          b, f.inflated, f.format)
              ELSE Loaded([Load(m, plain, b) EXCEPT !.file_buf = @ + Round(f.size)], b, f.size, f.format)
  BY DEF LoadModule, Behind
<1>8. Leads(m) => \A u \in Nat : b <= u => PageOf(u) \notin DOMAIN m.table
  BY <1>4 DEF Leads
<1>9. CASE f.inflated > 0
  <2> DEFINE m1 == Load(m, Packed(f), behind)
             m2 == Load(m1, Content(f), b)
             m3 == [m2 EXCEPT !.file_buf = behind]
  <2>1. r.m = m3 /\ r.start = b /\ r.len = f.inflated
    BY <1>7, <1>9 DEF Loaded
  <2>2. DOMAIN Packed(f) = 0..f.size - 1 /\ DOMAIN Content(f) = 0..f.inflated - 1
        /\ \A u \in 0..f.inflated - 1 : Content(f)[u] = <<f.name, u>>
    BY DEF Packed, Content
  <2> HIDE DEF b, behind
  <2>3. \A u \in behind..behind + f.size - 1 : u \in Nat /\ b <= u
    BY <1>1, <1>3
  <2>4. \A u \in b..b + f.inflated - 1 : u \in Nat /\ b <= u /\ u < behind
    BY <1>1, <1>3
  <2>5. Keeps(m, m1) /\ m1.file_buf = b /\ (Leads(m) => DOMAIN m1.table = DOMAIN m.table)
    <3>1. \A u \in behind..behind + f.size - 1 : PageOf(u) \in Spare(m)
      BY <1>4, <2>3
    <3>2. Leads(m) => \A u \in behind..behind + f.size - 1 : PageOf(u) \notin DOMAIN m.table
      BY <1>8, <2>3
    <3>3. DOMAIN Packed(f) = 0..f.size - 1 /\ f.size \in Nat /\ behind \in Nat /\ m.file_buf = b
      BY <1>3, <2>2 DEF b
    <3> DEFINE g == Packed(f)
               len == f.size
    <3> HIDE DEF g, len
    <3>4. DOMAIN g = 0..len - 1 /\ len \in Nat
      BY <3>3 DEF g, len
    <3>5. Aside(m, m, behind, len)
      BY <3>1, <3>2 DEF len, Aside
    <3>6. m1 = Load(m, g, behind)
      BY DEF g
    <3> DEFINE s == Load(m, g, behind)
    <3>7. Keeps(m, s) /\ s.file_buf = m.file_buf /\ (Leads(m) => DOMAIN s.table = DOMAIN m.table)
      BY ONLY Sound(m), <1>6, <3>3, <3>4, <3>5, LoadKeeps
    <3> QED
      BY <3>3, <3>6, <3>7
  <2> HIDE DEF m1
  <2>6. /\ Keeps(m, m2) /\ m2.file_buf = b
        /\ ~Cut => \A u \in b..b + f.inflated - 1 : u \in DOMAIN m2.data /\ m2.data[u] = Content(f)[u - b]
    <3>1. \A u \in b..b + f.inflated - 1 : PageOf(u) \in Spare(m)
      BY <1>4, <2>4
    <3>2. Leads(m) => \A u \in b..b + f.inflated - 1 : PageOf(u) \notin DOMAIN m1.table
      BY <1>8, <2>4, <2>5
    <3> DEFINE g == Content(f)
               len == f.inflated
    <3> HIDE DEF g, len
    <3>4. DOMAIN g = 0..len - 1 /\ len \in Nat
      BY <2>2 DEF g, len
    <3>5. Aside(m, m1, b, len)
      BY <3>1, <3>2 DEF len, Aside
    <3>6. m2 = Load(m1, g, b)
      BY DEF g
    <3> DEFINE s == Load(m1, g, b)
    <3>7. /\ Keeps(m, s) /\ s.file_buf = m1.file_buf
          /\ ~Cut => LiesAt(s, g, b, len)
      <4>1. Sound(m) /\ Keeps(m, m1) /\ b \in Nat
        BY <1>1, <2>5
      <4> QED
        BY ONLY <4>1, <3>4, <3>5, LoadKeeps
    <3> HIDE DEF s
    <3>8. m2 = s
      BY <3>6 DEF s
    <3> QED
      BY <2>5, <3>7, <3>8 DEF g, len, LiesAt
  <2> HIDE DEF m2
  <2>7. Keeps(m, m3) /\ m3.data = m2.data /\ Spare(m3) = {p \in Nat : PageOf(behind) <= p}
    BY <1>3, <2>6, MovesOn
  <2> HIDE DEF m3
  <2>8. ASSUME ~Cut, NEW u \in b..b + f.inflated - 1
        PROVE  u \in DOMAIN m3.data /\ PageOf(u) \notin Spare(m3) /\ m3.data[u] = <<f.name, u - b>>
    <3>1. u \in DOMAIN m3.data /\ m3.data[u] = Content(f)[u - b]
      BY <2>6, <2>7, <2>8
    <3>2. u - b \in 0..f.inflated - 1
      BY <1>1
    <3>3. ~(PageOf(behind) <= PageOf(u))
      BY <1>3, <1>5, <2>4
    <3> QED
      BY <2>2, <2>7, <3>1, <3>2, <3>3
  <2>9. ~Cut => Holds(m3, f.name, b, f.inflated)
    BY <1>1, <2>8 DEF Holds
  <2> QED
    BY <2>1, <2>7, <2>9
<1>10. CASE f.inflated = 0
  <2> DEFINE m1 == Load(m, plain, b)
             m3 == [m1 EXCEPT !.file_buf = after]
  <2>2. DOMAIN plain = 0..f.size - 1 /\ \A u \in 0..f.size - 1 : plain[u] = <<f.name, u>>
    BY WholeFile
  <2> HIDE DEF b, after, plain
  <2>4. \A u \in b..b + f.size - 1 : u \in Nat /\ b <= u /\ u < after
    BY <1>1, <1>3
  <2>6. /\ Keeps(m, m1) /\ m1.file_buf = b
        /\ ~Cut => \A u \in b..b + f.size - 1 : u \in DOMAIN m1.data /\ m1.data[u] = plain[u - b]
    <3>1. \A u \in b..b + f.size - 1 : PageOf(u) \in Spare(m)
      BY <1>4, <2>4
    <3>2. Leads(m) => \A u \in b..b + f.size - 1 : PageOf(u) \notin DOMAIN m.table
      BY <1>8, <2>4
    <3> DEFINE len == f.size
    <3> HIDE DEF len
    <3>4. DOMAIN plain = 0..len - 1 /\ len \in Nat /\ m.file_buf = b
      BY <2>2 DEF len, b
    <3>5. Aside(m, m, b, len)
      BY <3>1, <3>2 DEF len, Aside
    <3>7. /\ Keeps(m, m1) /\ m1.file_buf = m.file_buf
          /\ ~Cut => LiesAt(m1, plain, b, len)
      BY ONLY Sound(m), <1>1, <1>6, <3>4, <3>5, LoadKeeps
    <3> QED
      BY <3>4, <3>7 DEF len, LiesAt
  <2> HIDE DEF m1
  <2>1. r.m = m3 /\ r.start = b /\ r.len = f.size
    <3>1. r = Loaded([m1 EXCEPT !.file_buf = @ + Round(f.size)], b, f.size, f.format)
      BY <1>7, <1>10 DEF m1
    <3>2. [m1 EXCEPT !.file_buf = @ + Round(f.size)] = m3
      BY <2>6 DEF after
    <3> QED
      BY <3>1, <3>2 DEF Loaded
  <2>7. Keeps(m, m3) /\ m3.data = m1.data /\ Spare(m3) = {p \in Nat : PageOf(after) <= p}
    BY <1>3, <2>6, MovesOn
  <2> HIDE DEF m3
  <2>8. ASSUME ~Cut, NEW u \in b..b + f.size - 1
        PROVE  u \in DOMAIN m3.data /\ PageOf(u) \notin Spare(m3) /\ m3.data[u] = <<f.name, u - b>>
    <3>1. u \in DOMAIN m3.data /\ m3.data[u] = plain[u - b]
      BY <2>6, <2>7, <2>8
    <3>2. u - b \in 0..f.size - 1
      BY <1>1
    <3>3. ~(PageOf(after) <= PageOf(u))
      BY <1>3, <1>5, <2>4
    <3> QED
      BY <2>2, <2>7, <3>1, <3>2, <3>3
  <2>9. ~Cut => Holds(m3, f.name, b, f.size)
    BY <1>1, <2>8 DEF Holds
  <2> QED
    BY <2>1, <2>7, <2>9
<1> QED
  BY <1>9, <1>10

LEMMA ModuleOnUefi ==
  ASSUME NEW m, Sound(m), m.uefi, ~Cut, NEW f, f.size \in Nat, f.inflated \in Nat
  PROVE  LET r == LoadModule(m, f) IN
         /\ Keeps(m, r.m)
         /\ r.start # Nowhere /\ Inflates(m, f) => Holds(r.m, f.name, r.start, r.len)
<1> DEFINE r == LoadModule(m, f)
           packed == f.inflated > 0
           c1 == PageOf(Round(f.inflated))
           c2 == PageOf(Round(f.size))
           unc == AnyPages(m, c1)
           m1 == IF packed THEN efi_allocpages(m, unc, c1) ELSE m
           inflates == packed /\ m1.ok
           mod == AnyPages(m1, c2)
           m2 == efi_allocpages(m1, mod, c2)
           plain == IF packed THEN Packed(f) ELSE FileUnits(f, 0, f.size, 0)
           m3 == Load(m2, plain, Unit(mod))
           m4 == Load(m3, Content(f), Unit(unc))
           m5 == [m4 EXCEPT !.free = @ \cup Run(mod, c2), !.ptrs = SubSeq(@, 1, Len(@) - 1)]
<1>1. r = IF ~m2.ok THEN Loaded(m2, Nowhere, 0, None)
          ELSE IF inflates THEN Loaded(m5, Unit(unc), f.inflated, f.format)
          ELSE Loaded(m3, Unit(mod), f.size, IF packed THEN "data" ELSE f.format)
  BY DEF LoadModule
<1>2. c1 \in Nat /\ c2 \in Nat
  BY PageFacts
<1>3. /\ DOMAIN plain = 0..f.size - 1
      /\ ~packed => \A u \in 0..f.size - 1 : plain[u] = <<f.name, u>>
  BY WholeFile DEF Packed
<1>4. DOMAIN Content(f) = 0..f.inflated - 1 /\ \A u \in 0..f.inflated - 1 : Content(f)[u] = <<f.name, u>>
  BY DEF Content
<1>5. unc \in Int /\ (unc # Nowhere => unc \in Nat)
  <2> HIDE DEF c1
  <2> QED
    BY <1>2, AnyPagesType
<1>6. /\ Keeps(m, m1) /\ Sound(m1) /\ m1.uefi /\ m1.table = m.table /\ m1.free \subseteq m.free
      /\ inflates => /\ unc \in Nat /\ Run(unc, c1) \subseteq m.free /\ m1.free = m.free \ Run(unc, c1)
                     /\ Run(unc, c1) \subseteq Lent(m1)
  <2>1. CASE packed
    <3> DEFINE s == efi_allocpages(m, unc, c1)
    <3>1. /\ Keeps(m, s) /\ s.table = m.table /\ s.ok \in BOOLEAN
          /\ ~s.ok => s.free = m.free
          /\ s.ok => /\ unc \in Nat /\ Run(unc, c1) \subseteq m.free /\ s.free = m.free \ Run(unc, c1)
                     /\ Lent(s) = Lent(m) \cup Run(unc, c1)
      <4> HIDE DEF unc, c1
      <4> QED
        BY <1>2, <1>5, PagesTaken
    <3>2. m1 = s
      BY <2>1
    <3> HIDE DEF m1, s, unc, c1
    <3> QED
      BY <3>1, <3>2 DEF Keeps
  <2>2. CASE ~packed
    <3>1. m1 = m
      BY <2>2
    <3> HIDE DEF m1
    <3> QED
      BY <2>2, <3>1, KeepsItself
  <2> QED
    BY <2>1, <2>2
<1>7. Inflates(m, f) => (inflates <=> packed)
  <2>1. packed => c1 > 0
    BY DEF PageOf, Round, Unit, PAGE
  <2>2. packed /\ unc # Nowhere => m1.ok
    <3>1. unc # Nowhere => Run(unc, c1) \subseteq m.free
      BY <1>2, AnyPagesFits
    <3> HIDE DEF unc, c1
    <3> QED
      BY <2>1, <3>1 DEF efi_allocpages, Sound, IsMem, Fields
  <2> QED
    BY <2>2 DEF Inflates
<1> SUFFICES /\ Keeps(m, r.m)
             /\ r.start # Nowhere /\ Inflates(m, f) => Holds(r.m, f.name, r.start, r.len)
  OBVIOUS
<1> HIDE DEF unc, c1, m1, r
<1>8. mod \in Int
  <2> HIDE DEF c2
  <2> QED
    BY <1>2, <1>6, AnyPagesType
<1> HIDE DEF mod, c2
<1>9. /\ Keeps(m1, m2) /\ m2.table = m1.table /\ m2.ok \in BOOLEAN
      /\ m2.ok => /\ mod \in Nat /\ Run(mod, c2) \subseteq m1.free
                  /\ m2.free = m1.free \ Run(mod, c2) /\ m2.hack_buf = m1.hack_buf
                  /\ m2.ptrs = Append(m1.ptrs, <<mod, c2>>)
                  /\ Lent(m2) = Lent(m1) \cup Run(mod, c2)
  BY <1>2, <1>6, <1>8, PagesTaken
<1>10. Keeps(m, m2) /\ Spare(m) = m.free
  BY <1>6, <1>9, KeepsOn DEF Spare
<1> HIDE DEF m2
<1>11. CASE ~m2.ok
  BY <1>1, <1>10, <1>11 DEF Loaded
<1>12. ASSUME m2.ok
       PROVE  /\ Keeps(m, m3) /\ m3.free = m2.free /\ m3.ptrs = m2.ptrs /\ m3.hack_buf = m2.hack_buf
              /\ \A u \in Unit(mod)..Unit(mod) + f.size - 1 : u \in DOMAIN m3.data /\ m3.data[u] = plain[u - Unit(mod)]
              /\ Leads(m) => DOMAIN m3.table = DOMAIN m.table
  <2> DEFINE buf == Unit(mod)
             len == f.size
  <2>1. buf \in Nat /\ len \in Nat /\ DOMAIN plain = 0..len - 1
    BY <1>3, <1>9, <1>12, PageFacts
  <2>2. \A u \in buf..buf + len - 1 : PageOf(u) \in Run(mod, c2)
    BY <1>9, <1>12, RoundRun DEF c2
  <2>3. \A u \in buf..buf + len - 1 : PageOf(u) \in Spare(m)
    BY <1>6, <1>9, <1>10, <1>12, <2>2
  <2>4. Leads(m) => \A u \in buf..buf + len - 1 : PageOf(u) \notin DOMAIN m2.table
    BY <1>6, <1>9, <2>3 DEF Leads
  <2> HIDE DEF buf, len, plain
  <2>a. Aside(m, m2, buf, len)
    BY <2>3, <2>4 DEF Aside
  <2>5. LET s == Load(m2, plain, buf) IN
        /\ Keeps(m, s) /\ s.free = m2.free /\ s.ptrs = m2.ptrs /\ s.hack_buf = m2.hack_buf
        /\ LiesAt(s, plain, buf, len)
        /\ Leads(m) => DOMAIN s.table = DOMAIN m2.table
    BY <1>10, <2>1, <2>a, LoadKeeps
  <2> QED
    BY <1>6, <1>9, <2>5 DEF buf, len, LiesAt
<1> HIDE DEF m3
<1>13. CASE m2.ok /\ ~inflates
  <2>1. r.m = m3 /\ r.start = Unit(mod) /\ r.len = f.size
    BY <1>1, <1>13 DEF Loaded
  <2>2. ASSUME ~packed
        PROVE  Holds(m3, f.name, Unit(mod), f.size)
    <3>1. Unit(mod) \in Nat
      BY <1>9, <1>13, PageFacts
    <3>2. m3.uefi
      BY <1>12, <1>13 DEF Keeps
    <3>3. ASSUME NEW u \in Unit(mod)..Unit(mod) + f.size - 1
          PROVE  u \in DOMAIN m3.data /\ PageOf(u) \notin Spare(m3) /\ m3.data[u] = <<f.name, u - Unit(mod)>>
      <4>1. PageOf(u) \in Run(mod, c2)
        BY <1>9, <1>13, RoundRun DEF c2
      <4>2. PageOf(u) \notin Spare(m3)
        BY <1>9, <1>12, <1>13, <3>2, <4>1 DEF Spare
      <4>3. u - Unit(mod) \in 0..f.size - 1
        BY <3>1
      <4> QED
        BY <1>3, <1>12, <1>13, <2>2, <4>2, <4>3
    <3> QED
      BY <3>1, <3>3 DEF Holds
  <2>3. Inflates(m, f) => ~packed
    BY <1>7, <1>13
  <2> QED
    BY <1>12, <1>13, <2>1, <2>2, <2>3
<1>14. CASE m2.ok /\ inflates
  <2>1. r.m = m5 /\ r.start = Unit(unc) /\ r.len = f.inflated
    BY <1>1, <1>14 DEF Loaded
  <2> DEFINE buf == Unit(unc)
             len == f.inflated
             g == Content(f)
  <2>3. buf \in Nat /\ len \in Nat /\ DOMAIN g = 0..len - 1
    BY <1>4, <1>6, <1>14, PageFacts
  <2>4. \A u \in buf..buf + len - 1 : PageOf(u) \in Run(unc, c1)
    BY <1>6, <1>14, RoundRun DEF c1
  <2>5. \A u \in buf..buf + len - 1 : PageOf(u) \in Spare(m)
    BY <1>6, <1>10, <1>14, <2>4
  <2>6. Leads(m) => \A u \in buf..buf + len - 1 : PageOf(u) \notin DOMAIN m3.table
    BY <1>12, <1>14, <2>5 DEF Leads
  <2>7. /\ Keeps(m, m4) /\ m4.free = m3.free /\ m4.ptrs = m3.ptrs /\ m4.hack_buf = m3.hack_buf
        /\ \A u \in buf..buf + len - 1 : u \in DOMAIN m4.data /\ m4.data[u] = g[u - buf]
        /\ Leads(m) => DOMAIN m4.table = DOMAIN m3.table
    <3> HIDE DEF buf, len, g
    <3>1. LET s == Load(m3, g, buf) IN
          /\ Keeps(m, s) /\ s.free = m3.free /\ s.ptrs = m3.ptrs /\ s.hack_buf = m3.hack_buf
          /\ LiesAt(s, g, buf, len)
          /\ Leads(m) => DOMAIN s.table = DOMAIN m3.table
      <4>1. Aside(m, m3, buf, len)
        BY <2>5, <2>6 DEF Aside
      <4> QED
        BY <1>12, <1>14, <2>3, <4>1, LoadKeeps
    <3> QED
      BY <3>1 DEF buf, g, LiesAt
  <2> HIDE DEF m4
  <2>8. /\ Sound(m4) /\ m4.uefi
    BY <2>7 DEF Keeps
  <2>9. m1.ptrs \in Seq(Nat \X Nat) /\ <<mod, c2>> \in Nat \X Nat
    BY <1>2, <1>6, <1>9, <1>14 DEF Sound
  <2>10. m4.ptrs = Append(m1.ptrs, <<mod, c2>>)
    BY <1>9, <1>12, <1>14, <2>7
  <2>11. SubSeq(m4.ptrs, 1, Len(m4.ptrs) - 1) = m1.ptrs
    <3> DEFINE e == <<mod, c2>>
               Q == Nat \X Nat
    <3>1. m1.ptrs \in Seq(Q) /\ e \in Q /\ m4.ptrs = Append(m1.ptrs, e)
      BY <2>9, <2>10
    <3> HIDE DEF e, Q
    <3>2. /\ SubSeq(Append(m1.ptrs, e), 1, Len(m1.ptrs)) = m1.ptrs
          /\ Len(Append(m1.ptrs, e)) = Len(m1.ptrs) + 1 /\ Len(m1.ptrs) \in Nat
      BY <3>1, Appending
    <3> QED
      BY <3>1, <3>2
  <2>12. m4.free \cup Run(mod, c2) = m1.free
    BY <1>9, <1>12, <1>14, <2>7
  <2>13. /\ IsMem(m5) /\ m5.uefi = m4.uefi /\ m5.ram = m4.ram /\ m5.memmap = m4.memmap
         /\ m5.file_buf = m4.file_buf /\ m5.hack_buf = m1.hack_buf /\ m5.wild = m4.wild /\ m5.ok = m4.ok
         /\ m5.data = m4.data /\ m5.table = m4.table /\ m5.free = m1.free /\ m5.ptrs = m1.ptrs
    BY <1>9, <1>12, <1>14, <2>7, <2>8, <2>11, <2>12 DEF Sound, IsMem, Fields
  <2> HIDE DEF m5
  <2>14. Sound(m5) /\ Lent(m5) = Lent(m1) /\ Spare(m5) = m1.free
    <3>1. {m5.ok, m5.wild} \subseteq BOOLEAN /\ m5.file_buf \in Nat /\ m5.file_buf % PAGE = 0
          /\ DOMAIN m5.data \subseteq Nat /\ m5.free \subseteq m1.free
      BY <2>8, <2>13 DEF Sound
    <3>2. m5.uefi = m1.uefi /\ m5.ram = m1.ram
      BY <1>6, <2>7, <2>13 DEF Keeps
    <3>3. Sound(m5) /\ Lent(m5) = Lent(m1)
      BY <1>6, <2>13, <3>1, <3>2, SoundStays
    <3> QED
      BY <2>8, <2>13, <3>3 DEF Spare
  <2>15. Leads(m) => Leads(m5) /\ DOMAIN m.table \subseteq DOMAIN m5.table
    <3> SUFFICES ASSUME Leads(m)
                 PROVE  Leads(m5) /\ DOMAIN m.table \subseteq DOMAIN m5.table
      OBVIOUS
    <3>1. Leads(m1) /\ Leads(m4) /\ DOMAIN m4.table = DOMAIN m.table
      BY <1>6, <1>12, <1>14, <2>7 DEF Keeps
    <3>2. \A p \in DOMAIN m5.table : \A j \in Slots : EntryLeads(m5, m5.table[p][j])
      BY <2>13, <3>1 DEF Leads, EntryLeads
    <3>3. m5.uefi => Lent(m5) \cap (m5.free \cup DOMAIN m5.table) = {}
      BY <1>6, <2>13, <2>14, <3>1 DEF Leads
    <3>4. DOMAIN m5.table \cap Spare(m5) = {}
      BY <1>6, <1>10, <2>13, <2>14, <3>1 DEF Leads
    <3>5. /\ pt \in DOMAIN m5.table /\ DOMAIN m5.table \subseteq Nat /\ ~m5.wild
          /\ \A p \in DOMAIN m5.table : DOMAIN m5.table[p] = Slots
      BY <2>13, <3>1 DEF Leads
    <3> QED
      BY <2>13, <3>1, <3>2, <3>3, <3>4, <3>5 DEF Leads
  <2>16. Keeps(m, m5)
    <3>1. Lent(m) \subseteq Lent(m5) /\ Spare(m5) \subseteq Spare(m)
      BY <1>6, <1>10, <2>14 DEF Keeps
    <3>2. m5.uefi = m.uefi /\ m5.ram = m.ram /\ m5.memmap = m.memmap
      BY <2>7, <2>13 DEF Keeps
    <3>3. \A u \in DOMAIN m.data : PageOf(u) \notin Spare(m) =>
              u \in DOMAIN m5.data /\ m5.data[u] = m.data[u]
      BY <2>7, <2>13 DEF Keeps
    <3> QED
      BY <2>14, <2>15, <3>1, <3>2, <3>3 DEF Keeps
  <2>17. ASSUME NEW u \in buf..buf + len - 1
         PROVE  u \in DOMAIN m5.data /\ PageOf(u) \notin Spare(m5) /\ m5.data[u] = <<f.name, u - buf>>
    <3>1. u - buf \in 0..len - 1
      BY <2>3
    <3>2. PageOf(u) \notin Spare(m5)
      BY <1>6, <1>14, <2>4, <2>14
    <3> QED
      BY <1>4, <2>7, <2>13, <3>1, <3>2
  <2>18. Holds(m5, f.name, buf, len)
    BY <2>3, <2>17 DEF Holds
  <2>2. Keeps(m, m5) /\ Holds(m5, f.name, Unit(unc), f.inflated)
    BY <2>16, <2>18
  <2> QED
    BY <2>1, <2>2
<1> QED
  BY <1>9, <1>11, <1>13, <1>14

-----------------------------------------------------------------------------
(* Segments.                                                               *)
Segment == [offs : Nat, filesz : Nat, vaddr : Nat, memsz : Nat]

(* The BIOS loader puts a low segment where it asks to be.                 *)
IsLow(m, s) == ~m.uefi /\ ~(s.vaddr > m.ram)

(* What keeps a segment's bytes out of the page tables: on UEFI, not more  *)
(* bytes than memory; for a low one, tables only in what the loader keeps. *)
Fits(m, s) ==
  /\ m.uefi => s.filesz <= s.memsz
  /\ IsLow(m, s) => DOMAIN m.table \subseteq 0..LoaderEnd - 1

LEMMA SegmentFacts ==
  ASSUME NEW s \in Segment, s.memsz > 0
  PROVE  /\ s.offs \in Nat /\ s.filesz \in Nat /\ s.vaddr \in Nat /\ s.memsz \in Nat
         /\ SegmentSize(s) \in Nat \ {0} /\ SegmentSize(s) % PAGE = 0 /\ s.memsz <= SegmentSize(s)
         /\ PageOf(SegmentSize(s)) \in Nat \ {0}
         /\ \A p \in Nat : \A u \in Unit(p)..Unit(p) + s.memsz - 1 :
              PageOf(u) \in Run(p, PageOf(SegmentSize(s)))
         /\ \A u \in s.vaddr..s.vaddr + s.memsz - 1 :
              PageOf(u) \in Run(PageOf(s.vaddr), PageOf(SegmentSize(s)))
<1>1. s.offs \in Nat /\ s.filesz \in Nat /\ s.vaddr \in Nat /\ s.memsz \in Nat
  BY DEF Segment
<1> DEFINE x == s.memsz + (s.vaddr % PAGE)
<1>2. x \in Nat /\ s.memsz <= x /\ x # 0
  BY <1>1 DEF PAGE
<1>3. s.vaddr = Unit(PageOf(s.vaddr)) + (s.vaddr % PAGE) /\ PageOf(s.vaddr) \in Nat
  BY <1>1 DEF PAGE, Unit, PageOf
<1>4. SegmentSize(s) = Round(x)
  BY DEF SegmentSize
<1>5. s.vaddr % PAGE \in Nat
  BY <1>1 DEF PAGE
<1> DEFINE q == s.vaddr % PAGE
<1>6. ASSUME NEW u \in s.vaddr..s.vaddr + s.memsz - 1
      PROVE  u \in Unit(PageOf(s.vaddr))..Unit(PageOf(s.vaddr)) + x - 1
  <2>1. Unit(PageOf(s.vaddr)) \in Nat
    BY <1>3, PageFacts
  <2>2. q \in Nat /\ s.vaddr = Unit(PageOf(s.vaddr)) + q /\ x = s.memsz + q
    BY <1>3, <1>5
  <2> HIDE DEF q, x
  <2> QED
    BY <1>1, <2>1, <2>2
<1> HIDE DEF x, q
<1>7. ASSUME NEW p \in Nat, NEW u \in Unit(p)..Unit(p) + s.memsz - 1
      PROVE  u \in Unit(p)..Unit(p) + x - 1
  <2>1. Unit(p) \in Nat
    BY PageFacts
  <2> QED
    BY <1>1, <1>2, <2>1
<1>8. Round(x) \in Nat /\ x <= Round(x) /\ Round(x) % PAGE = 0 /\ Unit(PageOf(Round(x))) = Round(x)
      /\ PageOf(Round(x)) \in Nat
  BY <1>2, PageFacts
<1>9. PageOf(Round(x)) # 0
  BY <1>2, <1>8 DEF Unit, PAGE
<1>10. \A p \in Nat : \A u \in Unit(p)..Unit(p) + s.memsz - 1 : PageOf(u) \in Run(p, PageOf(Round(x)))
  BY <1>2, <1>7, RoundRun
<1>11. \A u \in s.vaddr..s.vaddr + s.memsz - 1 : PageOf(u) \in Run(PageOf(s.vaddr), PageOf(Round(x)))
  BY <1>2, <1>3, <1>6, RoundRun
<1> QED
  BY <1>1, <1>2, <1>4, <1>8, <1>9, <1>10, <1>11

LEMMA Placed ==
  ASSUME NEW m, Sound(m), NEW s \in Segment, s.memsz > 0
  PROVE  LET r == Place(m, s) IN
         /\ Sound(r.m) /\ r.m.uefi = m.uefi /\ r.m.ram = m.ram /\ r.buf \in Nat
         /\ Leads(m) => Leads(r.m)
         /\ IsLow(m, s) => r.m.table = m.table
         /\ Leads(m) /\ r.m.ok /\ Fits(m, s) =>
              /\ \A u \in r.buf..r.buf + s.filesz - 1 : PageOf(u) \notin DOMAIN r.m.table
              /\ \A u \in r.buf..r.buf + s.memsz - 1 : PageOf(u) \notin DOMAIN r.m.table
<1> DEFINE size == SegmentSize(s)
           any == AnyPages(m, PageOf(size))
           top == s.vaddr + size
           r == Place(m, s)
           high == s.vaddr > m.ram
           ends == /\ Sound(r.m) /\ r.m.uefi = m.uefi /\ r.m.ram = m.ram /\ r.buf \in Nat
                   /\ Leads(m) => Leads(r.m)
                   /\ IsLow(m, s) => r.m.table = m.table
           clear == Leads(m) /\ r.m.ok /\ Fits(m, s) =>
                      /\ \A u \in r.buf..r.buf + s.filesz - 1 : PageOf(u) \notin DOMAIN r.m.table
                      /\ \A u \in r.buf..r.buf + s.memsz - 1 : PageOf(u) \notin DOMAIN r.m.table
<1> SUFFICES ends /\ clear
  OBVIOUS
<1>1. /\ s.filesz \in Nat /\ s.vaddr \in Nat /\ s.memsz \in Nat
      /\ size \in Nat \ {0} /\ size % PAGE = 0 /\ PageOf(size) \in Nat \ {0}
      /\ \A p \in Nat : \A u \in Unit(p)..Unit(p) + s.memsz - 1 : PageOf(u) \in Run(p, PageOf(size))
      /\ \A u \in s.vaddr..s.vaddr + s.memsz - 1 : PageOf(u) \in Run(PageOf(s.vaddr), PageOf(size))
  BY SegmentFacts
<1>7. Unit(LoaderEnd) \in Nat /\ m.ram \in Nat /\ m.uefi \in BOOLEAN
  BY MemoryAssumption, PageFacts DEF Sound
<1>8. Sound(Refused(m)) /\ Refused(m).uefi = m.uefi /\ Refused(m).ram = m.ram /\ ~Refused(m).ok
      /\ Refused(m).table = m.table /\ (Leads(m) => Leads(Refused(m)))
  BY RefusedFacts
<1>p. /\ m.uefi /\ high => r = IF any = Nowhere THEN [m |-> Refused(m), buf |-> 0]
                              ELSE [m |-> fw_map(efi_allocpages(m, any, PageOf(size)), Unit(any), s.vaddr, size),
                                    buf |-> Unit(any)]
      /\ m.uefi /\ ~high => r = [m |-> efi_allocpages(m, PageOf(s.vaddr), PageOf(size)), buf |-> s.vaddr]
      /\ ~m.uefi /\ s.vaddr < Unit(LoaderEnd) => r = [m |-> Refused(m), buf |-> 0]
      /\ ~m.uefi /\ s.vaddr >= Unit(LoaderEnd) /\ high =>
           r = LET behind(m1) == IF ~m1.ok THEN [m |-> m1, buf |-> 0]
                                 ELSE [m |-> [m1 EXCEPT !.file_buf = @ + size], buf |-> m1.file_buf]
               IN behind(fw_map(m, m.file_buf, s.vaddr, size))
      /\ ~m.uefi /\ ~(s.vaddr < Unit(LoaderEnd)) /\ ~high =>
           r = [m |-> [m EXCEPT !.file_buf = IF @ < Round(top) THEN Round(top) ELSE @,
                                !.ok = ~MemoryInUse(m, s)],
                buf |-> s.vaddr]
  BY <1>1, <1>7 DEF Place
<1>w. /\ s.filesz <= s.memsz => \A b \in Nat : b..b + s.filesz - 1 \subseteq b..b + s.memsz - 1
      /\ \A b \in Nat : b..b + s.filesz - 1 \subseteq Nat /\ b..b + s.memsz - 1 \subseteq Nat
  BY <1>1
<1> HIDE DEF r, size
<1>2. CASE m.uefi /\ high /\ any = Nowhere
  <2>1. r.m = Refused(m) /\ r.buf = 0
    BY <1>2, <1>p
  <2>2. ends
    <3>1. r.buf \in Nat /\ ~IsLow(m, s)
      BY <1>2, <2>1 DEF IsLow
    <3> QED
      BY <1>2, <1>8, <2>1, <3>1
  <2>3. clear
    BY <1>8, <2>1
  <2> QED
    BY <2>2, <2>3
<1>3. CASE m.uefi /\ high /\ any # Nowhere
  <2> DEFINE m1 == efi_allocpages(m, any, PageOf(size))
             m2 == fw_map(m1, Unit(any), s.vaddr, size)
  <2>1. r.m = m2 /\ r.buf = Unit(any)
    BY <1>3, <1>p
  <2>2. any \in m.free /\ Run(any, PageOf(size)) \subseteq m.free /\ any \in Nat
    BY <1>1, <1>3, AnyPagesFits, AnyPagesType
  <2> HIDE DEF any
  <2>3. m1.ok
    BY <1>1, <2>2 DEF efi_allocpages, Sound, IsMem, Fields
  <2>4. /\ Keeps(m, m1) /\ Lent(m1) = Lent(m) \cup Run(any, PageOf(size))
    BY <1>1, <1>3, <2>2, <2>3, PagesTaken
  <2>5. Keeps(m1, m2)
    <3> HIDE DEF m1
    <3>1. Sound(m1) /\ Unit(any) \in Nat
      BY <2>2, <2>4, PageFacts DEF Keeps
    <3> QED
      BY <1>1, <3>1, MapKeeps
  <2> HIDE DEF m1, m2
  <2>6. Keeps(m, m2) /\ Unit(any) \in Nat
    BY <2>2, <2>4, <2>5, KeepsOn, PageFacts
  <2>7. ends
    BY <1>3, <2>1, <2>6 DEF Keeps, IsLow
  <2>8. ASSUME Leads(m), NEW u \in Unit(any)..Unit(any) + s.memsz - 1
        PROVE  PageOf(u) \notin DOMAIN m2.table
    <3>1. PageOf(u) \in Run(any, PageOf(size))
      BY <1>1, <2>2
    <3>2. PageOf(u) \in Lent(m2)
      BY <2>4, <2>5, <3>1 DEF Keeps
    <3>3. Leads(m2) /\ m2.uefi
      BY <1>3, <2>6, <2>8 DEF Keeps
    <3> QED
      BY <3>2, <3>3 DEF Leads
  <2>9. clear
    <3> SUFFICES ASSUME Leads(m), Fits(m, s)
                 PROVE  /\ \A u \in r.buf..r.buf + s.filesz - 1 : PageOf(u) \notin DOMAIN r.m.table
                        /\ \A u \in r.buf..r.buf + s.memsz - 1 : PageOf(u) \notin DOMAIN r.m.table
      OBVIOUS
    <3>1. Unit(any)..Unit(any) + s.filesz - 1 \subseteq Unit(any)..Unit(any) + s.memsz - 1
      BY <1>3, <1>w, <2>6 DEF Fits
    <3> QED
      BY <2>1, <2>8, <3>1
  <2> QED
    BY <2>7, <2>9
<1>4. CASE m.uefi /\ ~high
  <2> DEFINE m1 == efi_allocpages(m, PageOf(s.vaddr), PageOf(size))
  <2>1. r.m = m1 /\ r.buf = s.vaddr
    BY <1>4, <1>p
  <2>2. PageOf(s.vaddr) \in Int
    BY <1>1 DEF PageOf, PAGE
  <2>3. /\ Keeps(m, m1)
        /\ m1.ok => Lent(m1) = Lent(m) \cup Run(PageOf(s.vaddr), PageOf(size))
    BY <1>1, <1>4, <2>2, PagesTaken
  <2> HIDE DEF m1
  <2>4. ends
    BY <1>1, <1>4, <2>1, <2>3 DEF Keeps, IsLow
  <2>5. ASSUME Leads(m), m1.ok, NEW u \in s.vaddr..s.vaddr + s.memsz - 1
        PROVE  PageOf(u) \notin DOMAIN m1.table
    <3>1. PageOf(u) \in Run(PageOf(s.vaddr), PageOf(size))
      BY <1>1
    <3>2. PageOf(u) \in Lent(m1)
      BY <2>3, <2>5, <3>1
    <3>3. Leads(m1) /\ m1.uefi
      BY <1>4, <2>3, <2>5 DEF Keeps
    <3> QED
      BY <3>2, <3>3 DEF Leads
  <2>6. clear
    <3> SUFFICES ASSUME Leads(m), Fits(m, s), r.m.ok
                 PROVE  /\ \A u \in r.buf..r.buf + s.filesz - 1 : PageOf(u) \notin DOMAIN r.m.table
                        /\ \A u \in r.buf..r.buf + s.memsz - 1 : PageOf(u) \notin DOMAIN r.m.table
      OBVIOUS
    <3>1. s.vaddr..s.vaddr + s.filesz - 1 \subseteq s.vaddr..s.vaddr + s.memsz - 1
      BY <1>1, <1>4, <1>w DEF Fits
    <3> QED
      BY <2>1, <2>5, <3>1
  <2> QED
    BY <2>4, <2>6
<1>5. CASE ~m.uefi /\ s.vaddr < Unit(LoaderEnd)
  <2>1. r.m = Refused(m) /\ r.buf = 0
    BY <1>5, <1>p
  <2>2. ~(Unit(LoaderEnd) <= s.vaddr)
    BY <1>1, <1>5, <1>7
  <2> QED
    BY <1>5, <1>8, <2>1, <2>2
<1>6. CASE ~m.uefi /\ ~(s.vaddr < Unit(LoaderEnd)) /\ high
  <2> DEFINE m1 == fw_map(m, m.file_buf, s.vaddr, size)
             b == m1.file_buf
             m2 == [m1 EXCEPT !.file_buf = b + size]
  <2>1. r = IF ~m1.ok THEN [m |-> m1, buf |-> 0] ELSE [m |-> m2, buf |-> b]
    <3>1. s.vaddr >= Unit(LoaderEnd)
      BY <1>1, <1>6, <1>7
    <3> QED
      BY <1>6, <1>p, <3>1
  <2>2. Keeps(m, m1)
    <3>1. m.file_buf \in Nat
      BY DEF Sound
    <3> QED
      BY <1>1, <1>6, <3>1, MapKeeps
  <2> HIDE DEF m1
  <2>3. b \in Nat /\ b + size \in Nat /\ (b + size) % PAGE = 0 /\ b <= b + size
        /\ Sound(m1) /\ ~m1.uefi
    <3>1. Sound(m1) /\ ~m1.uefi /\ b \in Nat /\ b % PAGE = 0
      BY <1>6, <2>2 DEF Keeps, Sound
    <3> HIDE DEF b
    <3>2. b + size \in Nat /\ (b + size) % PAGE = 0 /\ b <= b + size
      BY <1>1, <3>1, NextPage
    <3> QED
      BY <3>1, <3>2
  <2>4. /\ Keeps(m, m2) /\ m2.table = m1.table /\ m2.ok = m1.ok
    <3> DEFINE e == b + size
    <3>1. m1.file_buf <= e /\ e \in Nat /\ e % PAGE = 0
      BY <2>3
    <3>2. m2 = [m1 EXCEPT !.file_buf = e]
      OBVIOUS
    <3> HIDE DEF m2, e
    <3> QED
      <4>1. ~m.uefi /\ Keeps(m, m1)
        BY <1>6, <2>2
      <4>2. LET q == [m1 EXCEPT !.file_buf = e] IN
            Keeps(m, q) /\ q.table = m1.table /\ q.ok = m1.ok
        BY ONLY <3>1, <4>1, MovesOn
      <4> QED
        BY <3>2, <4>2
  <2> HIDE DEF m2
  <2>5. ends
    <3>1. r.m \in {m1, m2} /\ r.buf \in Nat /\ ~IsLow(m, s)
      BY <1>6, <2>1, <2>3 DEF IsLow
    <3> QED
      BY <2>2, <2>4, <3>1 DEF Keeps
  <2>6. ASSUME Leads(m), NEW u \in Nat, b <= u
        PROVE  PageOf(u) \notin DOMAIN m2.table
    <3>1. PageOf(u) \in Nat /\ PageOf(b) <= PageOf(u)
      BY <2>3, <2>6, PageFacts
    <3>2. PageOf(u) \in Spare(m1)
      BY <2>3, <3>1 DEF Spare
    <3>3. Leads(m1)
      BY <2>2, <2>6 DEF Keeps
    <3> QED
      BY <2>4, <3>2, <3>3 DEF Leads
  <2>7. clear
    <3> SUFFICES ASSUME Leads(m), r.m.ok
                 PROVE  /\ \A u \in r.buf..r.buf + s.filesz - 1 : PageOf(u) \notin DOMAIN r.m.table
                        /\ \A u \in r.buf..r.buf + s.memsz - 1 : PageOf(u) \notin DOMAIN r.m.table
      OBVIOUS
    <3> HIDE DEF b
    <3>1. \A c \in Nat : \A u \in b..b + c - 1 : u \in Nat /\ b <= u
      BY <2>3
    <3>2. r.m = m2 /\ r.buf = b
      BY <2>1
    <3> QED
      BY <1>1, <2>6, <3>1, <3>2
  <2> QED
    BY <2>5, <2>7
<1>9. CASE ~m.uefi /\ ~(s.vaddr < Unit(LoaderEnd)) /\ ~high
  <2> DEFINE b == IF m.file_buf < Round(top) THEN Round(top) ELSE m.file_buf
             m1 == [m EXCEPT !.file_buf = IF @ < Round(top) THEN Round(top) ELSE @,
                             !.ok = ~MemoryInUse(m, s)]
  <2>1. r.m = m1 /\ r.buf = s.vaddr
    BY <1>9, <1>p
  <2>2. b \in Nat /\ b % PAGE = 0 /\ m.file_buf <= b /\ m.file_buf \in Nat
    <3>1. top \in Nat
      BY <1>1
    <3>2. Round(top) \in Nat /\ Round(top) % PAGE = 0
      BY <3>1, PageFacts
    <3>3. m.file_buf \in Nat /\ m.file_buf % PAGE = 0
      BY DEF Sound
    <3> QED
      BY <3>2, <3>3
  <2>3. /\ IsMem(m1) /\ m1.uefi = m.uefi /\ m1.ram = m.ram /\ m1.memmap = m.memmap
        /\ m1.free = m.free /\ m1.ptrs = m.ptrs /\ m1.hack_buf = m.hack_buf /\ m1.file_buf = b
        /\ m1.ok = ~MemoryInUse(m, s) /\ m1.wild = m.wild /\ m1.data = m.data /\ m1.table = m.table
    BY DEF Sound, IsMem, Fields
  <2> HIDE DEF m1, b
  <2>4. {m1.ok, m1.wild} \subseteq BOOLEAN /\ DOMAIN m1.data \subseteq Nat /\ m1.free \subseteq m.free
    <3>1. m1.ok \in BOOLEAN
      BY <2>3
    <3> QED
      BY <2>3, <3>1 DEF Sound
  <2>5. Sound(m1) /\ Lent(m1) = Lent(m)
    BY <2>2, <2>3, <2>4, SoundStays
  <2>6. Spare(m1) \subseteq Spare(m)
    <3>1. PageOf(m.file_buf) \in Nat /\ PageOf(b) \in Nat /\ PageOf(m.file_buf) <= PageOf(b)
      BY <2>2, PageFacts
    <3> QED
      BY <1>9, <2>3, <3>1 DEF Spare
  <2>7. Leads(m) => Leads(m1)
    BY <2>3, <2>5, <2>6, SameTables
  <2>8. ends
    BY <1>1, <1>9, <2>1, <2>3, <2>5, <2>7 DEF IsLow
  <2>9. ASSUME Fits(m, s), NEW u \in Nat, s.vaddr <= u
        PROVE  PageOf(u) \notin DOMAIN m1.table
    <3>1. DOMAIN m.table \subseteq 0..LoaderEnd - 1
      BY <1>9, <2>9 DEF Fits, IsLow
    <3>2. PageOf(u) \in Nat /\ PageOf(Unit(LoaderEnd)) <= PageOf(u) /\ PageOf(Unit(LoaderEnd)) = LoaderEnd
      <4>1. Unit(LoaderEnd) <= u /\ LoaderEnd \in Nat
        BY <1>1, <1>7, <1>9, <2>9, MemoryAssumption
      <4> QED
        BY <1>7, <4>1, PageFacts
    <3>3. LoaderEnd \in Nat
      BY MemoryAssumption
    <3> QED
      BY <2>3, <3>1, <3>2, <3>3
  <2>10. clear
    <3> SUFFICES ASSUME Fits(m, s)
                 PROVE  /\ \A u \in r.buf..r.buf + s.filesz - 1 : PageOf(u) \notin DOMAIN r.m.table
                        /\ \A u \in r.buf..r.buf + s.memsz - 1 : PageOf(u) \notin DOMAIN r.m.table
      OBVIOUS
    <3>1. \A c \in Nat : \A u \in s.vaddr..s.vaddr + c - 1 : u \in Nat /\ s.vaddr <= u
      BY <1>1
    <3> QED
      BY <1>1, <2>1, <2>9, <3>1
  <2> QED
    BY <2>8, <2>10
<1> QED
  BY <1>2, <1>3, <1>4, <1>5, <1>6, <1>9

LEMMA StoreLeads ==
  ASSUME NEW m, Sound(m), NEW f, DOMAIN f \subseteq Nat,
         Leads(m) => \A u \in DOMAIN f : PageOf(u) \notin DOMAIN m.table
  PROVE  LET r == Store(m, f) IN
         /\ Sound(r) /\ r.uefi = m.uefi /\ r.ram = m.ram /\ r.ok = m.ok /\ (Leads(m) => Leads(r))
         /\ Leads(m) => DOMAIN r.table = DOMAIN m.table
         /\ DOMAIN r.table \subseteq DOMAIN m.table
<1> DEFINE r == Store(m, f)
<1>1. /\ Sound(r) /\ Spare(r) = Spare(m) /\ Lent(r) = Lent(m)
      /\ r.uefi = m.uefi /\ r.ram = m.ram /\ r.free = m.free /\ r.ok = m.ok /\ r.wild = m.wild
      /\ DOMAIN r.table = DOMAIN m.table \ {PageOf(u) : u \in DOMAIN f}
      /\ \A p \in DOMAIN r.table : r.table[p] = m.table[p]
  BY Stored
<1> HIDE DEF r
<1>2. Leads(m) => DOMAIN r.table = DOMAIN m.table
  BY <1>1
<1>3. Leads(m) => Leads(r)
  BY <1>1, <1>2, SameTables
<1> QED
  BY <1>1, <1>2, <1>3 DEF r

(* One segment: a sound memory stays sound, and tables that it misses lead *)
(* where they did.                                                         *)
LEMMA Filled ==
  ASSUME NEW m, Sound(m), NEW s \in Segment, NEW file, file.size \in Nat, NEW cut
  PROVE  LET r == fw_loadseg(m, file, s, cut) IN
         /\ Sound(r) /\ r.uefi = m.uefi /\ r.ram = m.ram
         /\ Leads(m) /\ Fits(m, s) => Leads(r)
         /\ IsLow(m, s) => DOMAIN r.table \subseteq DOMAIN m.table
<1> DEFINE r == fw_loadseg(m, file, s, cut)
           p == Place(m, s)
           x == IF s.filesz = 0 THEN p.m ELSE fw_read(p.m, file, s.offs, s.filesz, p.buf, cut)
           y == memset(x, p.buf + s.filesz, s.memsz - s.filesz)
<1>s. s.offs \in Nat /\ s.filesz \in Nat /\ s.vaddr \in Nat /\ s.memsz \in Nat
  BY DEF Segment
<1>1. r = IF s.memsz = 0 \/ file.size = 0 THEN [m EXCEPT !.ok = TRUE]
          ELSE IF ~p.m.ok \/ p.m.wild THEN p.m ELSE y
  BY DEF fw_loadseg
<1> SUFFICES /\ Sound(r) /\ r.uefi = m.uefi /\ r.ram = m.ram
             /\ Leads(m) /\ Fits(m, s) => Leads(r)
             /\ IsLow(m, s) => DOMAIN r.table \subseteq DOMAIN m.table
  OBVIOUS
<1> HIDE DEF r
<1>2. CASE s.memsz = 0 \/ file.size = 0
  <2>1. /\ IsMem(r) /\ r.uefi = m.uefi /\ r.ram = m.ram /\ r.memmap = m.memmap
        /\ r.free = m.free /\ r.ptrs = m.ptrs /\ r.hack_buf = m.hack_buf /\ r.file_buf = m.file_buf
        /\ r.ok = TRUE /\ r.wild = m.wild /\ r.data = m.data /\ r.table = m.table
    <3>1. r = [m EXCEPT !.ok = TRUE]
      BY <1>1, <1>2
    <3> QED
      BY <3>1 DEF Sound, IsMem, Fields
  <2>2. {r.ok, r.wild} \subseteq BOOLEAN /\ DOMAIN r.data \subseteq Nat /\ r.free \subseteq m.free
        /\ r.file_buf \in Nat /\ r.file_buf % PAGE = 0
    BY <2>1 DEF Sound
  <2>3. Sound(r) /\ Lent(r) = Lent(m)
    BY <2>1, <2>2, SoundStays
  <2>4. Spare(r) = Spare(m)
    BY <2>1 DEF Spare
  <2>5. Leads(m) => Leads(r)
    BY <2>1, <2>3, <2>4, SameTables
  <2> QED
    BY <2>1, <2>3, <2>5
<1>3. CASE s.memsz # 0 /\ file.size # 0
  <2>p. /\ Sound(p.m) /\ p.m.uefi = m.uefi /\ p.m.ram = m.ram /\ p.buf \in Nat
        /\ Leads(m) => Leads(p.m)
        /\ IsLow(m, s) => p.m.table = m.table
        /\ Leads(m) /\ p.m.ok /\ Fits(m, s) =>
             /\ \A u \in p.buf..p.buf + s.filesz - 1 : PageOf(u) \notin DOMAIN p.m.table
             /\ \A u \in p.buf..p.buf + s.memsz - 1 : PageOf(u) \notin DOMAIN p.m.table
    <3>1. s.memsz > 0
      BY <1>s, <1>3
    <3> QED
      BY <3>1, Placed
  <2> DEFINE b == p.buf
             m0 == p.m
             clear == Leads(m) /\ Fits(m, s)
  <2> HIDE DEF p
  <2>1. CASE ~m0.ok \/ m0.wild
    <3>1. r = m0
      BY <1>1, <1>3, <2>1
    <3> QED
      BY <2>p, <3>1
  <2>2. CASE m0.ok /\ ~m0.wild
    <3>1. r = y
      BY <1>1, <1>3, <2>2
    <3>2. /\ Sound(x) /\ x.uefi = m.uefi /\ x.ram = m.ram /\ x.ok = m0.ok
          /\ DOMAIN x.table \subseteq DOMAIN m0.table /\ (clear => Leads(x))
      <4>1. CASE x = m0
        BY <2>p, <4>1
      <4>2. CASE x # m0
        <5> DEFINE f == FileUnits(file, s.offs, s.filesz, b)
        <5>1. x = Store(m0, f) /\ s.offs < file.size
          BY <1>s, <4>2 DEF fw_read
        <5>2. DOMAIN f \subseteq b..b + s.filesz - 1
          <6> DEFINE k == IF s.offs + s.filesz > file.size THEN file.size - s.offs ELSE s.filesz
          <6>1. k \in Nat /\ k <= s.filesz
            BY <1>s, <5>1
          <6>2. DOMAIN f = b..b + k - 1
            BY DEF FileUnits
          <6> HIDE DEF k, b
          <6> QED
            BY <1>s, <2>p, <6>1, <6>2 DEF b
        <5> HIDE DEF f, x
        <5>3. DOMAIN f \subseteq Nat
          BY <1>s, <2>p, <5>2
        <5>4. clear => \A u \in DOMAIN f : PageOf(u) \notin DOMAIN m0.table
          BY <2>p, <2>2, <5>2
        <5>5. /\ Sound(Store(m0, f)) /\ Store(m0, f).uefi = m0.uefi /\ Store(m0, f).ram = m0.ram
              /\ Store(m0, f).ok = m0.ok
              /\ DOMAIN Store(m0, f).table \subseteq DOMAIN m0.table
          BY <2>p, <5>3, Stored
        <5>6. ASSUME clear
              PROVE  Leads(Store(m0, f))
          BY <2>p, <5>3, <5>4, <5>6, StoreLeads
        <5> QED
          BY <2>p, <5>1, <5>5, <5>6
      <4> QED
        BY <4>1, <4>2
    <3> HIDE DEF x
    <3>3. /\ Sound(y) /\ y.uefi = m.uefi /\ y.ram = m.ram /\ y.ok = m0.ok
          /\ DOMAIN y.table \subseteq DOMAIN x.table /\ (clear => Leads(y))
      <4> DEFINE from == b + s.filesz
                 len == s.memsz - s.filesz
                 f == [u \in from..from + len - 1 |-> Zero]
      <4>1. CASE len <= 0
        <5>1. y = x
          BY <4>1 DEF memset
        <5> QED
          BY <3>2, <5>1
      <4>2. CASE ~(len <= 0)
        <5>1. y = Store(x, f)
          BY <4>2 DEF memset
        <5>2. DOMAIN f \subseteq b..b + s.memsz - 1 /\ DOMAIN f \subseteq Nat
          BY <1>s, <2>p
        <5> HIDE DEF f, y
        <5>3. clear => \A u \in DOMAIN f : PageOf(u) \notin DOMAIN x.table
          BY <2>p, <2>2, <3>2, <5>2
        <5>4. /\ Sound(Store(x, f)) /\ Store(x, f).uefi = x.uefi /\ Store(x, f).ram = x.ram
              /\ Store(x, f).ok = x.ok
              /\ DOMAIN Store(x, f).table \subseteq DOMAIN x.table
          BY <3>2, <5>2, Stored
        <5>5. ASSUME clear
              PROVE  Leads(Store(x, f))
          BY <3>2, <5>2, <5>3, <5>5, StoreLeads
        <5> QED
          BY <3>2, <5>1, <5>4, <5>5
      <4> QED
        BY <4>1, <4>2
    <3> HIDE DEF y
    <3> QED
      BY <2>p, <2>2, <3>1, <3>2, <3>3
  <2> QED
    BY <2>1, <2>2, <2>p DEF Sound
<1> QED
  BY <1>s, <1>2, <1>3

(* What the firmware lent it gets back.                                    *)
LEMMA FreedFacts ==
  ASSUME NEW m, Sound(m)
  PROVE  LET r == efi_freepages(m) IN
         /\ Sound(r) /\ r.uefi = m.uefi /\ r.ram = m.ram /\ r.table = m.table /\ r.wild = m.wild
         /\ Leads(m) => Leads(r)
<1> DEFINE r == efi_freepages(m)
<1>1. CASE ~m.uefi
  BY <1>1 DEF efi_freepages
<1>2. CASE m.uefi
  <2>1. /\ IsMem(r) /\ r.uefi = m.uefi /\ r.ram = m.ram /\ r.memmap = m.memmap
        /\ r.file_buf = m.file_buf /\ r.ok = m.ok /\ r.wild = m.wild /\ r.data = m.data /\ r.table = m.table
        /\ r.hack_buf = {} /\ r.ptrs = <<>>
        /\ r.free = m.free \cup m.hack_buf
                       \cup UNION {Run(x[1], x[2]) : x \in {m.ptrs[k] : k \in DOMAIN m.ptrs}}
    BY <1>2 DEF efi_freepages, Sound, IsMem, Fields
  <2> HIDE DEF r
  <2>2. r.free = m.free \cup Lent(m)
    BY <2>1 DEF Lent
  <2>3. Lent(r) = {}
    <3>1. {r.ptrs[k] : k \in DOMAIN r.ptrs} = {}
      BY <2>1
    <3>2. {Run(x[1], x[2]) : x \in {}} = {}
      OBVIOUS
    <3>3. {Run(x[1], x[2]) : x \in {r.ptrs[k] : k \in DOMAIN r.ptrs}} = {}
      BY <3>1, <3>2
    <3> QED
      BY <2>1, <3>3 DEF Lent
  <2>4. Lent(m) \subseteq Nat
    <3>1. ASSUME NEW y \in {m.ptrs[k] : k \in DOMAIN m.ptrs}
          PROVE  Run(y[1], y[2]) \subseteq Nat
      <4>1. y \in Nat \X Nat
        BY DEF Sound
      <4> QED
        BY <4>1 DEF Run
    <3> QED
      BY <3>1 DEF Lent, Sound
  <2>5. Limited(r)
    BY <2>2, <2>3 DEF Limited, Sound
  <2>6. Sound(r)
    <3>1. {r.uefi, r.ok, r.wild} \subseteq BOOLEAN /\ r.free \subseteq Nat /\ r.hack_buf \subseteq Nat
          /\ r.file_buf \in Nat /\ r.file_buf % PAGE = 0 /\ r.ram \in Nat /\ DOMAIN r.data \subseteq Nat
      BY <2>1, <2>2, <2>4 DEF Sound
    <3>2. r.ptrs \in Seq(Nat \X Nat)
      BY <2>1
    <3> QED
      BY <2>1, <2>5, <3>1, <3>2 DEF Sound
  <2>7. Leads(m) => Leads(r)
    <3> SUFFICES ASSUME Leads(m)
                 PROVE  Leads(r)
      OBVIOUS
    <3>1. \A p \in DOMAIN r.table : \A j \in Slots : EntryLeads(r, r.table[p][j])
      BY <2>1 DEF Leads, EntryLeads
    <3>2. Spare(r) = m.free \cup Lent(m) /\ Spare(m) = m.free
      BY <1>2, <2>1, <2>2 DEF Spare
    <3>3. DOMAIN r.table \cap Spare(r) = {}
      BY <1>2, <2>1, <3>2 DEF Leads
    <3> QED
      BY <2>1, <2>3, <3>1, <3>3 DEF Leads
  <2> QED
    BY <2>1, <2>6, <2>7 DEF r
<1> QED
  BY <1>1, <1>2

-----------------------------------------------------------------------------
(* Lists of tags.                                                          *)
IsList(s) == s \in Seq(ToSet(s))

LEMMA ListOfOne ==
  ASSUME NEW e
  PROVE  IsList(<<e>>) /\ ToSet(<<e>>) = {e} /\ IsList(<<>>) /\ ToSet(<<>>) = {}
<1>1. ToSet(<<e>>) = {e} /\ ToSet(<<>>) = {}
  BY DEF ToSet
<1> QED
  BY <1>1 DEF IsList

LEMMA Joined ==
  ASSUME NEW s, NEW t, IsList(s), IsList(t)
  PROVE  IsList(s \o t) /\ ToSet(s \o t) = ToSet(s) \cup ToSet(t)
<1> DEFINE S == ToSet(s) \cup ToSet(t)
           j == s \o t
<1>1. s \in Seq(S) /\ t \in Seq(S)
  BY DEF IsList
<1>2. Len(s) \in Nat /\ Len(t) \in Nat /\ DOMAIN s = 1..Len(s) /\ DOMAIN t = 1..Len(t)
  BY <1>1
<1>3. ToSet(s) = {s[k] : k \in 1..Len(s)} /\ ToSet(t) = {t[k] : k \in 1..Len(t)}
  BY <1>2 DEF ToSet
<1> HIDE DEF S
<1>4. j \in Seq(S) /\ Len(j) = Len(s) + Len(t) /\ DOMAIN j = 1..Len(j)
      /\ \A k \in 1..Len(j) : j[k] = IF k <= Len(s) THEN s[k] ELSE t[k - Len(s)]
  BY <1>1, <1>2
<1> HIDE DEF j
<1>5. ASSUME NEW x \in ToSet(s)
      PROVE  x \in ToSet(j)
  <2>1. PICK k \in 1..Len(s) : x = s[k]
    BY <1>3
  <2>2. k \in 1..Len(j) /\ k <= Len(s)
    BY <1>2, <1>4
  <2> QED
    BY <1>4, <2>1, <2>2 DEF ToSet
<1>6. ASSUME NEW x \in ToSet(t)
      PROVE  x \in ToSet(j)
  <2>1. PICK k \in 1..Len(t) : x = t[k]
    BY <1>3
  <2>2. Len(s) + k \in 1..Len(j) /\ ~(Len(s) + k <= Len(s)) /\ (Len(s) + k) - Len(s) = k
    BY <1>2, <1>4
  <2>3. j[Len(s) + k] = t[k]
    BY <1>4, <2>2
  <2> QED
    BY <1>4, <2>1, <2>2, <2>3 DEF ToSet
<1>7. ToSet(j) \subseteq S
  BY <1>4 DEF ToSet
<1>8. ToSet(j) = S
  BY <1>5, <1>6, <1>7 DEF S
<1> QED
  BY <1>4, <1>8 DEF IsList, S, j

LEMMA Appended ==
  ASSUME NEW s, NEW e, IsList(s)
  PROVE  IsList(Append(s, e)) /\ ToSet(Append(s, e)) = ToSet(s) \cup {e}
<1> DEFINE S == ToSet(s) \cup {e}
<1>1. s \in Seq(S) /\ e \in S
  BY DEF IsList
<1>2. ToSet(s) = {s[k] : k \in DOMAIN s}
  BY DEF ToSet
<1> HIDE DEF S
<1>3. Append(s, e) \in Seq(S)
      /\ {Append(s, e)[k] : k \in DOMAIN Append(s, e)} = {s[k] : k \in DOMAIN s} \cup {e}
  BY <1>1, Appending
<1>4. ToSet(Append(s, e)) = ToSet(s) \cup {e}
  BY <1>2, <1>3 DEF ToSet
<1> QED
  BY <1>3, <1>4 DEF IsList, S

-----------------------------------------------------------------------------
(* The modules.                                                            *)
HoldsTag(t) ==
  t.type = "module" => t.end \in Nat /\ Holds(mem, t.name, t.start, t.end - t.start)

(* Every module's range holds it, and is handed out to nothing else.       *)
ModulesHeld == \A t \in ToSet(tags) : HoldsTag(t)

(* Until the modules come the list of tags has none; once a key cuts the   *)
(* BIOS loader's reads short what it lists as modules may hold anything,   *)
(* and it starts over instead of entering the kernel.                      *)
ModInv ==
  /\ machine \in Machines
  /\ Sound(mem) /\ mem.uefi = machine.uefi
  /\ {key, rq, bkp} \subseteq BOOLEAN
  /\ bkp => ~rq
  /\ IsList(tags)
  /\ n \in Nat /\ zero_page \in Nat /\ over \in BOOLEAN
  /\ pc = "segments" => loaded \in DOMAIN machine.files /\ i \in Nat \ {0}
  /\ pc \in {"kernel", "segments"} => \A t \in ToSet(tags) : t.type # "module"
  /\ pc \in {"modules", "decide"} => (rq /\ ~machine.uefi) \/ ModulesHeld
  /\ pc = "run" => ModulesHeld

(* On UEFI there is room to inflate the files.  Without it the packed file *)
(* is handed over as the module.                                           *)
RoomToInflate == pc = "modules" => \A x \in DOMAIN machine.files : Inflates(mem, File(x))

LEMMA MachineFacts ==
  ASSUME NEW mc \in Machines
  PROVE  /\ mc.uefi \in BOOLEAN /\ mc.ram \in Nat /\ mc.framebuffer \in Nat
         /\ mc.free \cup mc.hack_buf \subseteq Nat /\ IsFiniteSet(mc.free \cup mc.hack_buf)
         /\ \A x \in DOMAIN mc.files :
              /\ mc.files[x].size \in Nat /\ mc.files[x].inflated \in Nat
              /\ mc.files[x].segments \in Seq(Segment)
BY MachinesAssumption DEF Segment

LEMMA InitSound ==
  ASSUME NEW mc \in Machines
  PROVE  LET m == fw_init(mc) IN Sound(m) /\ m.uefi = mc.uefi /\ Lent(m) = mc.hack_buf
<1> DEFINE m == fw_init(mc)
<1>1. /\ IsMem(m) /\ m.uefi = mc.uefi /\ m.file_buf = Unit(FileStart) /\ DOMAIN m.data = {}
      /\ m.free = mc.free /\ m.hack_buf = mc.hack_buf /\ m.ptrs = <<>> /\ m.ram = mc.ram
      /\ m.ok = TRUE /\ m.wild = FALSE
  BY DEF fw_init, IsMem, Fields
<1> HIDE DEF m
<1>2. Lent(m) = mc.hack_buf
  <2>1. {m.ptrs[k] : k \in DOMAIN m.ptrs} = {}
    BY <1>1
  <2>2. {Run(x[1], x[2]) : x \in {}} = {}
    OBVIOUS
  <2>3. {Run(x[1], x[2]) : x \in {m.ptrs[k] : k \in DOMAIN m.ptrs}} = {}
    BY <2>1, <2>2
  <2> QED
    BY <1>1, <2>3 DEF Lent
<1>3. Limited(m)
  BY <1>1, <1>2, MachineFacts DEF Limited
<1>4. m.file_buf \in Nat /\ m.file_buf % PAGE = 0
  BY <1>1, MemoryAssumption, PageFacts
<1>5. m.uefi \in BOOLEAN /\ m.free \subseteq Nat /\ m.hack_buf \subseteq Nat /\ m.ram \in Nat
  BY <1>1, MachineFacts
<1>6. m.ptrs \in Seq(Nat \X Nat)
  BY <1>1
<1>7. Sound(m)
  <2>1. {m.uefi, m.ok, m.wild} \subseteq BOOLEAN
    BY <1>1, <1>5
  <2>2. DOMAIN m.data \subseteq Nat
    BY <1>1
  <2> QED
    BY <1>1, <1>3, <1>4, <1>5, <1>6, <2>1, <2>2 DEF Sound
<1> QED
  BY <1>1, <1>2, <1>7 DEF m

LEMMA InitMod == Init => ModInv
<1> SUFFICES ASSUME Init
             PROVE  ModInv
  OBVIOUS
<1>1. Sound(mem) /\ mem.uefi = machine.uefi
  BY InitSound DEF Init
<1>2. IsList(tags)
  BY ListOfOne DEF Init
<1> QED
  BY <1>1, <1>2 DEF Init, ModInv

(* A module is loaded and filed.                                           *)
LEMMA ModuleAdded ==
  ASSUME ModInv, NEW x \in DOMAIN machine.files, Inflates(mem, File(x)),
         (rq /\ ~machine.uefi) \/ ModulesHeld,
         rq' = Polled, machine' = machine, AddModule(File(x))
  PROVE  /\ Sound(mem') /\ mem'.uefi = machine.uefi /\ IsList(tags') /\ n' \in Nat
         /\ (rq' /\ ~machine.uefi) \/ ModulesHeld'
<1> DEFINE f == File(x)
<1>1. PICK r : r = LoadModule(mem, f) /\ mem' = r.m
  BY DEF AddModule
<1>2. f.size \in Nat /\ f.inflated \in Nat /\ Sound(mem) /\ mem.uefi = machine.uefi
      /\ (Cut <=> rq' /\ ~machine.uefi) /\ IsList(tags) /\ machine.uefi \in BOOLEAN
  BY MachineFacts DEF ModInv, File, Cut
<1> HIDE DEF f
<1>3. Keeps(mem, r.m) /\ (r.start # Nowhere /\ ~Cut => Holds(r.m, f.name, r.start, r.len))
  <2>1. CASE mem.uefi
    BY <1>1, <1>2, <2>1, ModuleOnUefi DEF f
  <2>2. CASE ~mem.uefi
    BY <1>1, <1>2, <2>2, ModuleOnBios
  <2> QED
    BY <2>1, <2>2
<1>4. Sound(mem') /\ mem'.uefi = machine.uefi
  BY <1>1, <1>2, <1>3 DEF Keeps
<1>5. \/ tags' = tags
      \/ r.start # Nowhere /\ tags' = Append(tags, ModuleTag(f, r))
  BY <1>1 DEF AddModule, f
<1>6. IsList(tags') /\ (tags' # tags => ToSet(tags') = ToSet(tags) \cup {ModuleTag(f, r)})
  BY <1>2, <1>5, Appended
<1>7. ASSUME ~Cut
      PROVE  ModulesHeld'
  <2>1. ModulesHeld
    BY <1>2, <1>7 DEF Cut, Polled
  <2>2. ASSUME NEW t \in ToSet(tags), t.type = "module"
        PROVE  t.end \in Nat /\ Holds(mem', t.name, t.start, t.end - t.start)
    <3>1. t.end \in Nat /\ Holds(mem, t.name, t.start, t.end - t.start)
      BY <2>1, <2>2 DEF ModulesHeld, HoldsTag
    <3> QED
      BY <1>1, <1>3, <3>1, HoldsOn
  <2>3. ASSUME r.start # Nowhere
        PROVE  LET t == ModuleTag(f, r) IN
               t.end \in Nat /\ Holds(mem', t.name, t.start, t.end - t.start)
    <3>1. Holds(r.m, f.name, r.start, r.len)
      BY <1>3, <1>7, <2>3
    <3>2. ModuleTag(f, r).name = f.name /\ ModuleTag(f, r).start = r.start
          /\ ModuleTag(f, r).end = r.start + r.len
      BY DEF ModuleTag, Tag
    <3>3. (r.start + r.len) - r.start = r.len /\ r.start + r.len \in Nat
      BY <3>1 DEF Holds
    <3> QED
      BY <1>1, <3>1, <3>2, <3>3
  <2>4. ASSUME NEW t \in ToSet(tags')
        PROVE  HoldsTag(t)'
    <3>1. t \in ToSet(tags) \/ (r.start # Nowhere /\ t = ModuleTag(f, r))
      BY <1>5, <1>6
    <3> QED
      BY <2>2, <2>3, <3>1 DEF HoldsTag
  <2> QED
    BY <2>4 DEF ModulesHeld
<1>8. n' \in Nat
  <2>1. n' \in {n, n + 1} /\ n \in Nat
    BY DEF AddModule, ModInv
  <2> QED
    BY <2>1
<1> QED
  BY <1>2, <1>4, <1>6, <1>7, <1>8

(* fw_loadsetup has the BIOS loader start again where files go; on UEFI it *)
(* takes pages for the tags.                                               *)
LEMMA SetupSound ==
  ASSUME NEW m, Sound(m), NEW left \in SUBSET m.free
  PROVE  LET r == [m EXCEPT !.file_buf = IF m.uefi THEN @ ELSE Unit(FileStart), !.free = left] IN
         /\ Sound(r) /\ r.uefi = m.uefi /\ r.ram = m.ram /\ r.table = m.table
         /\ Leads(m) /\ (~m.uefi => DOMAIN m.table \subseteq 0..LoaderEnd - 1) => Leads(r)
<1> DEFINE r == [m EXCEPT !.file_buf = IF m.uefi THEN @ ELSE Unit(FileStart), !.free = left]
<1>1. /\ IsMem(r) /\ r.uefi = m.uefi /\ r.ram = m.ram /\ r.memmap = m.memmap
      /\ r.free = left /\ r.ptrs = m.ptrs /\ r.hack_buf = m.hack_buf
      /\ r.file_buf = IF m.uefi THEN m.file_buf ELSE Unit(FileStart)
      /\ r.ok = m.ok /\ r.wild = m.wild /\ r.data = m.data /\ r.table = m.table
  BY DEF Sound, IsMem, Fields
<1> HIDE DEF r
<1>2. r.file_buf \in Nat /\ r.file_buf % PAGE = 0
  <2>1. m.file_buf \in Nat /\ m.file_buf % PAGE = 0
    BY DEF Sound
  <2>2. Unit(FileStart) \in Nat /\ Unit(FileStart) % PAGE = 0
    BY MemoryAssumption, PageFacts
  <2> QED
    BY <1>1, <2>1, <2>2
<1>3. {r.ok, r.wild} \subseteq BOOLEAN /\ DOMAIN r.data \subseteq Nat /\ r.free \subseteq m.free
  BY <1>1 DEF Sound
<1>4. Sound(r) /\ Lent(r) = Lent(m)
  BY <1>1, <1>2, <1>3, SoundStays
<1>5. ASSUME Leads(m), ~m.uefi => DOMAIN m.table \subseteq 0..LoaderEnd - 1
      PROVE  Leads(r)
  <2>1. DOMAIN r.table \cap Spare(r) = {}
    <3>1. CASE m.uefi
      BY <1>1, <1>5, <3>1 DEF Leads, Spare
    <3>2. CASE ~m.uefi
      <4>1. PageOf(r.file_buf) = FileStart /\ LoaderEnd <= FileStart /\ FileStart \in Nat /\ LoaderEnd \in Nat
        BY <1>1, <3>2, MemoryAssumption, PageFacts
      <4> QED
        BY <1>1, <1>5, <3>2, <4>1 DEF Spare
    <3> QED
      BY <3>1, <3>2
  <2>2. \A p \in DOMAIN r.table : \A j \in Slots : EntryLeads(r, r.table[p][j])
    BY <1>1, <1>5 DEF Leads, EntryLeads
  <2> QED
    BY <1>1, <1>4, <1>5, <2>1, <2>2 DEF Leads
<1> QED
  BY <1>1, <1>4, <1>5 DEF r

LEMMA SetupMem ==
  ASSUME fw_loadsetup, Sound(mem), mem.uefi = machine.uefi
  PROVE  /\ Sound(mem') /\ mem'.uefi = mem.uefi /\ mem'.ram = mem.ram /\ mem'.table = mem.table
         /\ Leads(mem) /\ (~mem.uefi => Bare(mem)) => Leads(mem')
<1> DEFINE left == IF AsksForTags /\ ~NoTags THEN mem.free \ Run(TagsPlace, TAGS_MAX) ELSE mem.free
<1>1. mem' = [mem EXCEPT !.file_buf = IF mem.uefi THEN @ ELSE Unit(FileStart), !.free = left]
  BY DEF fw_loadsetup
<1>2. left \in SUBSET mem.free
  OBVIOUS
<1> HIDE DEF left
<1> QED
  BY <1>1, <1>2, SetupSound DEF Bare

(* Linux's parameters are put into a page of their own, and nothing is     *)
(* written over tables unless the command line behind them is.             *)
LEMMA ParamsPut ==
  ASSUME NEW m, Sound(m), NEW p \in Nat
  PROVE  LET r == PutParams(m, p) IN
         /\ Sound(r) /\ r.uefi = m.uefi /\ r.ram = m.ram /\ DOMAIN r.table \subseteq DOMAIN m.table
         /\ Leads(m) /\ ~(m.uefi /\ \E u \in ParamUnits(p) : PageOf(u) \in DOMAIN m.table) => Leads(r)
<1>1. CASE ~m.uefi
  BY <1>1 DEF PutParams
<1>2. CASE m.uefi
  <2> DEFINE a == [m EXCEPT !.free = @ \ {p}]
             f == [u \in ParamUnits(p) |-> Params]
  <2>1. /\ IsMem(a) /\ a.uefi = m.uefi /\ a.ram = m.ram /\ a.memmap = m.memmap
        /\ a.free = m.free \ {p} /\ a.ptrs = m.ptrs /\ a.hack_buf = m.hack_buf
        /\ a.file_buf = m.file_buf /\ a.ok = m.ok /\ a.wild = m.wild
        /\ a.data = m.data /\ a.table = m.table
    BY DEF Sound, IsMem, Fields
  <2>2. PutParams(m, p) = Store(a, f)
    BY <1>2 DEF PutParams
  <2>3. DOMAIN f = ParamUnits(p) /\ ParamUnits(p) \subseteq Nat
    BY DEF ParamUnits, Units, Unit, PAGE
  <2> HIDE DEF a, f
  <2>4. {a.ok, a.wild} \subseteq BOOLEAN /\ a.free \subseteq m.free /\ DOMAIN a.data \subseteq Nat
        /\ a.file_buf \in Nat /\ a.file_buf % PAGE = 0
    BY <2>1 DEF Sound
  <2>5. Sound(a) /\ Lent(a) = Lent(m)
    BY <2>1, <2>4, SoundStays
  <2>6. Spare(a) \subseteq Spare(m)
    BY <1>2, <2>1 DEF Spare
  <2>7. Leads(m) => Leads(a)
    BY <2>1, <2>4, <2>5, <2>6, SameTables
  <2>8. /\ Sound(Store(a, f)) /\ Store(a, f).uefi = a.uefi /\ Store(a, f).ram = a.ram
        /\ DOMAIN Store(a, f).table \subseteq DOMAIN a.table
    BY <2>3, <2>5, Stored
  <2>9. ASSUME Leads(m), ~\E u \in ParamUnits(p) : PageOf(u) \in DOMAIN m.table
        PROVE  Leads(Store(a, f))
    <3>1. \A u \in DOMAIN f : PageOf(u) \notin DOMAIN a.table
      BY <2>1, <2>3, <2>9
    <3>2. DOMAIN f \subseteq Nat /\ Leads(a)
      BY <2>3, <2>7, <2>9
    <3> QED
      BY <2>5, <3>1, <3>2, StoreLeads
  <2> QED
    BY <1>2, <2>1, <2>2, <2>8, <2>9
<1> QED
  BY <1>1, <1>2 DEF Sound

(* What fw_loadkernel does to memory.                                      *)
LEMMA KernelMem ==
  ASSUME fw_loadkernel, Sound(mem), mem.uefi = machine.uefi, zero_page \in Nat, over \in BOOLEAN
  PROVE  /\ Sound(mem') /\ mem'.uefi = mem.uefi /\ mem'.ram = mem.ram
         /\ DOMAIN mem'.table \subseteq DOMAIN mem.table
         /\ zero_page' \in Nat /\ over' \in BOOLEAN /\ (over => over')
         /\ Leads(mem) /\ ~over' => Leads(mem')
         /\ pc = "kernel" /\ rq' = Polled /\ i' = 1 /\ n' = 0
         /\ UNCHANGED <<machine, key, bkp, tags>>
         /\ pc' \in {"modules", "err", "segments"}
         /\ pc' = "segments" => loaded' \in DOMAIN machine.files
<1> DEFINE m == efi_freepages(mem)
           p == ZeroPage(m)
<1>1. /\ Sound(m) /\ m.uefi = mem.uefi /\ m.ram = mem.ram /\ m.table = mem.table
      /\ Leads(mem) => Leads(m)
  BY FreedFacts
<1>2. /\ pc = "kernel" /\ rq' = Polled /\ i' = 1 /\ n' = 0 /\ UNCHANGED <<machine, key, bkp, tags>>
      /\ pc' \in {"modules", "err", "segments"}
      /\ pc' = "segments" => loaded' \in DOMAIN machine.files
      /\ \/ mem' = m /\ UNCHANGED aside
         \/ /\ p # Nowhere /\ mem' = PutParams(m, p) /\ zero_page' = p
            /\ over' = (over \/ (m.uefi /\ \E u \in ParamUnits(p) : PageOf(u) \in DOMAIN m.table))
  <2> HIDE DEF m
  <2>0. efi_freepages(mem) = m
    BY DEF m
  <2>1. pc = "kernel" /\ rq' = Polled /\ i' = 1 /\ n' = 0 /\ UNCHANGED <<machine, key, bkp, tags>>
    BY DEF fw_loadkernel
  <2>2. CASE KernelFile = None
    BY <2>0, <2>1, <2>2 DEF fw_loadkernel, NoKernel, aside
  <2>3. CASE KernelFile # None
    <3> DEFINE f == File(KernelFile)
    <3>1. KernelFile \in DOMAIN machine.files
      BY <2>3 DEF KernelFile, fw_open
    <3>2. \/ \E mode : BadKernel(mode)
          \/ Kernel(f) /\ ~(f.format = "linux" /\ p = Nowhere)
      BY <2>0, <2>3 DEF fw_loadkernel
    <3> HIDE DEF f, p
    <3>3. CASE \E mode : BadKernel(mode)
      BY <2>0, <2>1, <3>3 DEF BadKernel, aside
    <3>4. CASE Kernel(f) /\ ~(f.format = "linux" /\ p = Nowhere)
      <4>1. ZeroPage(m) = p
        BY DEF p
      <4> QED
        BY <2>0, <2>1, <3>1, <3>4, <4>1 DEF Kernel, aside
    <3> QED
      BY <3>2, <3>3, <3>4
  <2> QED
    BY <2>2, <2>3
<1>3. p # Nowhere => p \in Nat
  <2>1. AnyPages(m, 1) # Nowhere => AnyPages(m, 1) \in Nat
    BY <1>1, AnyPagesType
  <2>2. FileStart - 1 \in Nat
    BY MemoryAssumption
  <2> QED
    BY <2>1, <2>2 DEF ZeroPage
<1> HIDE DEF m, p
<1>4. CASE mem' = m /\ UNCHANGED aside
  BY <1>1, <1>2, <1>4 DEF aside
<1>5. CASE /\ p # Nowhere /\ mem' = PutParams(m, p) /\ zero_page' = p
           /\ over' = (over \/ (m.uefi /\ \E u \in ParamUnits(p) : PageOf(u) \in DOMAIN m.table))
  <2>1. /\ Sound(mem') /\ mem'.uefi = m.uefi /\ mem'.ram = m.ram /\ DOMAIN mem'.table \subseteq DOMAIN m.table
        /\ Leads(m) /\ ~(m.uefi /\ \E u \in ParamUnits(p) : PageOf(u) \in DOMAIN m.table) => Leads(mem')
    BY <1>1, <1>3, <1>5, ParamsPut
  <2>2. over' \in BOOLEAN /\ (over => over') /\ zero_page' \in Nat
    BY <1>1, <1>3, <1>5 DEF Sound
  <2> QED
    BY <1>1, <1>2, <1>5, <2>1, <2>2
<1> QED
  BY <1>2, <1>4, <1>5

(* The lists of tags of the other steps name no module.                    *)
NoModules(s) == IsList(s) /\ \A t \in ToSet(s) : t.type # "module"

LEMMA NoModulesOne ==
  /\ NoModules(<<>>)
  /\ \A e : e.type # "module" => NoModules(<<e>>)
BY ListOfOne DEF NoModules

LEMMA NoModulesJoined ==
  ASSUME NEW s, NEW t, NoModules(s), NoModules(t)
  PROVE  NoModules(s \o t)
BY Joined DEF NoModules

LEMMA SameModules ==
  ASSUME NEW s, NEW t, IsList(s), NoModules(t)
  PROVE  IsList(s \o t) /\ \A x \in ToSet(s \o t) : x.type = "module" => x \in ToSet(s)
BY Joined DEF NoModules

LEMMA PlainTag ==
  ASSUME NEW type, NEW words
  PROVE  Tag(type, words).type = type /\ \A x : [Tag(type, words) EXCEPT !.name = x].type = type
BY DEF Tag

LEMMA SetupTags ==
  ASSUME fw_loadsetup
  PROVE  NoModules(tags')
<1> DEFINE text == IF bkp /\ cmdline = "tag" THEN Dangling ELSE cmdline
           first == <<Tag("loader", IF bkp THEN 4 ELSE 3)>>
           second == IF cmdline = None THEN <<>> ELSE <<[Tag("cmdline", 3) EXCEPT !.name = text]>>
           acpi == <<Tag("acpi", 4)>>
           map == IF machine.uefi \/ machine.memmap = <<>> THEN <<>>
                  ELSE <<Tag("mmap", 2 + 3 * Len(machine.memmap))>>
<1>1. tags' = <<>> \/ tags' = first \o second \o acpi \o map
  BY DEF fw_loadsetup
<1>2. NoModules(first) /\ NoModules(acpi)
  BY PlainTag, NoModulesOne
<1>3. NoModules(second)
  <2> HIDE DEF text
  <2> DEFINE e == [Tag("cmdline", 3) EXCEPT !.name = text]
  <2>1. e.type # "module"
    BY PlainTag
  <2>2. second = <<>> \/ second = <<e>>
    OBVIOUS
  <2> HIDE DEF e, second
  <2> QED
    BY <2>1, <2>2, NoModulesOne
<1>4. NoModules(map)
  BY PlainTag, NoModulesOne
<1> HIDE DEF first, second, acpi, map
<1>5. NoModules(first \o second \o acpi \o map)
  <2>1. NoModules(first \o second)
    BY <1>2, <1>3, NoModulesJoined
  <2>2. NoModules(first \o second \o acpi)
    BY <1>2, <2>1, NoModulesJoined
  <2> QED
    BY <1>4, <2>2, NoModulesJoined
<1> QED
  BY <1>1, <1>5, NoModulesOne

LEMMA FiniTags ==
  ASSUME fw_fini, IsList(tags)
  PROVE  IsList(tags') /\ \A t \in ToSet(tags') : t.type = "module" => t \in ToSet(tags)
<1> DEFINE fb == IF machine.framebuffer = 0 THEN <<>> ELSE <<Tag("framebuffer", 5)>>
           sm == IF smp THEN <<Tag("smp", 3)>> ELSE <<>>
           uu == <<Tag("partuuid", 3)>>
           a == <<Tag("mmap", 2)>>
           b == <<Tag("efi64", 2)>>
           ef == IF machine.uefi THEN <<Tag("mmap", 2), Tag("efi64", 2)>> ELSE <<>>
           en == <<Tag("end", 1)>>
<1>1. tags' = tags \o fb \o sm \o uu \o ef \o en
  BY DEF fw_fini
<1>2. NoModules(uu) /\ NoModules(en) /\ NoModules(a) /\ NoModules(b)
  BY PlainTag, NoModulesOne
<1>3. NoModules(fb)
  BY PlainTag, NoModulesOne
<1>4. NoModules(sm)
  BY PlainTag, NoModulesOne
<1>5. NoModules(ef)
  <2>1. <<Tag("mmap", 2), Tag("efi64", 2)>> = a \o b
    OBVIOUS
  <2>2. ef = a \o b \/ ef = <<>>
    BY <2>1
  <2> HIDE DEF a, b, ef
  <2> QED
    BY <1>2, <2>2, NoModulesOne, NoModulesJoined
<1> HIDE DEF fb, sm, uu, a, b, ef, en
<1> DEFINE t1 == tags \o fb
           t2 == t1 \o sm
           t3 == t2 \o uu
           t4 == t3 \o ef
           t5 == t4 \o en
<1>6. IsList(t1) /\ \A x \in ToSet(t1) : x.type = "module" => x \in ToSet(tags)
  BY <1>3, SameModules
<1> HIDE DEF t1
<1>7. IsList(t2) /\ \A x \in ToSet(t2) : x.type = "module" => x \in ToSet(t1)
  BY <1>4, <1>6, SameModules
<1> HIDE DEF t2
<1>8. IsList(t3) /\ \A x \in ToSet(t3) : x.type = "module" => x \in ToSet(t2)
  BY <1>2, <1>7, SameModules
<1> HIDE DEF t3
<1>9. IsList(t4) /\ \A x \in ToSet(t4) : x.type = "module" => x \in ToSet(t3)
  BY <1>5, <1>8, SameModules
<1> HIDE DEF t4
<1>10. IsList(t5) /\ \A x \in ToSet(t5) : x.type = "module" => x \in ToSet(t4)
  BY <1>2, <1>9, SameModules
<1>11. tags' = t5
  BY <1>1 DEF t1, t2, t3, t4
<1> HIDE DEF t5
<1> QED
  BY <1>6, <1>7, <1>8, <1>9, <1>10, <1>11

(* The default module is a file of the machine.                            *)
LEMMA DefaultIsFile ==
  ASSUME DefaultModule
  PROVE  /\ pc = "modules" /\ pc' = "decide" /\ UNCHANGED <<machine, key, bkp, zero_page, over>>
         /\ \/ /\ n \in Nat => rq' = Polled
               /\ \E x \in DOMAIN machine.files : AddModule(File(x))
            \/ rq' \in {rq, Polled} /\ UNCHANGED <<mem, tags, n>>
<1> DEFINE found == {d \in {1, 2} : Defaults[d] # None /\ fw_open(Defaults[d])}
           first == CHOOSE d \in found : \A x \in found : d <= x
<1>1. /\ pc = "modules" /\ pc' = "decide" /\ UNCHANGED <<machine, key, bkp, zero_page, over>>
      /\ rq' \in {rq, Polled} /\ (n = 0 => rq' = Polled)
      /\ IF n > 0 \/ found = {} THEN UNCHANGED <<mem, tags, n>>
         ELSE AddModule(File(Defaults[first]))
  BY DEF DefaultModule, aside
<1>2. CASE n > 0 \/ found = {}
  BY <1>1, <1>2
<1>3. CASE ~(n > 0) /\ found # {}
  <2>1. \E d \in found : \A x \in found : d <= x
    <3>1. found \subseteq {1, 2} /\ found # {}
      BY <1>3
    <3> HIDE DEF found
    <3>2. CASE 1 \in found
      <4> WITNESS 1 \in found
      <4> QED
        BY <3>1
    <3>3. CASE 1 \notin found
      <4>1. found = {2}
        BY <3>1, <3>3
      <4> QED
        BY <4>1
    <3> QED
      BY <3>2, <3>3
  <2>2. first \in found
    BY <2>1
  <2>3. Defaults[first] \in DOMAIN machine.files
    <3> HIDE DEF first
    <3> QED
      BY <2>2 DEF fw_open
  <2>4. n \in Nat => n = 0
    BY <1>3
  <2> QED
    BY <1>1, <1>3, <2>3, <2>4
<1> QED
  BY <1>2, <1>3

LEMMA FramebufferMapped ==
  ASSUME machine \in Machines, Sound(mem)
  PROVE  LET at == Unit(machine.framebuffer) IN
         /\ Keeps(mem, mem) /\ Keeps(mem, fw_map(mem, at, at, PAGE))
<1>1. machine.framebuffer \in Nat
  BY MachineFacts
<1>2. Unit(machine.framebuffer) \in Nat /\ PAGE \in Nat \ {0}
  BY <1>1 DEF Unit, PAGE
<1> QED
  BY <1>2, KeepsItself, MapKeeps

(* Every step keeps the modules where their tags say they are.             *)
LEMMA StepMod ==
  ASSUME ModInv, RoomToInflate, [Next]_vars
  PROVE  ModInv'
<1>0. /\ machine \in Machines /\ Sound(mem) /\ mem.uefi = machine.uefi
      /\ {key, rq, bkp} \subseteq BOOLEAN /\ (bkp => ~rq) /\ IsList(tags)
      /\ machine.uefi \in BOOLEAN /\ zero_page \in Nat /\ over \in BOOLEAN
  BY MachineFacts DEF ModInv
<1>p. {Polled, FALSE} \subseteq BOOLEAN /\ (bkp => ~Polled)
  BY <1>0 DEF Polled
<1>1. CASE fw_loadconfig
  BY <1>0, <1>1, <1>p DEF fw_loadconfig, ModInv, aside
<1>2. CASE fw_loadsetup
  <2>1. NoModules(tags')
    BY <1>2, SetupTags
  <2>2. pc' \in {"err", "kernel"} /\ UNCHANGED <<machine, key, rq, bkp, n, zero_page, over>>
    BY <1>2 DEF fw_loadsetup, aside
  <2>3. Sound(mem') /\ mem'.uefi = machine.uefi
    BY <1>0, <1>2, SetupMem
  <2> QED
    BY <1>0, <2>1, <2>2, <2>3 DEF ModInv, NoModules
<1>3. CASE fw_loadkernel
  <2>1. /\ pc = "kernel" /\ rq' = Polled /\ i' = 1 /\ n' = 0
        /\ UNCHANGED <<machine, key, bkp, tags>>
        /\ pc' \in {"modules", "err", "segments"}
        /\ pc' = "segments" => loaded' \in DOMAIN machine.files
        /\ zero_page' \in Nat /\ over' \in BOOLEAN
    BY <1>0, <1>3, KernelMem DEF ModInv
  <2>2. Sound(mem') /\ mem'.uefi = machine.uefi
    BY <1>0, <1>3, KernelMem DEF ModInv
  <2>3. \A t \in ToSet(tags') : t.type # "module"
    BY <2>1 DEF ModInv
  <2>4. ModulesHeld'
    BY <2>3 DEF ModulesHeld, HoldsTag
  <2> QED
    BY <1>0, <1>p, <2>1, <2>2, <2>3, <2>4 DEF ModInv
<1>4. CASE LoadSegment
  <2>1. /\ pc = "segments" /\ i <= Len(Segments) /\ rq' = Polled /\ i' = i + 1
        /\ mem' = fw_loadseg(mem, File(loaded), Segments[i], Cut)
        /\ pc' \in {"wild", "err", "segments"}
        /\ UNCHANGED <<machine, key, bkp, tags, loaded, n, zero_page, over>>
    BY <1>4 DEF LoadSegment, MoreSegments, aside
  <2>2. loaded \in DOMAIN machine.files /\ i \in Nat \ {0}
        /\ \A t \in ToSet(tags) : t.type # "module"
    BY <2>1 DEF ModInv
  <2>3. Segments[i] \in Segment /\ File(loaded).size \in Nat
    <3>1. Segments \in Seq(Segment) /\ File(loaded).size \in Nat
      BY <1>0, <2>2, MachineFacts DEF Segments, File
    <3> QED
      BY <2>1, <2>2, <3>1
  <2>4. Sound(mem') /\ mem'.uefi = machine.uefi
    <3> DEFINE f == File(loaded)
               s == Segments[i]
    <3> HIDE DEF f, s
    <3>1. f.size \in Nat /\ s \in Segment /\ mem' = fw_loadseg(mem, f, s, Cut)
      BY <2>1, <2>3 DEF f, s
    <3> QED
      BY <1>0, <3>1, Filled
  <2> QED
    BY <1>0, <1>p, <2>1, <2>2, <2>4 DEF ModInv
<1>5. CASE KernelLoaded
  <2>1. \A t \in ToSet(tags) : t.type # "module"
    BY <1>5 DEF KernelLoaded, ModInv
  <2>2. ModulesHeld
    BY <2>1 DEF ModulesHeld, HoldsTag
  <2>3. pc' = "modules" /\ UNCHANGED <<machine, mem, key, rq, bkp, tags, n, zero_page, over>>
    BY <1>5 DEF KernelLoaded, aside
  <2>4. ModulesHeld'
    BY <2>2, <2>3 DEF ModulesHeld, HoldsTag
  <2> QED
    BY <1>0, <2>3, <2>4 DEF ModInv
<1>6. CASE fw_loadmodules
  <2>1. /\ pc = "modules" /\ pc' = "modules" /\ UNCHANGED <<machine, key, bkp, zero_page, over>>
        /\ \/ /\ rq' = Polled
              /\ \E x \in DOMAIN machine.files : AddModule(File(x))
           \/ rq' \in {rq, Polled} /\ UNCHANGED <<mem, tags, n>>
    BY <1>6 DEF fw_loadmodules, fw_open, aside
  <2>2. (rq /\ ~machine.uefi) \/ ModulesHeld
    BY <2>1 DEF ModInv
  <2>3. CASE rq' = Polled /\ \E x \in DOMAIN machine.files : AddModule(File(x))
    <3>1. PICK x \in DOMAIN machine.files : AddModule(File(x))
      BY <2>3
    <3>2. Inflates(mem, File(x))
      BY <2>1 DEF RoomToInflate
    <3>3. /\ Sound(mem') /\ mem'.uefi = machine.uefi /\ IsList(tags') /\ n' \in Nat
          /\ (rq' /\ ~machine.uefi) \/ ModulesHeld'
      BY <2>1, <2>2, <2>3, <3>1, <3>2, ModuleAdded
    <3> QED
      BY <1>0, <1>p, <2>1, <2>3, <3>3 DEF ModInv
  <2>4. CASE rq' \in {rq, Polled} /\ UNCHANGED <<mem, tags, n>>
    <3>1. (rq' /\ ~machine'.uefi) \/ ModulesHeld'
      BY <2>1, <2>2, <2>4 DEF ModulesHeld, HoldsTag, Polled
    <3> QED
      BY <1>0, <1>p, <2>1, <2>4, <3>1 DEF ModInv
  <2> QED
    BY <2>1, <2>3, <2>4
<1>7. CASE DefaultModule
  <2>1. /\ pc = "modules" /\ pc' = "decide" /\ UNCHANGED <<machine, key, bkp, zero_page, over>>
        /\ \/ /\ rq' = Polled
              /\ \E x \in DOMAIN machine.files : AddModule(File(x))
           \/ rq' \in {rq, Polled} /\ UNCHANGED <<mem, tags, n>>
    BY <1>7, DefaultIsFile DEF ModInv
  <2>2. (rq /\ ~machine.uefi) \/ ModulesHeld
    BY <2>1 DEF ModInv
  <2>3. CASE rq' = Polled /\ \E x \in DOMAIN machine.files : AddModule(File(x))
    <3>1. PICK x \in DOMAIN machine.files : AddModule(File(x))
      BY <2>3
    <3>2. Inflates(mem, File(x))
      BY <2>1 DEF RoomToInflate
    <3>3. /\ Sound(mem') /\ mem'.uefi = machine.uefi /\ IsList(tags') /\ n' \in Nat
          /\ (rq' /\ ~machine.uefi) \/ ModulesHeld'
      BY <2>1, <2>2, <2>3, <3>1, <3>2, ModuleAdded
    <3> QED
      BY <1>0, <1>p, <2>1, <2>3, <3>3 DEF ModInv
  <2>4. CASE rq' \in {rq, Polled} /\ UNCHANGED <<mem, tags, n>>
    <3>1. (rq' /\ ~machine'.uefi) \/ ModulesHeld'
      BY <2>1, <2>2, <2>4 DEF ModulesHeld, HoldsTag, Polled
    <3> QED
      BY <1>0, <1>p, <2>1, <2>4, <3>1 DEF ModInv
  <2> QED
    BY <2>1, <2>3, <2>4
<1>8. CASE Again
  BY <1>0, <1>8 DEF Again, StartOver, ModInv
<1>9. CASE KeyWait
  BY <1>0, <1>9 DEF KeyWait, StartOver, ModInv
<1>10. CASE GiveUp
  BY <1>0, <1>10 DEF GiveUp, ModInv, aside
<1>11. CASE Press
  BY <1>0, <1>11 DEF Press, ModInv, ModulesHeld, HoldsTag, aside
<1>12. CASE fw_fini
  <2>1. /\ pc = "decide" /\ (bkp \/ ~rq) /\ UNCHANGED <<machine, key, rq, bkp, n, zero_page, over>>
        /\ pc' \in {"wild", "vbr", "err", "run"}
        /\ mem' = IF machine.framebuffer = 0 THEN mem
                  ELSE fw_map(mem, Unit(machine.framebuffer), Unit(machine.framebuffer), PAGE)
    BY <1>12 DEF fw_fini, aside
  <2>2. Keeps(mem, mem')
    BY <1>0, <2>1, FramebufferMapped
  <2>3. IsList(tags') /\ \A t \in ToSet(tags') : t.type = "module" => t \in ToSet(tags)
    BY <1>0, <1>12, FiniTags
  <2>4. ModulesHeld
    BY <1>0, <2>1 DEF ModInv
  <2>5. ModulesHeld'
    <3>1. ASSUME NEW t \in ToSet(tags')
          PROVE  HoldsTag(t)'
      <4>1. t.type = "module" => t.end \in Nat /\ Holds(mem, t.name, t.start, t.end - t.start)
        BY <2>3, <2>4 DEF ModulesHeld, HoldsTag
      <4>2. t.type = "module" => t.end \in Nat /\ Holds(mem', t.name, t.start, t.end - t.start)
        BY <2>2, <4>1, HoldsOn
      <4> QED
        BY <4>2 DEF HoldsTag
    <3> QED
      BY <3>1 DEF ModulesHeld
  <2> QED
    BY <1>0, <2>1, <2>2, <2>3, <2>5 DEF ModInv, Keeps
<1>13. CASE UNCHANGED vars
  BY <1>13 DEF vars, ModInv, ModulesHeld, HoldsTag
<1> QED
  BY <1>1, <1>2, <1>3, <1>4, <1>5, <1>6, <1>7, <1>8, <1>9, <1>10, <1>11, <1>12, <1>13 DEF Next, _start

(* While there is room to inflate the packed modules, the range of every   *)
(* module's tag holds that module when the kernel is entered               *)
(* (fw_loadmodules, fw_fini): on every machine, with any files, any key    *)
(* press and in either pass.                                               *)
THEOREM ModulesInPlaceHolds == Spec /\ []RoomToInflate => []ModulesInPlace
<1>1. ModInv => ModulesInPlace
  <2> SUFFICES ASSUME ModInv, pc = "run", NEW t \in ToSet(tags), t.type = "module",
                      NEW u \in t.start..t.end - 1
               PROVE  u \in DOMAIN mem.data /\ mem.data[u] = <<t.name, u - t.start>>
    BY DEF ModulesInPlace
  <2>1. t.end \in Nat /\ Holds(mem, t.name, t.start, t.end - t.start)
    BY DEF ModInv, ModulesHeld, HoldsTag
  <2>2. t.start \in Nat /\ t.start + (t.end - t.start) - 1 = t.end - 1
    BY <2>1 DEF Holds
  <2> QED
    BY <2>1, <2>2 DEF Holds
<1>2. RoomToInflate /\ ModInv /\ [Next]_vars => ModInv'
  BY StepMod
<1>3. Init /\ []RoomToInflate /\ [][Next]_vars => []ModInv
  BY InitMod, <1>2, PTL
<1> QED
  BY <1>1, <1>3, PTL DEF Spec

-----------------------------------------------------------------------------
(* The page tables.                                                        *)
(* UEFI sets pages aside that it does not hand out besides, none of them   *)
(* the loader's own tables, and no segment has more bytes in its file than *)
(* in memory.  On a BIOS machine the segments that go into high memory     *)
(* come after the others.                                                  *)
Orderly(mc) ==
  /\ mc.uefi => /\ mc.free \cap mc.hack_buf = {}
                /\ (mc.free \cup mc.hack_buf) \cap DOMAIN bios_pagetables = {}
  /\ \A x \in DOMAIN mc.files :
       LET ss == mc.files[x].segments IN
       /\ mc.uefi => \A j \in DOMAIN ss : ss[j].filesz <= ss[j].memsz
       /\ ~mc.uefi => \A j, k \in DOMAIN ss : j < k /\ ss[j].vaddr > mc.ram => ss[k].vaddr > mc.ram

(* A segment before the one that comes next went into high memory.         *)
BeenHigh == \E j \in DOMAIN Segments : j < i /\ Segments[j].vaddr > machine.ram

(* The tables lead to tables, and the BIOS loader takes none before it has *)
(* come to a high segment: until then file_buf may be set back and low     *)
(* segments may be put where they ask to be.                               *)
Tables ==
  /\ Leads(mem)
  /\ pc # "wild"
  /\ ~machine.uefi =>
       /\ pc \in {"config", "setup", "kernel"} => Bare(mem)
       /\ pc = "segments" => Bare(mem) \/ BeenHigh

WalkInv ==
  /\ machine \in Machines
  /\ Sound(mem) /\ mem.uefi = machine.uefi /\ mem.ram = machine.ram
  /\ zero_page \in Nat /\ over \in BOOLEAN
  /\ pc = "segments" => loaded \in DOMAIN machine.files /\ i \in Nat \ {0}
  /\ ~over => Tables

LEMMA BareAtFirst == pt \in DOMAIN bios_pagetables /\ DOMAIN bios_pagetables \subseteq 0..LoaderEnd - 1
                     /\ DOMAIN bios_pagetables = 0..1 + IdentityDirs
BY MemoryAssumption DEF bios_pagetables, pt

LEMMA InitWalk ==
  ASSUME Init, Orderly(machine)
  PROVE  WalkInv
<1> DEFINE m == fw_init(machine)
<1>1. /\ machine \in Machines /\ mem = m /\ pc \in {"config", "err"} /\ machine.uefi \in BOOLEAN
      /\ zero_page \in Nat /\ over \in BOOLEAN
      /\ mem.ram = machine.ram /\ mem.table = bios_pagetables /\ mem.wild = FALSE
      /\ mem.file_buf = Unit(FileStart) /\ mem.free = machine.free
  BY MachineFacts DEF Init, fw_init
<1>2. Sound(mem) /\ mem.uefi = machine.uefi /\ Lent(mem) = machine.hack_buf
  BY <1>1, InitSound
<1>3. Leads(mem)
  <2>1. pt \in DOMAIN mem.table /\ DOMAIN mem.table \subseteq 0..LoaderEnd - 1
        /\ DOMAIN mem.table = 0..1 + IdentityDirs
    BY <1>1, BareAtFirst
  <2>2. DOMAIN mem.table \subseteq Nat
    BY <2>1
  <2>3. DOMAIN mem.table \cap Spare(mem) = {}
    <3>1. CASE machine.uefi
      BY <1>1, <1>2, <3>1 DEF Spare, Orderly
    <3>2. CASE ~machine.uefi
      <4>1. Spare(mem) = {p \in Nat : FileStart <= p}
        <5>1. PageOf(Unit(FileStart)) = FileStart
          BY MemoryAssumption, PageFacts
        <5> QED
          BY <1>1, <1>2, <3>2, <5>1 DEF Spare
      <4> QED
        BY <2>1, <4>1, MemoryAssumption
    <3> QED
      BY <3>1, <3>2
  <2>4. \A p \in DOMAIN mem.table : DOMAIN mem.table[p] = Slots
    BY <1>1 DEF bios_pagetables
  <2>5. ASSUME NEW p \in DOMAIN mem.table, NEW j \in Slots
        PROVE  EntryLeads(mem, mem.table[p][j])
    <3> DEFINE e == mem.table[p][j]
    <3>1. p \in 0..1 + IdentityDirs /\ j \in Nat
      BY <2>1, <2>5 DEF Slots
    <3>2. e = IF p = 0 THEN (IF j = 0 THEN Table(1) ELSE NoEntry)
              ELSE IF p = 1 THEN (IF j < IdentityDirs THEN Table(2 + j) ELSE NoEntry)
              ELSE Huge(((p - 2) * Radix + j) * Radix)
      BY <1>1, <2>1, <2>5 DEF bios_pagetables, pt
    <3> HIDE DEF e
    <3>3. CASE p = 0
      <4>1. e \in {Table(1), NoEntry} /\ 1 \in DOMAIN mem.table
        BY <2>1, <3>2, <3>3, MemoryAssumption
      <4> QED
        BY <4>1 DEF EntryLeads, Table, NoEntry, e
    <3>4. CASE p = 1
      <4>1. e = NoEntry \/ (e = Table(2 + j) /\ 2 + j \in DOMAIN mem.table)
        BY <2>1, <3>1, <3>2, <3>4, MemoryAssumption
      <4> QED
        BY <4>1 DEF EntryLeads, Table, NoEntry, e
    <3>5. CASE p # 0 /\ p # 1
      <4>1. e.kind = "huge"
        BY <3>2, <3>5 DEF Huge
      <4> QED
        BY <4>1 DEF EntryLeads, e
    <3> QED
      BY <3>3, <3>4, <3>5
  <2>6. mem.uefi => Lent(mem) \cap (mem.free \cup DOMAIN mem.table) = {}
    BY <1>1, <1>2 DEF Orderly
  <2> QED
    BY <1>1, <2>1, <2>2, <2>3, <2>4, <2>5, <2>6 DEF Leads
<1>4. Bare(mem)
  BY <1>1, BareAtFirst DEF Bare
<1> QED
  BY <1>1, <1>2, <1>3, <1>4 DEF WalkInv, Tables

(* Every step keeps the tables together.                                   *)
LEMMA StepWalk ==
  ASSUME WalkInv, Orderly(machine), [Next]_vars
  PROVE  WalkInv'
<1>0. /\ machine \in Machines /\ Sound(mem) /\ mem.uefi = machine.uefi /\ mem.ram = machine.ram
      /\ machine.uefi \in BOOLEAN /\ zero_page \in Nat /\ over \in BOOLEAN
      /\ ~over => Tables
  BY MachineFacts DEF WalkInv
<1>k. ASSUME UNCHANGED <<machine, zero_page, over>>, Keeps(mem, mem'),
             pc' \in {"modules", "decide", "vbr", "err", "run", "wild"}, pc' = "wild" => mem'.wild
      PROVE  WalkInv'
  <2>1. Sound(mem') /\ mem'.uefi = mem.uefi /\ mem'.ram = mem.ram /\ (Leads(mem) => Leads(mem'))
    BY <1>k DEF Keeps
  <2>2. ~over => Leads(mem') /\ pc' # "wild"
    BY <1>0, <1>k, <2>1 DEF Tables, Leads
  <2> QED
    BY <1>0, <1>k, <2>1, <2>2 DEF WalkInv, Tables
<1>u. ASSUME UNCHANGED <<machine, mem, zero_page, over>>,
             pc' \in {"modules", "decide", "err", "run", "vbr", "returned", "halted"}
      PROVE  WalkInv'
  BY <1>0, <1>u DEF WalkInv, Tables
<1>s. ASSUME UNCHANGED <<machine, mem, zero_page>>, pc' = "config",
             over' = (over \/ (~machine.uefi /\ ~Bare(mem)))
      PROVE  WalkInv'
  <2>1. over' \in BOOLEAN
    BY <1>0, <1>s
  <2> QED
    BY <1>0, <1>s, <2>1 DEF WalkInv, Tables, Bare
<1>m. ASSUME NEW x \in DOMAIN machine.files, AddModule(File(x))
      PROVE  Keeps(mem, mem')
  <2>1. mem' = LoadModule(mem, File(x)).m
    BY <1>m DEF AddModule
  <2>2. File(x).size \in Nat /\ File(x).inflated \in Nat
    BY <1>0, <1>m, MachineFacts DEF File
  <2> DEFINE f == File(x)
  <2> HIDE DEF f
  <2>3. mem' = LoadModule(mem, f).m /\ f.size \in Nat /\ f.inflated \in Nat
    BY <2>1, <2>2 DEF f
  <2>4. CASE mem.uefi
    <3>1. ~Cut
      BY <1>0, <2>4 DEF Cut
    <3> QED
      BY <1>0, <2>3, <2>4, <3>1, ModuleOnUefi
  <2>5. CASE ~mem.uefi
    BY <1>0, <2>3, <2>5, ModuleOnBios
  <2> QED
    BY <2>4, <2>5
<1>1. CASE fw_loadconfig
  <2>1. pc = "config" /\ pc' = "setup" /\ UNCHANGED <<machine, mem, zero_page, over>>
    BY <1>1 DEF fw_loadconfig, aside
  <2> QED
    BY <1>0, <2>1 DEF WalkInv, Tables, Bare
<1>2. CASE fw_loadsetup
  <2>1. pc = "setup" /\ pc' \in {"err", "kernel"} /\ UNCHANGED <<machine, zero_page, over>>
    BY <1>2 DEF fw_loadsetup, aside
  <2>2. /\ Sound(mem') /\ mem'.uefi = mem.uefi /\ mem'.ram = mem.ram /\ mem'.table = mem.table
        /\ Leads(mem) /\ (~mem.uefi => Bare(mem)) => Leads(mem')
    BY <1>0, <1>2, SetupMem
  <2>3. ~over => Tables'
    BY <1>0, <2>1, <2>2 DEF Tables, Bare
  <2> QED
    BY <1>0, <2>1, <2>2, <2>3 DEF WalkInv
<1>3. CASE fw_loadkernel
  <2>1. /\ Sound(mem') /\ mem'.uefi = mem.uefi /\ mem'.ram = mem.ram
        /\ DOMAIN mem'.table \subseteq DOMAIN mem.table
        /\ zero_page' \in Nat /\ over' \in BOOLEAN /\ (over => over')
        /\ Leads(mem) /\ ~over' => Leads(mem')
        /\ pc = "kernel" /\ i' = 1 /\ machine' = machine
        /\ pc' \in {"modules", "err", "segments"}
        /\ pc' = "segments" => loaded' \in DOMAIN machine.files
    BY <1>0, <1>3, KernelMem
  <2>2. ~over' => Tables'
    BY <1>0, <2>1 DEF Tables, Bare
  <2> QED
    BY <1>0, <2>1, <2>2 DEF WalkInv
<1>4. CASE LoadSegment
  <2> DEFINE f == File(loaded)
             s == Segments[i]
  <2>1. /\ pc = "segments" /\ i <= Len(Segments) /\ i' = i + 1
        /\ mem' = fw_loadseg(mem, f, s, Cut)
        /\ pc' = CASE mem'.wild -> "wild" [] ~mem'.wild /\ ~mem'.ok -> "err" [] OTHER -> "segments"
        /\ UNCHANGED <<machine, loaded, zero_page, over>>
    BY <1>4 DEF LoadSegment, MoreSegments, aside
  <2>2. loaded \in DOMAIN machine.files /\ i \in Nat \ {0} /\ i' \in Nat \ {0}
    BY <2>1 DEF WalkInv
  <2>3. Segments \in Seq(Segment) /\ f.size \in Nat
    BY <1>0, <2>2, MachineFacts DEF Segments, File
  <2>4. i \in DOMAIN Segments /\ s \in Segment
    BY <2>1, <2>2, <2>3
  <2>5. /\ machine.uefi => s.filesz <= s.memsz
        /\ ~machine.uefi => \A j \in DOMAIN Segments :
             j < i /\ Segments[j].vaddr > machine.ram => s.vaddr > machine.ram
    BY <2>2, <2>4 DEF Orderly, Segments, File
  <2> HIDE DEF f, s
  <2>6. /\ Sound(mem') /\ mem'.uefi = mem.uefi /\ mem'.ram = mem.ram
        /\ Leads(mem) /\ Fits(mem, s) => Leads(mem')
        /\ IsLow(mem, s) => DOMAIN mem'.table \subseteq DOMAIN mem.table
    BY <1>0, <2>1, <2>3, <2>4, Filled
  <2>7. ASSUME ~over
        PROVE  Tables'
    <3>1. Leads(mem) /\ (~machine.uefi => Bare(mem) \/ BeenHigh)
      BY <1>0, <2>1, <2>7 DEF Tables
    <3>2. IsLow(mem, s) => Bare(mem)
      BY <1>0, <2>5, <3>1 DEF IsLow, BeenHigh
    <3>3. Fits(mem, s)
      BY <1>0, <2>5, <3>2 DEF Fits, Bare
    <3>4. Leads(mem')
      BY <2>6, <3>1, <3>3
    <3>5. pc' \in {"err", "segments"}
      BY <2>1, <3>4 DEF Leads
    <3>6. ASSUME ~machine.uefi
          PROVE  Bare(mem') \/ BeenHigh'
      <4>1. i' \in Nat /\ Segments' = Segments /\ machine' = machine
        BY <2>1, <2>2 DEF Segments, File
      <4>2. CASE IsLow(mem, s)
        BY <2>6, <3>2, <4>2 DEF Bare
      <4>3. CASE ~IsLow(mem, s)
        <5>1. s.vaddr > machine.ram
          BY <1>0, <3>6, <4>3 DEF IsLow
        <5>2. i < i'
          BY <2>1, <2>2
        <5> QED
          BY <2>4, <4>1, <5>1, <5>2 DEF BeenHigh, s
      <4> QED
        BY <4>2, <4>3
    <3> QED
      BY <2>1, <3>4, <3>5, <3>6 DEF Tables
  <2> QED
    BY <1>0, <2>1, <2>2, <2>6, <2>7 DEF WalkInv
<1>5. CASE KernelLoaded
  BY <1>5, <1>u DEF KernelLoaded, aside
<1>6. CASE fw_loadmodules
  <2>1. /\ pc' = "modules" /\ UNCHANGED <<machine, zero_page, over>>
        /\ (\E x \in DOMAIN machine.files : AddModule(File(x))) \/ UNCHANGED mem
    BY <1>6 DEF fw_loadmodules, fw_open, aside
  <2> QED
    BY <2>1, <1>k, <1>m, <1>u
<1>7. CASE DefaultModule
  <2>1. /\ pc' = "decide" /\ UNCHANGED <<machine, zero_page, over>>
        /\ (\E x \in DOMAIN machine.files : AddModule(File(x))) \/ UNCHANGED mem
    BY <1>7, DefaultIsFile
  <2> QED
    BY <2>1, <1>k, <1>m, <1>u
<1>8. CASE Again
  BY <1>8, <1>s DEF Again, StartOver
<1>9. CASE KeyWait
  BY <1>9, <1>s DEF KeyWait, StartOver
<1>10. CASE GiveUp
  BY <1>10, <1>u DEF GiveUp, aside
<1>11. CASE Press
  BY <1>11 DEF Press, WalkInv, Tables, BeenHigh, Segments, File, aside
<1>12. CASE fw_fini
  <2>1. /\ pc' \in {"wild", "vbr", "err", "run"} /\ (pc' = "wild" => mem'.wild)
        /\ UNCHANGED <<machine, zero_page, over>>
        /\ mem' = IF machine.framebuffer = 0 THEN mem
                  ELSE fw_map(mem, Unit(machine.framebuffer), Unit(machine.framebuffer), PAGE)
    BY <1>12 DEF fw_fini, aside
  <2>2. Keeps(mem, mem')
    BY <1>0, <2>1, FramebufferMapped
  <2> QED
    BY <2>1, <2>2, <1>k
<1>13. CASE UNCHANGED vars
  BY <1>13 DEF vars, WalkInv, Tables, BeenHigh, Segments, File
<1> QED
  BY <1>1, <1>2, <1>3, <1>4, <1>5, <1>6, <1>7, <1>8, <1>9, <1>10, <1>11, <1>12, <1>13 DEF Next, _start

(* Unless the loader has itself put something over page tables of its own, *)
(* no walk of them ever leads through anything but page tables (fw_map,    *)
(* fw_loadseg, bios_alloc, efi_allocpages): with any orderly machines,     *)
(* kernels and modules, in both passes, and a key pressed at any time.     *)
THEOREM NoWildWalkHolds ==
  ASSUME \A mc \in Machines : Orderly(mc)
  PROVE  Spec => []NoWildWalk
<1>1. Init => WalkInv
  BY InitWalk DEF Init
<1>2. WalkInv /\ [Next]_vars => WalkInv'
  BY StepWalk DEF WalkInv
<1>3. WalkInv => NoWildWalk
  BY DEF WalkInv, Tables, NoWildWalk
<1> QED
  BY <1>1, <1>2, <1>3, PTL DEF Spec
=============================================================================

--------------------------- MODULE PhysMem_proofs ---------------------------
(***************************************************************************)
(* Theorems about the frame allocator, for any memory map, page size and   *)
(* number of frames.                                                       *)
(***************************************************************************)
EXTENDS PhysMem, FiniteSetsExt, FiniteSetTheorems, WellFoundedInduction, TLAPS

-----------------------------------------------------------------------------
(* Sets of natural numbers.                                                *)
(* A set of natural numbers that has an element has a least one.           *)
LEMMA LeastNat ==
  ASSUME NEW T \in SUBSET Nat, T # {}
  PROVE  \E n \in T : \A m \in T : n <= m
<1> DEFINE R == OpToRel(<, Nat)
<1>1. \A x, y \in Nat : x < y => <<x, y>> \in R
  BY DEF OpToRel
<1>2. IsWellFoundedOn(R, Nat)
  BY NatLessThanWellFounded
<1> HIDE DEF R
<1>3. PICK x \in T : \A y \in T : <<y, x>> \notin R
  BY <1>2, WFMin
<1>4. \A y \in T : ~(y < x)
  BY <1>1, <1>3
<1> QED
  BY <1>4

(* What Min of such a set is.                                              *)
LEMMA MinOfNats ==
  ASSUME NEW T \in SUBSET Nat, T # {}
  PROVE  Min(T) \in T /\ \A m \in T : Min(T) <= m
<1>1. PICK n \in T : \A m \in T : n <= m
  BY LeastNat
<1> QED
  BY <1>1 DEF Min

(* A set that contains 0, and with a number the next one, contains them all. *)
LEMMA SetInduction ==
  ASSUME NEW T, 0 \in T, \A n \in Nat : n \in T => n + 1 \in T
  PROVE  Nat \subseteq T
<1> SUFFICES ASSUME Nat \ T # {}
             PROVE  FALSE
  OBVIOUS
<1>1. PICK n \in Nat \ T : \A m \in Nat \ T : n <= m
  <2>1. Nat \ T \in SUBSET Nat
    OBVIOUS
  <2> QED
    BY <2>1, LeastNat
<1>2. n - 1 \in Nat /\ ~(n <= n - 1)
  BY <1>1
<1>3. n - 1 \in T
  BY <1>1, <1>2
<1> QED
  BY <1>1, <1>2, <1>3

(* The recursion behind MapThenSumSet, for a function f: one element of the *)
(* set is added to the sum of the others.                                   *)
Pick(s) == CHOOSE x \in s : TRUE

SumStep(f, g, s) == IF s = {} THEN 0 ELSE f[Pick(s)] + g[s \ {Pick(s)}]

IsSum(f, S, g) == g = [s \in SUBSET S |-> SumStep(f, g, s)]

SumUpTo(f, S, n, g) ==
  /\ g \in [{s \in SUBSET S : Cardinality(s) <= n} -> Nat]
  /\ \A s \in SUBSET S : Cardinality(s) <= n => g[s] = SumStep(f, g, s)

(* What is left of a set without its picked element is one smaller.         *)
LEMMA RestIsSmaller ==
  ASSUME NEW S, IsFiniteSet(S), NEW s \in SUBSET S, s # {}
  PROVE  /\ Pick(s) \in s /\ s \ {Pick(s)} \in SUBSET S
         /\ Cardinality(s) \in Nat /\ Cardinality(s \ {Pick(s)}) = Cardinality(s) - 1
<1>1. Pick(s) \in s
  BY DEF Pick
<1>2. IsFiniteSet(s) /\ Cardinality(s) \in Nat
  BY FS_Subset, FS_CardinalityType
<1>3. Cardinality(s \ {Pick(s)}) = Cardinality(s) - 1
  BY <1>1, <1>2, FS_RemoveElement
<1> QED
  BY <1>1, <1>2, <1>3

(* The recursion has a solution over the subsets of any size, by induction  *)
(* over the size.                                                           *)
LEMMA SumExists ==
  ASSUME NEW S, IsFiniteSet(S), NEW f \in [S -> Nat]
  PROVE  \A n \in Nat : \E g : SumUpTo(f, S, n, g)
<1> DEFINE T == {n \in Nat : \E g : SumUpTo(f, S, n, g)}
<1> DEFINE Dom(n) == {s \in SUBSET S : Cardinality(s) <= n}
<1>1. 0 \in T
  <2> DEFINE g == [s \in Dom(0) |-> 0]
  <2>1. \A s \in SUBSET S : Cardinality(s) <= 0 => s = {}
    BY FS_Subset, FS_CardinalityType, FS_EmptySet
  <2>2. SumUpTo(f, S, 0, g)
    BY <2>1 DEF SumUpTo, SumStep
  <2> QED
    BY <2>2
<1>2. ASSUME NEW n \in Nat, n \in T
      PROVE  n + 1 \in T
  <2>1. PICK g : SumUpTo(f, S, n, g)
    BY <1>2
  <2> DEFINE h == [s \in Dom(n + 1) |-> SumStep(f, g, s)]
  <2>2. ASSUME NEW s \in Dom(n + 1), s # {}
        PROVE  /\ Pick(s) \in S /\ s \ {Pick(s)} \in Dom(n)
    BY <2>2, RestIsSmaller
  <2>3. \A s \in Dom(n + 1) : SumStep(f, g, s) \in Nat
    BY <2>1, <2>2 DEF SumStep, SumUpTo
  <2>4. \A s \in Dom(n) : s \in Dom(n + 1) /\ h[s] = g[s]
    <3>1. \A s \in Dom(n) : s \in Dom(n + 1)
      BY FS_Subset, FS_CardinalityType
    <3> QED
      BY <2>1, <3>1 DEF SumUpTo
  <2>5. \A s \in Dom(n + 1) : h[s] = SumStep(f, h, s)
    BY <2>2, <2>4 DEF SumStep
  <2>6. h \in [Dom(n + 1) -> Nat]
    BY <2>3
  <2>7. SumUpTo(f, S, n + 1, h)
    BY <2>5, <2>6 DEF SumUpTo
  <2> QED
    BY <2>7
<1> HIDE DEF T
<1>3. Nat \subseteq T
  BY <1>1, <1>2, SetInduction
<1> QED
  BY <1>3 DEF T

(* So the recursive definition denotes a function, and whatever function    *)
(* satisfies it has natural values.                                         *)
LEMMA SumDefined ==
  ASSUME NEW S, IsFiniteSet(S), NEW f \in [S -> Nat]
  PROVE  \E g : IsSum(f, S, g)
<1>1. PICK g : SumUpTo(f, S, Cardinality(S), g)
  BY SumExists, FS_CardinalityType
<1>2. {s \in SUBSET S : Cardinality(s) <= Cardinality(S)} = SUBSET S
  BY FS_Subset
<1>3. IsSum(f, S, g)
  BY <1>1, <1>2 DEF SumUpTo, IsSum
<1> QED
  BY <1>3

LEMMA SumIsNat ==
  ASSUME NEW S, IsFiniteSet(S), NEW f \in [S -> Nat],
         NEW c, IsSum(f, S, c)
  PROVE  c[S] \in Nat
<1>0. \A s \in SUBSET S : c[s] = SumStep(f, c, s)
  BY DEF IsSum
<1> DEFINE T == {n \in Nat : \A s \in SUBSET S : Cardinality(s) <= n => c[s] \in Nat}
<1>1. 0 \in T
  <2>1. \A s \in SUBSET S : Cardinality(s) <= 0 => s = {}
    BY FS_Subset, FS_CardinalityType, FS_EmptySet
  <2>2. \A s \in SUBSET S : s = {} => c[s] = 0
    BY <1>0 DEF SumStep
  <2> QED
    BY <2>1, <2>2
<1>2. ASSUME NEW n \in Nat, n \in T
      PROVE  n + 1 \in T
  <2>1. ASSUME NEW s \in SUBSET S, Cardinality(s) <= n + 1, s # {}
        PROVE  c[s] \in Nat
    <3>1. /\ Pick(s) \in S /\ s \ {Pick(s)} \in SUBSET S
          /\ Cardinality(s \ {Pick(s)}) <= n
      BY <2>1, RestIsSmaller
    <3>2. c[s \ {Pick(s)}] \in Nat
      BY <1>2, <3>1
    <3>3. c[s] = f[Pick(s)] + c[s \ {Pick(s)}]
      BY <1>0, <2>1 DEF SumStep
    <3>4. f[Pick(s)] \in Nat
      BY <3>1
    <3> QED
      BY <3>2, <3>3, <3>4
  <2>2. c[{}] \in Nat
    <3>1. {} \in SUBSET S
      OBVIOUS
    <3>2. c[{}] = SumStep(f, c, {})
      BY <1>0, <3>1
    <3> QED
      BY <3>2 DEF SumStep
  <2>3. \A s \in SUBSET S : Cardinality(s) <= n + 1 => c[s] \in Nat
    BY <2>1, <2>2
  <2> QED
    BY <2>3
<1> HIDE DEF T
<1>3. Nat \subseteq T
  BY <1>1, <1>2, SetInduction
<1> QED
  BY <1>3, FS_CardinalityType DEF T

(* Among finitely many things the greatest measure is some thing's.         *)
LEMMA FiniteHasGreatest ==
  ASSUME NEW S, IsFiniteSet(S), S # {}, NEW f \in [S -> Nat]
  PROVE  \E x \in S : \A y \in S : f[y] <= f[x]
<1> DEFINE Greatest(s) == \E x \in s : \A y \in s : f[y] <= f[x]
<1> DEFINE T == {n \in Nat : \A s \in SUBSET S : s # {} /\ Cardinality(s) <= n => Greatest(s)}
<1>1. 0 \in T
  <2>1. \A s \in SUBSET S : Cardinality(s) <= 0 => s = {}
    BY FS_Subset, FS_CardinalityType, FS_EmptySet
  <2> QED
    BY <2>1
<1>2. ASSUME NEW n \in Nat, n \in T
      PROVE  n + 1 \in T
  <2>1. ASSUME NEW s \in SUBSET S, s # {}, Cardinality(s) <= n + 1
        PROVE  Greatest(s)
    <3> DEFINE p == Pick(s)
    <3>1. p \in s /\ p \in S /\ s \ {p} \in SUBSET S /\ Cardinality(s \ {p}) <= n
      BY <2>1, RestIsSmaller
    <3> HIDE DEF p
    <3>2. CASE s \ {p} = {}
      BY <3>1, <3>2
    <3>3. CASE s \ {p} # {}
      <4>1. PICK x \in s \ {p} : \A y \in s \ {p} : f[y] <= f[x]
        BY <1>2, <3>1, <3>3
      <4>2. CASE f[p] <= f[x]
        BY <4>1, <4>2
      <4>3. CASE ~(f[p] <= f[x])
        <5>1. \A y \in s : f[y] \in Nat
          OBVIOUS
        <5>2. \A y \in s : f[y] <= f[p]
          BY <3>1, <4>1, <4>3, <5>1
        <5> QED
          BY <3>1, <5>2
      <4> QED
        BY <4>2, <4>3
    <3> QED
      BY <3>2, <3>3
  <2> QED
    BY <2>1
<1> HIDE DEF T
<1>3. Nat \subseteq T
  BY <1>1, <1>2, SetInduction
<1>4. Cardinality(S) \in T
  BY <1>3, FS_CardinalityType
<1> QED
  BY <1>4 DEF T

-----------------------------------------------------------------------------

BitmapBase == biggest_part.base_addr + FirstMegabyte

(* The machines on which the allocator works.  No frame of the bitmap lies  *)
(* behind the range that is freed; and where the first freed frame holds    *)
(* bytes of the bitmap, zeroing it clears no bit of a frame that is         *)
(* reserved or is that frame itself.                                        *)
Covered == \A f \in Frames : f >= FirstFrame => f \in FreedFrames

BitmapFillsPage ==
  \A f \in Frames : BitmapBase + (f \div 8) \in Bytes(FirstFrame) => f > FirstFrame

(* The frames end where the region ends that they are taken from: there is  *)
(* no memory behind it for which the bitmap has bits, and no hole before.   *)
NoHole ==
  /\ 8 * bitmap_size * PAGE_SIZE <= biggest_part.base_addr + biggest_part.length
  /\ PAGE_SIZE <= FirstMegabyte

(* The inductive invariant: the frames p1 and p2 were given are never given *)
(* back, so that every frame handed out later lies behind the bitmap.       *)
UsedIsHeld ==
  /\ used \in [Frames -> BOOLEAN]
  /\ held \in [Frames -> {0, 1}]
  /\ \A f \in Frames : used[f] <=> (f < FirstFrame \/ held[f] = 1)
  /\ \A f \in Frames : f < FirstFrame => held[f] = 0

FirstNeverFreed ==
  /\ discarded \subseteq Frames
  /\ \A f \in discarded : held[f] = 1
  /\ phase = "ready" => FirstFrame \in discarded
  /\ phase = "panic" => \A f \in Frames : f >= FirstFrame => held[f] = 1

AllocInv ==
  /\ mmap \in MemoryMaps
  /\ phase \in {"reset", "ready", "panic"}
  /\ IF phase = "reset"
     THEN DOMAIN used = {} /\ DOMAIN held = {}
     ELSE bitmap = BitmapBase /\ UsedIsHeld /\ FirstNeverFreed

Inv ==
  /\ mmap \in MemoryMaps
  /\ Covered /\ BitmapFillsPage => AllocInv

-----------------------------------------------------------------------------
(* What the set-up finds in a map: entries, finitely many, with numbers.    *)
LEMMA MapFacts ==
  ASSUME mmap \in MemoryMaps
  PROVE  /\ AvailableEntries # {} /\ AvailableEntries \in SUBSET Nat
         /\ IsFiniteSet(AvailableEntries)
         /\ \A i \in AvailableEntries : mmap[i].base_addr \in Nat /\ mmap[i].length \in Nat
<1>1. mmap \in Seq(Entries) /\ AvailableEntries # {}
  BY PhysMemAssumption DEF AvailableEntries
<1>2. AvailableEntries \in SUBSET (1..Len(mmap))
  BY <1>1 DEF AvailableEntries
<1>3. IsFiniteSet(1..Len(mmap))
  <2>1. 1 \in Int /\ Len(mmap) \in Int
    BY <1>1
  <2> QED
    BY <2>1, FS_Interval, Zenon
<1>4. IsFiniteSet(AvailableEntries)
  BY <1>2, <1>3, FS_Subset, Zenon
<1>5. \A i \in AvailableEntries : mmap[i] \in Entries
  BY <1>1, <1>2
<1>6. \A i \in AvailableEntries : mmap[i].base_addr \in Nat /\ mmap[i].length \in Nat
  BY <1>5 DEF Entries
<1> QED
  BY <1>1, <1>2, <1>4, <1>6

(* The total is what MapThenSumSet's recursion computes, one entry after    *)
(* the other.                                                               *)
LEMMA MemoryIsNat ==
  ASSUME mmap \in MemoryMaps
  PROVE  available_memory \in Nat
<1> DEFINE S == AvailableEntries
           f == [i \in S |-> Length(i)]
           Sum(g) == g = [s \in SUBSET S |->
                            IF s = {} THEN 0
                            ELSE Length(CHOOSE x \in s : TRUE) + g[s \ {CHOOSE x \in s : TRUE}]]
           c == CHOOSE g : Sum(g)
<1>1. f \in [S -> Nat]
  BY MapFacts DEF Length
<1>2. \A g : Sum(g) <=> IsSum(f, S, g)
  BY DEF IsSum, SumStep, Pick
<1>3. available_memory = c[S]
  BY DEF available_memory, MapThenSumSet, MapThenFoldSet
<1>4. IsFiniteSet(S)
  BY MapFacts
<1> HIDE DEF S, f, Sum
<1>5. \E g : Sum(g)
  BY <1>1, <1>2, <1>4, SumDefined
<1>6. Sum(c)
  BY <1>5
<1> HIDE DEF c
<1>7. c[S] \in Nat
  BY <1>1, <1>2, <1>4, <1>6, SumIsNat
<1> QED
  BY <1>3, <1>7

(* The first of the longest entries exists, since there are finitely many.  *)
LEMMA BiggestIsEntry ==
  ASSUME mmap \in MemoryMaps
  PROVE  \E i \in AvailableEntries : biggest_part = mmap[i]
<1> DEFINE f == [i \in AvailableEntries |-> mmap[i].length]
           longest == {i \in AvailableEntries :
                         \A j \in AvailableEntries : mmap[j].length <= mmap[i].length}
<1>1. f \in [AvailableEntries -> Nat]
  BY MapFacts
<1>2. \E x \in AvailableEntries : \A y \in AvailableEntries : f[y] <= f[x]
  <2> HIDE DEF f
  <2> QED
    BY <1>1, MapFacts, FiniteHasGreatest
<1>3. longest # {} /\ longest \in SUBSET Nat
  BY <1>2, MapFacts
<1>4. Min(longest) \in longest
  <2> HIDE DEF longest
  <2> QED
    BY <1>3, MinOfNats
<1> QED
  BY <1>4 DEF biggest_part

(* Division as the code uses it.                                            *)
LEMMA Quotient ==
  ASSUME NEW a \in Nat, NEW p \in Nat \ {0}
  PROVE  a \div p \in Nat /\ (a \div p) * p <= a /\ a < (a \div p) * p + p
<1>1. a \div p \in Int /\ a \div p >= 0
  OBVIOUS
<1>2. (a \div p) * p <= a
  OBVIOUS
<1>3. a < (a \div p) * p + p
  OBVIOUS
<1> QED
  BY <1>1, <1>2, <1>3

(* The numbers of the set-up, and where the range that is freed begins.     *)
LEMMA Numbers ==
  ASSUME mmap \in MemoryMaps
  PROVE  /\ biggest_part.base_addr \in Nat /\ biggest_part.length \in Nat
         /\ bitmap_size \in Nat /\ FreeBase \in Nat /\ FirstFrame \in Nat
         /\ BitmapBase \in Nat /\ BitmapBase + bitmap_size <= FreeBase
         /\ FreeBase < FirstFrame * PAGE_SIZE + PAGE_SIZE
         /\ Frames \in SUBSET Nat
<1>1. biggest_part.base_addr \in Nat /\ biggest_part.length \in Nat
  BY BiggestIsEntry, MapFacts
<1>2. bitmap_size \in Nat
  <2>1. available_memory \div PAGE_SIZE \in Nat
    BY MemoryIsNat, PhysMemAssumption, Quotient
  <2> QED
    BY <2>1, Quotient DEF bitmap_size
<1>3. FreeBase \in Nat /\ biggest_part.base_addr + bitmap_size + FirstMegabyte <= FreeBase
  <2> DEFINE a == biggest_part.base_addr + bitmap_size + FirstMegabyte
  <2>1. a \in Nat /\ SecondMegabyte \in Nat
    BY <1>1, <1>2, PhysMemAssumption
  <2> HIDE DEF a
  <2>2. Max({a, SecondMegabyte}) \in Nat /\ a <= Max({a, SecondMegabyte})
    BY <2>1 DEF Max
  <2> QED
    BY <2>2 DEF FreeBase, a
<1>4. FirstFrame \in Nat /\ FreeBase < FirstFrame * PAGE_SIZE + PAGE_SIZE
  <2>1. FreeBase \in Nat /\ PAGE_SIZE \in Nat \ {0}
    BY <1>3, PhysMemAssumption
  <2> QED
    BY <2>1, Quotient DEF FirstFrame
<1>5. BitmapBase \in Nat /\ BitmapBase + bitmap_size <= FreeBase
  BY <1>1, <1>2, <1>3, PhysMemAssumption DEF BitmapBase
<1>6. Frames \in SUBSET Nat
  BY <1>2 DEF Frames
<1> QED
  BY <1>1, <1>2, <1>3, <1>4, <1>5, <1>6

(* Every frame behind the first one lies behind the bitmap.                 *)
LEMMA BehindBitmap ==
  ASSUME mmap \in MemoryMaps, NEW frame \in Nat, frame > FirstFrame, NEW g \in Frames
  PROVE  BitmapBase + (g \div 8) \notin Bytes(frame)
<1>1. g \div 8 \in Nat /\ g \div 8 < bitmap_size
  BY Numbers DEF Frames
<1>2. BitmapBase + (g \div 8) < FirstFrame * PAGE_SIZE + PAGE_SIZE
  <2>1. PICK t \in Nat : t = FirstFrame * PAGE_SIZE
    BY Numbers, PhysMemAssumption
  <2>2. BitmapBase + bitmap_size < t + PAGE_SIZE
    BY <2>1, Numbers, PhysMemAssumption
  <2>3. BitmapBase \in Nat /\ bitmap_size \in Nat
    BY Numbers
  <2> QED
    BY <1>1, <2>1, <2>2, <2>3, PhysMemAssumption
<1>3. FirstFrame * PAGE_SIZE + PAGE_SIZE <= frame * PAGE_SIZE
  <2>1. FirstFrame + 1 <= frame /\ FirstFrame + 1 \in Nat
    BY Numbers
  <2>2. (FirstFrame + 1) * PAGE_SIZE <= frame * PAGE_SIZE
    BY <2>1, Numbers, PhysMemAssumption
  <2>3. (FirstFrame + 1) * PAGE_SIZE = FirstFrame * PAGE_SIZE + PAGE_SIZE
    BY Numbers, PhysMemAssumption
  <2> QED
    BY <2>2, <2>3
<1>4. BitmapBase + (g \div 8) \in Nat /\ frame * PAGE_SIZE \in Nat /\ FirstFrame * PAGE_SIZE \in Nat
  <2>1. BitmapBase \in Nat /\ FirstFrame \in Nat
    BY Numbers
  <2> QED
    BY <1>1, <2>1, PhysMemAssumption
<1>5. BitmapBase + (g \div 8) < frame * PAGE_SIZE
  BY <1>2, <1>3, <1>4, PhysMemAssumption
<1>6. \A x \in Nat, y \in Nat : x < y => x \notin y..(y + PAGE_SIZE - 1)
  OBVIOUS
<1> QED
  BY <1>4, <1>5, <1>6 DEF Bytes

(* The frame taken from a non-empty set of free ones is the lowest.         *)
LEMMA FirstFreeIsLeast ==
  ASSUME NEW bits, DOMAIN bits \in SUBSET Nat, FreeFrames(bits) # {}
  PROVE  /\ FirstFree(bits) \in DOMAIN bits /\ ~bits[FirstFree(bits)]
         /\ \A f \in DOMAIN bits : ~bits[f] => FirstFree(bits) <= f
<1>1. FreeFrames(bits) \in SUBSET Nat
  BY DEF FreeFrames
<1>2. FirstFree(bits) \in FreeFrames(bits) /\ \A f \in FreeFrames(bits) : FirstFree(bits) <= f
  BY <1>1, MinOfNats DEF FirstFree
<1> QED
  BY <1>2 DEF FreeFrames

(* Taking a frame behind the first one marks it and changes nothing else.   *)
LEMMA TakeMarksOnly ==
  ASSUME mmap \in MemoryMaps, NEW bits \in [Frames -> BOOLEAN],
         NEW frame \in Frames, frame > FirstFrame
  PROVE  Take(BitmapBase, bits, frame) = [bits EXCEPT ![frame] = TRUE]
<1>1. \A g \in Frames : BitmapBase + (g \div 8) \notin Bytes(frame)
  BY BehindBitmap, Numbers
<1>2. Take(BitmapBase, bits, frame) = [g \in Frames |-> bits[g] \/ g = frame]
  BY <1>1 DEF Take
<1>3. [bits EXCEPT ![frame] = TRUE] = [g \in Frames |-> bits[g] \/ g = frame]
  OBVIOUS
<1> QED
  BY <1>2, <1>3

-----------------------------------------------------------------------------
(* Everything computed from the map stays what it is.                       *)
LEMMA MapFixed ==
  ASSUME mmap' = mmap
  PROVE  UNCHANGED <<Frames, FirstFrame, BitmapBase, bitmap_size, AvailableEntries, biggest_part>>
<1>1. AvailableEntries' = AvailableEntries
  BY DEF AvailableEntries
<1>2. biggest_part' = biggest_part
  BY <1>1 DEF biggest_part
<1>3. available_memory' = available_memory
  BY <1>1 DEF available_memory, MapThenSumSet, MapThenFoldSet, Length
<1>4. bitmap_size' = bitmap_size
  BY <1>3 DEF bitmap_size
<1> QED
  BY <1>1, <1>2, <1>4 DEF Frames, FirstFrame, FreeBase, BitmapBase

(* The set-up: p1 gets the first frame, p2 the next one; what zeroing p1    *)
(* clears was clear.                                                        *)
LEMMA SetUpEstablishes ==
  ASSUME AllocInv, phys_init_multiboot, Covered, BitmapFillsPage
  PROVE  AllocInv'
<1> DEFINE b     == BitmapBase
           bits0 == [f \in Frames |-> f \notin FreedFrames]
           bits1 == AfterAlloc(b, bits0)
           bits2 == AfterAlloc(b, bits1)
           taken == IF FreeFrames(bits0) = {} THEN <<>>
                    ELSE IF FreeFrames(bits1) = {} THEN <<FirstFree(bits0)>>
                    ELSE <<FirstFree(bits0), FirstFree(bits1)>>
<1>1. /\ mmap \in MemoryMaps /\ mmap' = mmap
      /\ bitmap' = b /\ used' = bits2
      /\ phase' = IF Len(taken) = 2 THEN "ready" ELSE "panic"
      /\ held' = [f \in Frames |-> Cardinality({i \in DOMAIN taken : taken[i] = f})]
      /\ discarded' = {taken[i] : i \in DOMAIN taken}
  <2>1. mmap \in MemoryMaps /\ mmap' = mmap /\ bitmap' = b
    BY DEF phys_init_multiboot, AllocInv, BitmapBase
  <2> HIDE DEF b
  <2> QED
    BY <2>1, Zenon DEF phys_init_multiboot
<1>2. UNCHANGED <<Frames, FirstFrame, BitmapBase>>
  BY <1>1, MapFixed
<1>3. /\ FirstFrame \in Nat /\ Frames \in SUBSET Nat
      /\ \A f \in Frames : \A g \in Nat : g <= f => g \in Frames
  <2>1. FirstFrame \in Nat /\ Frames \in SUBSET Nat /\ bitmap_size \in Nat
    BY <1>1, Numbers
  <2> QED
    BY <2>1 DEF Frames
<1>4. bits0 \in [Frames -> BOOLEAN] /\ \A f \in Frames : bits0[f] <=> f < FirstFrame
  <2>1. \A f \in FreedFrames : f >= FirstFrame
    BY <1>1, Numbers DEF FreedFrames
  <2>2. \A f \in Frames : f \in FreedFrames <=> f >= FirstFrame
    BY <2>1 DEF Covered
  <2>3. \A f \in Frames : f \notin FreedFrames <=> f < FirstFrame
    BY <1>3, <2>2
  <2> QED
    BY <2>3
<1> HIDE DEF b, bits0, bits1, bits2, taken
<1>5. ASSUME used' \in [Frames -> BOOLEAN],
             held' = [f \in Frames |-> IF f \in discarded' THEN 1 ELSE 0],
             discarded' \subseteq Frames, \A f \in discarded' : f >= FirstFrame,
             \A f \in Frames : used'[f] <=> (f < FirstFrame \/ f \in discarded'),
             phase' = "ready" => FirstFrame \in discarded',
             phase' = "panic" => \A f \in Frames : f >= FirstFrame => f \in discarded'
      PROVE  AllocInv'
  <2>1. UsedIsHeld'
    BY <1>2, <1>3, <1>5 DEF UsedIsHeld
  <2>2. FirstNeverFreed'
    BY <1>2, <1>5 DEF FirstNeverFreed
  <2> QED
    BY <1>1, <1>2, <2>1, <2>2 DEF AllocInv, b
<1>6. CASE FreeFrames(bits0) = {}
  <2>1. bits1 = bits0 /\ bits2 = bits0 /\ taken = <<>>
    BY <1>6 DEF AfterAlloc, bits1, bits2, taken
  <2>2. \A f \in Frames : f < FirstFrame
    BY <1>4, <1>6 DEF FreeFrames
  <2>3. discarded' = {} /\ phase' = "panic"
    BY <1>1, <2>1
  <2>4. \A f \in Frames : {i \in DOMAIN taken : taken[i] = f} = {}
    BY <2>1
  <2>5. held' = [f \in Frames |-> 0]
    BY <1>1, <2>4, FS_EmptySet
  <2>6. used' \in [Frames -> BOOLEAN] /\ \A f \in Frames : used'[f]
    BY <1>1, <1>4, <2>1, <2>2
  <2>7. held' = [f \in Frames |-> IF f \in discarded' THEN 1 ELSE 0]
    BY <2>3, <2>5
  <2>8. \A f \in Frames : used'[f] <=> (f < FirstFrame \/ f \in discarded')
    BY <2>2, <2>6
  <2>9. \A f \in Frames : f >= FirstFrame => f \in discarded'
    BY <1>3, <2>2
  <2> QED
    BY <1>5, <2>3, <2>6, <2>7, <2>8, <2>9
<1>7. CASE FreeFrames(bits0) # {}
  <2> DEFINE p1 == FirstFree(bits0)
  <2>1. p1 = FirstFrame /\ p1 \in Frames
    <3>1. DOMAIN bits0 = Frames
      BY <1>4
    <3>2. p1 \in Frames /\ ~bits0[p1] /\ \A f \in Frames : ~bits0[f] => p1 <= f
      BY <1>3, <1>7, <3>1, FirstFreeIsLeast
    <3> HIDE DEF p1
    <3>3. p1 >= FirstFrame /\ FirstFrame \in Frames
      BY <1>3, <1>4, <3>2
    <3> QED
      BY <1>3, <1>4, <3>2, <3>3
  <2> HIDE DEF p1
  <2>2. bits1 \in [Frames -> BOOLEAN] /\ \A f \in Frames : bits1[f] <=> f <= FirstFrame
    <3>1. bits1 = Take(b, bits0, FirstFrame)
      BY <1>7, <2>1 DEF AfterAlloc, bits1, p1
    <3>2. bits1 = [f \in Frames |-> (bits0[f] \/ f = FirstFrame)
                                    /\ b + (f \div 8) \notin Bytes(FirstFrame)]
      BY <1>4, <3>1 DEF Take
    <3>3. \A f \in Frames : f <= FirstFrame => b + (f \div 8) \notin Bytes(FirstFrame)
      BY <1>3 DEF BitmapFillsPage, b
    <3>4. \A f \in Frames : f <= FirstFrame <=> f < FirstFrame \/ f = FirstFrame
      BY <1>3
    <3> QED
      BY <1>4, <3>2, <3>3, <3>4
  <2>3. CASE FreeFrames(bits1) = {}
    <3>1. bits2 = bits1 /\ taken = <<FirstFrame>>
      BY <1>7, <2>1, <2>3 DEF AfterAlloc, bits2, taken, p1
    <3>2. \A f \in Frames : f <= FirstFrame
      BY <2>2, <2>3 DEF FreeFrames
    <3>3. discarded' = {FirstFrame} /\ phase' = "panic"
      BY <1>1, <3>1
    <3>4. \A f \in Frames : {i \in DOMAIN taken : taken[i] = f} = IF f = FirstFrame THEN {1} ELSE {}
      BY <3>1
    <3>5. Cardinality({1}) = 1 /\ Cardinality({}) = 0
      BY FS_EmptySet, FS_Singleton
    <3>6. held' = [f \in Frames |-> IF f \in {FirstFrame} THEN 1 ELSE 0]
      BY <1>1, <3>4, <3>5
    <3>7. used' = bits1
      BY <1>1, <3>1
    <3> QED
      BY <1>3, <1>5, <2>1, <2>2, <3>2, <3>3, <3>6, <3>7
  <2>4. CASE FreeFrames(bits1) # {}
    <3> DEFINE p2 == FirstFree(bits1)
    <3>1. p2 \in Frames /\ p2 > FirstFrame
      <4>1. DOMAIN bits1 = Frames
        BY <2>2
      <4>2. p2 \in Frames /\ ~bits1[p2]
        BY <1>3, <2>4, <4>1, FirstFreeIsLeast
      <4> HIDE DEF p2
      <4> QED
        BY <1>3, <2>2, <4>2
    <3>2. bits2 = [bits1 EXCEPT ![p2] = TRUE]
      BY <1>1, <2>2, <2>4, <3>1, TakeMarksOnly DEF AfterAlloc, bits2, b
    <3>3. taken = <<FirstFrame, p2>>
      BY <1>7, <2>1, <2>4 DEF p1, taken
    <3> HIDE DEF p2
    <3>4. discarded' = {FirstFrame, p2} /\ phase' = "ready"
      BY <1>1, <3>3
    <3>5. \A f \in Frames : {i \in DOMAIN taken : taken[i] = f} =
                           IF f = FirstFrame THEN {1} ELSE IF f = p2 THEN {2} ELSE {}
      BY <1>3, <3>1, <3>3
    <3>6. Cardinality({1}) = 1 /\ Cardinality({2}) = 1 /\ Cardinality({}) = 0
      BY FS_EmptySet, FS_Singleton
    <3>7. held' = [f \in Frames |-> IF f \in {FirstFrame, p2} THEN 1 ELSE 0]
      BY <1>1, <3>5, <3>6
    <3>8. used' \in [Frames -> BOOLEAN] /\ \A f \in Frames : used'[f] <=> f <= FirstFrame \/ f = p2
      BY <1>1, <2>2, <3>1, <3>2
    <3> QED
      BY <1>3, <1>5, <2>1, <3>1, <3>4, <3>7, <3>8
  <2> QED
    BY <2>3, <2>4
<1> QED
  BY <1>6, <1>7

(* An allocation takes a frame behind the first one, since p1 still has it. *)
LEMMA AllocKeeps ==
  ASSUME AllocInv, phys_alloc_page
  PROVE  AllocInv'
<1> DEFINE frame == FirstFree(used)
<1>1. /\ mmap \in MemoryMaps /\ mmap' = mmap /\ bitmap = BitmapBase /\ bitmap' = bitmap
      /\ UsedIsHeld /\ FirstNeverFreed /\ phase = "ready"
      /\ UNCHANGED <<phase, discarded>>
  BY DEF AllocInv, phys_alloc_page
<1>2. UNCHANGED <<Frames, FirstFrame, BitmapBase>>
  BY <1>1, MapFixed
<1>3. Frames \in SUBSET Nat /\ FirstFrame \in Nat
  BY <1>1, Numbers
<1>4. frame \in Frames /\ ~used[frame]
  <2>1. DOMAIN used = Frames /\ FreeFrames(used) # {}
    BY <1>1 DEF UsedIsHeld, phys_alloc_page
  <2> QED
    BY <1>3, <2>1, FirstFreeIsLeast
<1>5. used' = Take(bitmap, used, frame) /\ held' = [held EXCEPT ![frame] = @ + 1]
  BY DEF phys_alloc_page
<1> HIDE DEF frame
<1>6. frame > FirstFrame /\ held[frame] = 0
  BY <1>1, <1>3, <1>4 DEF UsedIsHeld, FirstNeverFreed
<1>7. used' = [used EXCEPT ![frame] = TRUE]
  BY <1>1, <1>4, <1>5, <1>6, TakeMarksOnly DEF UsedIsHeld
<1>8. held' = [held EXCEPT ![frame] = 1]
  BY <1>1, <1>4, <1>5, <1>6 DEF UsedIsHeld
<1>9. UsedIsHeld'
  <2>1. used' \in [Frames -> BOOLEAN] /\ held' \in [Frames -> {0, 1}]
    BY <1>1, <1>4, <1>7, <1>8 DEF UsedIsHeld
  <2>2. \A f \in Frames : used'[f] <=> (f < FirstFrame \/ held'[f] = 1)
    BY <1>1, <1>4, <1>7, <1>8 DEF UsedIsHeld
  <2>3. \A f \in Frames : f < FirstFrame => held'[f] = 0
    BY <1>1, <1>3, <1>6, <1>8 DEF UsedIsHeld
  <2> QED
    BY <1>2, <2>1, <2>2, <2>3 DEF UsedIsHeld
<1>10. FirstNeverFreed'
  BY <1>1, <1>2, <1>4, <1>8 DEF FirstNeverFreed, UsedIsHeld
<1> QED
  BY <1>1, <1>2, <1>9, <1>10 DEF AllocInv

(* Freeing clears the bit of the frame that is given back and no other.     *)
LEMMA FreeKeeps ==
  ASSUME AllocInv, NEW frame \in DOMAIN held, phys_free_page(frame)
  PROVE  AllocInv'
<1>1. /\ mmap \in MemoryMaps /\ mmap' = mmap /\ bitmap = BitmapBase /\ bitmap' = bitmap
      /\ UsedIsHeld /\ FirstNeverFreed /\ phase = "ready"
      /\ UNCHANGED <<phase, discarded>>
  BY DEF AllocInv, phys_free_page
<1>2. UNCHANGED <<Frames, FirstFrame, BitmapBase>>
  BY <1>1, MapFixed
<1>3. Frames \in SUBSET Nat /\ FirstFrame \in Nat
  BY <1>1, Numbers
<1>4. frame \in Frames /\ held[frame] = 1 /\ frame \notin discarded
  BY <1>1 DEF UsedIsHeld, phys_free_page
<1>5. frame >= FirstFrame
  BY <1>1, <1>3, <1>4 DEF UsedIsHeld
<1>6. used' = [used EXCEPT ![frame] = FALSE] /\ held' = [held EXCEPT ![frame] = 0]
  BY <1>1, <1>4 DEF phys_free_page, UsedIsHeld
<1>7. UsedIsHeld'
  <2>1. used' \in [Frames -> BOOLEAN] /\ held' \in [Frames -> {0, 1}]
    BY <1>1, <1>4, <1>6 DEF UsedIsHeld
  <2>2. \A f \in Frames : used'[f] <=> (f < FirstFrame \/ held'[f] = 1)
    BY <1>1, <1>3, <1>4, <1>5, <1>6 DEF UsedIsHeld
  <2>3. \A f \in Frames : f < FirstFrame => held'[f] = 0
    BY <1>1, <1>6 DEF UsedIsHeld
  <2> QED
    BY <1>2, <2>1, <2>2, <2>3 DEF UsedIsHeld
<1>8. FirstNeverFreed'
  BY <1>1, <1>2, <1>4, <1>6 DEF FirstNeverFreed, UsedIsHeld
<1> QED
  BY <1>1, <1>2, <1>7, <1>8 DEF AllocInv

(* The invariant of the allocator on every machine on which it works.       *)
LEMMA AllocCorrect == Spec => []Inv
<1>1. Init => Inv
  BY DEF Init, Inv, AllocInv
<1>2. Inv /\ [Next]_vars => Inv'
  <2> SUFFICES ASSUME Inv, [Next]_vars
               PROVE  Inv'
    OBVIOUS
  <2>1. mmap' = mmap
    BY DEF Next, vars, phys_init_multiboot, phys_alloc_page, out_of_memory, phys_free_page
  <2> SUFFICES ASSUME Covered', BitmapFillsPage'
               PROVE  AllocInv'
    BY <2>1 DEF Inv
  <2>2. Covered /\ BitmapFillsPage
    <3>1. FreedFrames' = FreedFrames /\ UNCHANGED <<Frames, FirstFrame, BitmapBase>>
      BY <2>1, MapFixed DEF FreedFrames
    <3> QED
      BY <3>1 DEF Covered, BitmapFillsPage, Bytes
  <2>3. AllocInv
    BY <2>2 DEF Inv
  <2>4. CASE phys_init_multiboot
    BY <2>2, <2>3, <2>4, SetUpEstablishes
  <2>5. CASE phys_alloc_page
    BY <2>3, <2>5, AllocKeeps
  <2>6. CASE out_of_memory
    <3>1. UNCHANGED <<Frames, FirstFrame, BitmapBase>>
      BY <2>1, MapFixed
    <3>2. /\ FreeFrames(used) = {} /\ phase = "ready" /\ phase' = "panic"
          /\ UNCHANGED <<mmap, bitmap, used, held, discarded>>
      BY <2>6 DEF out_of_memory
    <3>3. UsedIsHeld /\ FirstNeverFreed /\ bitmap = BitmapBase
      BY <2>3, <3>2 DEF AllocInv
    <3>4. UsedIsHeld'
      BY <3>1, <3>2, <3>3 DEF UsedIsHeld
    <3>5. \A f \in Frames : used[f]
      BY <3>2, <3>3 DEF FreeFrames, UsedIsHeld
    <3>6. \A f \in Frames : f >= FirstFrame => held[f] = 1
      BY <2>3, <3>3, <3>5, Numbers DEF UsedIsHeld, AllocInv
    <3>7. FirstNeverFreed'
      BY <3>1, <3>2, <3>3, <3>6 DEF FirstNeverFreed
    <3> QED
      BY <2>3, <3>1, <3>2, <3>3, <3>4, <3>7 DEF AllocInv
  <2>7. ASSUME NEW frame \in DOMAIN held, phys_free_page(frame)
        PROVE  AllocInv'
    BY <2>3, <2>7, FreeKeeps
  <2>8. CASE UNCHANGED vars
    <3>1. UNCHANGED <<Frames, FirstFrame, BitmapBase>>
      BY <2>1, MapFixed
    <3> QED
      BY <2>3, <2>8, <3>1 DEF vars, AllocInv, UsedIsHeld, FirstNeverFreed
  <2> QED
    BY <2>4, <2>5, <2>6, <2>7, <2>8 DEF Next
<1> QED
  BY <1>1, <1>2, PTL DEF Spec

(* No frame is handed out while somebody holds it, on every machine without *)
(* bitmap bits behind the freed range and whose bitmap fills its first page. *)
THEOREM FrameHeldOnce == Spec => [](Covered /\ BitmapFillsPage => NoFrameHeldTwice)
<1>1. Inv => (Covered /\ BitmapFillsPage => NoFrameHeldTwice)
  BY DEF Inv, AllocInv, UsedIsHeld, NoFrameHeldTwice
<1> QED
  BY <1>1, AllocCorrect, PTL

(* On the same machines the bitmap says just which frames may be taken.     *)
THEOREM BitmapIsExact == Spec => [](Covered /\ BitmapFillsPage => BitmapExact)
<1>1. Inv => (Covered /\ BitmapFillsPage => BitmapExact)
  <2> SUFFICES ASSUME Inv, Covered, BitmapFillsPage
               PROVE  BitmapExact
    OBVIOUS
  <2>1. CASE phase = "reset"
    BY <2>1 DEF Inv, AllocInv, BitmapExact
  <2>2. CASE phase # "reset"
    BY <2>2 DEF Inv, AllocInv, UsedIsHeld, BitmapExact
  <2> QED
    BY <2>1, <2>2
<1> QED
  BY <1>1, AllocCorrect, PTL

(* Without a hole all the frames are freed: phys_free_range is given more   *)
(* frames than there are.                                                   *)
LEMMA NoHoleCovers ==
  ASSUME mmap \in MemoryMaps, NoHole
  PROVE  Covered
<1> DEFINE base == biggest_part.base_addr
           len  == biggest_part.length
<1> SUFFICES ASSUME NEW f \in Frames, f >= FirstFrame
             PROVE  f <= FirstFrame + len - 1
  BY Numbers DEF Covered, FreedFrames
<1>1. /\ base \in Nat /\ len \in Nat /\ FirstFrame \in Nat /\ f \in Nat
      /\ base < FirstFrame * PAGE_SIZE + PAGE_SIZE
  <2>1. /\ base \in Nat /\ len \in Nat /\ bitmap_size \in Nat /\ FreeBase \in Nat
        /\ FirstFrame \in Nat /\ f \in Nat
    BY Numbers
  <2>2. base <= FreeBase
    BY <2>1, Numbers, PhysMemAssumption DEF BitmapBase
  <2>3. FirstFrame * PAGE_SIZE \in Nat
    BY <2>1, PhysMemAssumption
  <2> QED
    BY <2>1, <2>2, <2>3, Numbers, PhysMemAssumption
<1>2. (f + 1) * PAGE_SIZE <= base + len
  <2>1. bitmap_size \in Nat /\ f + 1 <= 8 * bitmap_size
    BY Numbers DEF Frames
  <2>2. (f + 1) * PAGE_SIZE <= (8 * bitmap_size) * PAGE_SIZE
    BY <1>1, <2>1, PhysMemAssumption
  <2>3. (f + 1) * PAGE_SIZE \in Nat /\ (8 * bitmap_size) * PAGE_SIZE \in Nat
    BY <1>1, <2>1, PhysMemAssumption
  <2> QED
    BY <1>1, <2>2, <2>3 DEF NoHole
<1> HIDE DEF base, len
<1> SUFFICES ASSUME FirstFrame + len <= f
             PROVE  FALSE
  BY <1>1
<1>3. (FirstFrame + len) * PAGE_SIZE <= f * PAGE_SIZE
  BY <1>1, PhysMemAssumption
<1>4. len <= len * PAGE_SIZE
  BY <1>1, PhysMemAssumption
<1>5. /\ (FirstFrame + len) * PAGE_SIZE = FirstFrame * PAGE_SIZE + len * PAGE_SIZE
      /\ (f + 1) * PAGE_SIZE = f * PAGE_SIZE + PAGE_SIZE
  BY <1>1, PhysMemAssumption
<1>6. FirstFrame * PAGE_SIZE \in Nat /\ len * PAGE_SIZE \in Nat /\ f * PAGE_SIZE \in Nat
  BY <1>1, PhysMemAssumption
<1> QED
  BY <1>1, <1>2, <1>3, <1>4, <1>5, <1>6, PhysMemAssumption

(* And "Out of memory!" is said only when every frame is held.              *)
THEOREM PanicJustified == Spec => [](Covered /\ BitmapFillsPage => PanicOnlyWhenFull)
<1>1. Inv => (Covered /\ BitmapFillsPage => PanicOnlyWhenFull)
  BY DEF Inv, AllocInv, UsedIsHeld, FirstNeverFreed, PanicOnlyWhenFull
<1> QED
  BY <1>1, AllocCorrect, PTL

(* On a machine whose bitmap ends with its biggest region, every frame in   *)
(* use is RAM of that region.                                               *)
THEOREM FramesAreRam == Spec => [](NoHole /\ BitmapFillsPage => HeldIsRam)
<1>1. Inv /\ NoHole /\ BitmapFillsPage => HeldIsRam
  <2> SUFFICES ASSUME Inv, NoHole, BitmapFillsPage, NEW frame \in DOMAIN held, held[frame] > 0
               PROVE  \E i \in AvailableEntries :
                        Bytes(frame) \subseteq mmap[i].base_addr ..
                                              (mmap[i].base_addr + mmap[i].length - 1)
    BY DEF HeldIsRam
  <2>1. AllocInv
    BY NoHoleCovers DEF Inv
  <2>2. frame \in Frames /\ frame >= FirstFrame
    BY <2>1, Numbers DEF AllocInv, UsedIsHeld
  <2>3. PICK i \in AvailableEntries : biggest_part = mmap[i]
    BY <2>1, BiggestIsEntry DEF AllocInv
  <2> DEFINE base == biggest_part.base_addr
             len  == biggest_part.length
             a    == frame * PAGE_SIZE
  <2>4. base \in Nat /\ len \in Nat /\ a \in Nat
    BY <2>1, <2>2, Numbers, PhysMemAssumption DEF AllocInv
  <2>5. base <= a
    <3>1. base + FirstMegabyte < FirstFrame * PAGE_SIZE + PAGE_SIZE
      <4>1. /\ FreeBase \in Nat /\ bitmap_size \in Nat /\ FirstFrame * PAGE_SIZE \in Nat
            /\ base + FirstMegabyte + bitmap_size <= FreeBase
            /\ FreeBase < FirstFrame * PAGE_SIZE + PAGE_SIZE
        BY <2>1, Numbers, PhysMemAssumption DEF BitmapBase, AllocInv
      <4> HIDE DEF base
      <4> QED
        BY <2>4, <4>1, PhysMemAssumption
    <3>2. FirstFrame * PAGE_SIZE <= a
      <4>1. FirstFrame \in Nat /\ frame \in Nat
        BY <2>1, <2>2, Numbers DEF AllocInv
      <4> QED
        BY <2>2, <4>1, PhysMemAssumption
    <3>3. FirstFrame * PAGE_SIZE \in Nat
      BY <2>1, Numbers, PhysMemAssumption DEF AllocInv
    <3> HIDE DEF base, a
    <3> QED
      BY <2>4, <3>1, <3>2, <3>3, PhysMemAssumption DEF NoHole
  <2>6. a + PAGE_SIZE <= base + len
    <3>1. bitmap_size \in Nat /\ frame \in Nat /\ frame + 1 <= 8 * bitmap_size
      BY <2>1, <2>2, Numbers DEF Frames, AllocInv
    <3>2. (frame + 1) * PAGE_SIZE <= (8 * bitmap_size) * PAGE_SIZE
      BY <3>1, PhysMemAssumption
    <3>3. (frame + 1) * PAGE_SIZE = a + PAGE_SIZE /\ (8 * bitmap_size) * PAGE_SIZE \in Nat
      BY <3>1, PhysMemAssumption
    <3> QED
      BY <2>4, <3>2, <3>3, PhysMemAssumption DEF NoHole
  <2> HIDE DEF base, len, a
  <2>7. a..(a + PAGE_SIZE - 1) \subseteq base..(base + len - 1)
    BY <2>4, <2>5, <2>6, PhysMemAssumption
  <2> QED
    BY <2>3, <2>7 DEF Bytes, base, len, a
<1> QED
  BY <1>1, AllocCorrect, PTL
=============================================================================

----------------------------- MODULE Heap_proofs -----------------------------
(***************************************************************************)
(* Theorems about the kernel heap, for any sizes and any number of callers *)
(* of which never two are in kmalloc at once, as long as the heap is not   *)
(* used up.  Neither condition is the heap's own doing: the lock does not  *)
(* keep callers apart, and at its end kmalloc runs off the list.  What a   *)
(* task writes through its pointer changes no header here; the code allows *)
(* for that only while HeadersKeepApart applies.                           *)
(***************************************************************************)
EXTENDS Heap, FiniteSetTheorems, TLAPS

(* Behind the last block handed out there is room for a header and a        *)
(* smallest block.                                                          *)
NotUsedUp == Budget + HEADER + ROUND_NUM <= heap_end

End(heap, h) == h + HEADER + heap[h].length

Block == [length : Nat, next : Nat \cup {Null}, last : Nat \cup {Null}, is_free : BOOLEAN]

(* The inductive invariant.  Blocks do not overlap and each links the one   *)
(* behind it; only the last one is free, for no block that was handed out   *)
(* ever becomes free again.                                                 *)
BlocksInRow ==
  /\ blocks \in [DOMAIN blocks -> Block]
  /\ DOMAIN blocks \in SUBSET Nat
  /\ 0 \in DOMAIN blocks /\ blocks[0].last = Null
  /\ \A h \in DOMAIN blocks :
       /\ End(blocks, h) <= heap_end
       /\ \A k \in DOMAIN blocks : h < k => End(blocks, h) <= k
       /\ h # 0 => blocks[h].last \in Handed /\ End(blocks, blocks[h].last) = h
  /\ \A h \in DOMAIN blocks :
       IF blocks[h].is_free
       THEN blocks[h].next = Null /\ End(blocks, h) = heap_end
       ELSE /\ blocks[h].next = End(blocks, h) /\ End(blocks, h) \in DOMAIN blocks
            /\ blocks[End(blocks, h)].last = h
  /\ \E h \in DOMAIN blocks : blocks[h].is_free

LiveInBlocks ==
  /\ \A o \in live : /\ o.hdr \in Handed /\ o.size \in Nat
                     /\ o.size <= blocks[o.hdr].length
  /\ \A o, q \in live : o.hdr = q.hdr => o = q

(* Whoever searches asked for no more than the budget leaves behind the     *)
(* blocks handed out, so that the search ends at the free one.              *)
SearchInv ==
  /\ phase # "wild"
  /\ pc \in [Callers -> {"idle", "search", "take"}]
  /\ hdr \in [Callers -> Nat] /\ size \in [Callers -> Nat]
  /\ \A h \in Handed : End(blocks, h) <= Budget
  /\ \A p \in Callers : pc[p] # "idle" =>
       /\ size[p] >= ROUND_NUM
       /\ HEADER + size[p] <= Budget
       /\ \A h \in Handed : End(blocks, h) + HEADER + size[p] <= Budget
       /\ hdr[p] \in DOMAIN blocks
       /\ pc[p] = "take" => blocks[hdr[p]].is_free

HeapInv == BlocksInRow /\ LiveInBlocks /\ SearchInv

-----------------------------------------------------------------------------
LEMMA Constants ==
  /\ heap_end \in Nat /\ heap_end > HEADER /\ heap_end < WORD
  /\ HEADER \in Nat \ {0} /\ ROUND_NUM \in Nat \ {0} /\ Budget \in Nat /\ WORD \in Nat
<1>1. pages * PAGE_SIZE \in Nat /\ PAGE_SIZE <= pages * PAGE_SIZE
  BY HeapAssumption
<1> QED
  BY <1>1, HeapAssumption DEF heap_end

(* Sizes are rounded up, to ROUND_NUM at least.                             *)
LEMMA RoundedUp ==
  ASSUME NEW n \in Sizes
  PROVE  Rounded(n) \in Nat /\ Rounded(n) >= ROUND_NUM /\ Rounded(n) >= n
<1>1. n \in Nat \ {0} /\ ROUND_NUM \in Nat \ {0}
  BY HeapAssumption
<1>2. n % ROUND_NUM \in Int /\ 0 <= n % ROUND_NUM /\ n % ROUND_NUM < ROUND_NUM /\ n % ROUND_NUM <= n
  BY <1>1
<1>3. n % ROUND_NUM = 0 => n >= ROUND_NUM
  BY <1>1
<1> QED
  BY <1>1, <1>2, <1>3 DEF Rounded

(* There is one free block, and it is the last one.                         *)
LEMMA FreeIsLast ==
  ASSUME BlocksInRow, NEW h \in DOMAIN blocks, blocks[h].is_free,
         NEW k \in DOMAIN blocks, k # h
  PROVE  k < h /\ ~blocks[k].is_free
<1>1. /\ h \in Nat /\ k \in Nat /\ blocks[h].length \in Nat /\ blocks[k].length \in Nat
      /\ End(blocks, h) = heap_end /\ End(blocks, k) <= heap_end
      /\ h < k => End(blocks, h) <= k
      /\ k < h => End(blocks, k) <= h
      /\ blocks[k].is_free => End(blocks, k) = heap_end
  BY DEF BlocksInRow, Block
<1> QED
  BY <1>1, Constants DEF End

LEMMA RoomIsInBudget ==
  ASSUME BlocksInRow, SearchInv, NEW p \in Callers, pc[p] # "idle",
         NEW h \in DOMAIN blocks, blocks[h].is_free
  PROVE  h + HEADER + size[p] <= Budget
<1>1. h \in Nat /\ size[p] \in Nat
  BY DEF BlocksInRow, SearchInv
<1>2. CASE h = 0
  BY <1>1, <1>2, Constants DEF SearchInv
<1>3. CASE h # 0
  BY <1>3 DEF BlocksInRow, SearchInv
<1> QED
  BY <1>2, <1>3

(* For a caller in kmalloc the free block has room, with another header     *)
(* behind and a smallest block behind that.                                 *)
LEMMA FreeHasRoom ==
  ASSUME NotUsedUp, BlocksInRow, SearchInv, NEW p \in Callers, pc[p] # "idle",
         NEW h \in DOMAIN blocks, blocks[h].is_free
  PROVE  /\ h \in Nat /\ size[p] \in Nat /\ blocks[h].length \in Nat
         /\ size[p] + HEADER + ROUND_NUM <= blocks[h].length
<1>1. h \in Nat /\ size[p] \in Nat /\ blocks[h].length \in Nat /\ End(blocks, h) = heap_end
  BY DEF BlocksInRow, Block, SearchInv
<1>2. h + HEADER + size[p] <= Budget
  BY RoomIsInBudget
<1> QED
  BY <1>1, <1>2, Constants DEF NotUsedUp, End

(* Two callers in kmalloc at once are one too many.                         *)
LEMMA Alone ==
  ASSUME MutualExclusion, NEW p \in Callers, NEW q \in Callers,
         pc[p] # "idle", pc[q] # "idle"
  PROVE  p = q
<1> DEFINE S == {r \in Callers : pc[r] # "idle"}
<1> SUFFICES ASSUME p # q PROVE FALSE
  OBVIOUS
<1>1. IsFiniteSet(S) /\ Cardinality(S) \in Nat
  BY HeapAssumption, FS_Subset, FS_CardinalityType
<1>2. p \in S /\ q \in S \ {p}
  OBVIOUS
<1>3. Cardinality(S) <= 1
  BY DEF MutualExclusion
<1> HIDE DEF S
<1>4. Cardinality(S \ {p}) = Cardinality(S) - 1 /\ IsFiniteSet(S \ {p})
  BY <1>1, <1>2, FS_RemoveElement
<1>5. Cardinality((S \ {p}) \ {q}) = Cardinality(S \ {p}) - 1 /\ IsFiniteSet((S \ {p}) \ {q})
  BY <1>2, <1>4, FS_RemoveElement
<1>6. Cardinality((S \ {p}) \ {q}) \in Nat
  BY <1>5, FS_CardinalityType
<1> QED
  BY <1>1, <1>3, <1>4, <1>5, <1>6

-----------------------------------------------------------------------------
LEMMA CutInFront ==
  ASSUME NEW b \in Block, NEW n, NEW r
  PROVE  [[b EXCEPT !.next = r, !.length = n] EXCEPT !.is_free = FALSE] =
           [length |-> n, next |-> r, last |-> b.last, is_free |-> FALSE]
<1>1. b = [length |-> b.length, next |-> b.next, last |-> b.last, is_free |-> b.is_free]
  BY DEF Block
<1> DEFINE Made(l, x, y, z) == [length |-> l, next |-> x, last |-> y, is_free |-> z]
<1>2. \A l, x, y, z, v : [Made(l, x, y, z) EXCEPT !.next = v] = Made(l, v, y, z)
  OBVIOUS
<1>3. \A l, x, y, z, v : [Made(l, x, y, z) EXCEPT !.length = v] = Made(v, x, y, z)
  OBVIOUS
<1>4. \A l, x, y, z, v : [Made(l, x, y, z) EXCEPT !.is_free = v] = Made(l, x, y, v)
  OBVIOUS
<1>5. PICK l, x, y, z : b = Made(l, x, y, z)
  BY <1>1
<1>6. b.last = y
  BY <1>5
<1>7. PICK v : v = FALSE
  OBVIOUS
<1>8. Made(n, r, y, v) = [length |-> n, next |-> r, last |-> y, is_free |-> v]
  OBVIOUS
<1> HIDE DEF Made
<1>9. PICK c : c = [b EXCEPT !.next = r]
  OBVIOUS
<1>10. c = Made(l, r, y, z)
  BY <1>2, <1>5, <1>9
<1>11. [c EXCEPT !.length = n] = Made(n, r, y, z)
  BY <1>3, <1>10
<1>12. PICK d : d = [b EXCEPT !.next = r, !.length = n]
  OBVIOUS
<1>13. d = [c EXCEPT !.length = n]
  BY <1>9, <1>12
<1>14. d = Made(n, r, y, z)
  BY <1>11, <1>13
<1>15. [d EXCEPT !.is_free = v] = Made(n, r, y, v)
  BY <1>4, <1>14
<1> QED
  BY <1>6, <1>7, <1>8, <1>12, <1>15

(* Block h cut in two, the front handed out.                                *)
Cut(h, n) ==
  [b \in DOMAIN blocks \cup {h + n + HEADER} |->
     IF b = h + n + HEADER
     THEN [length |-> blocks[h].length - n - HEADER, next |-> Null,
           last |-> h, is_free |-> TRUE]
     ELSE IF b = h THEN [length |-> n, next |-> h + n + HEADER,
                         last |-> blocks[h].last, is_free |-> FALSE]
     ELSE blocks[b]]

Splits(h, n) ==
  /\ h \in DOMAIN blocks /\ blocks[h].is_free /\ n \in Nat /\ h + n + HEADER \in Nat
  /\ SplitsOff(h, n) /\ h + n + HEADER \notin DOMAIN blocks
  /\ [split(h, n) EXCEPT ![h].is_free = FALSE] = Cut(h, n)

(* What a split does when there is room: the free block is cut in two.      *)
LEMMA SplitCuts ==
  ASSUME NotUsedUp, BlocksInRow, SearchInv, NEW p \in Callers, pc[p] = "take",
         NEW h, h = hdr[p], NEW n, n = size[p]
  PROVE  Splits(h, n)
<1> DEFINE r == h + n + HEADER
<1>1. h \in DOMAIN blocks /\ blocks[h].is_free
  BY DEF SearchInv
<1>2. /\ h \in Nat /\ n \in Nat /\ blocks[h].length \in Nat /\ n >= ROUND_NUM
      /\ n + HEADER + ROUND_NUM <= blocks[h].length
  BY <1>1, FreeHasRoom DEF SearchInv
<1>3. blocks[h].length < WORD
  <2>1. End(blocks, h) = heap_end
    BY <1>1 DEF BlocksInRow
  <2> QED
    BY <1>2, <2>1, Constants DEF End
<1>4. SplitLength(h, n) = blocks[h].length - n - HEADER
  <2>1. blocks[h].length - n - HEADER \in 0 .. (WORD - 1)
    BY <1>2, <1>3, Constants
  <2>2. \A x \in 0 .. (WORD - 1) : x % WORD = x
    BY Constants
  <2> QED
    BY <2>1, <2>2, Zenon DEF SplitLength
<1>5. SplitsOff(h, n)
  BY <1>2, <1>4, Constants DEF SplitsOff
<1>6. r \in Nat /\ r > h
  BY <1>2, Constants
<1>7. r \notin DOMAIN blocks
  BY <1>1, <1>2, <1>6, FreeIsLast DEF BlocksInRow
<1>8. blocks[h] \in Block /\ blocks[h].next = Null /\ Null \notin DOMAIN blocks
  BY <1>1 DEF BlocksInRow, Null
<1> DEFINE rest == [length |-> blocks[h].length - n - HEADER, next |-> Null,
                    last |-> h, is_free |-> TRUE]
           front == [blocks[h] EXCEPT !.next = r, !.length = n]
           cut == [b \in DOMAIN blocks \cup {r} |->
                     IF b = r THEN rest ELSE IF b = h THEN front ELSE blocks[b]]
<1>9. Rest(h, n) = rest
  BY <1>4, <1>8 DEF Rest
<1>10. h + n + HEADER = r /\ blocks[h].next \notin DOMAIN blocks \cup {r}
  BY <1>6, <1>8 DEF Null
<1>11. split(h, n) = cut
  <2> DEFINE picked(b) ==
        CASE b = r -> Rest(h, n)
          [] b = h -> front
          [] b = blocks[h].next -> [blocks[b] EXCEPT !.last = r]
          [] OTHER -> blocks[b]
  <2>1. split(h, n) = [b \in DOMAIN blocks \cup {r} |-> picked(b)]
    BY <1>10 DEF split
  <2>2. ASSUME NEW b \in DOMAIN blocks \cup {r}
        PROVE  picked(b) = IF b = r THEN rest ELSE IF b = h THEN front ELSE blocks[b]
    <3> HIDE DEF rest, front
    <3>1. CASE b = r
      BY <3>1, <1>6, <1>9, <1>10
    <3>2. CASE b # r /\ b = h
      BY <3>2, <1>1, <1>10
    <3>3. CASE b # r /\ b # h
      BY <3>3, <1>10
    <3> QED
      BY <3>1, <3>2, <3>3
  <2> HIDE DEF rest, front, picked
  <2> QED
    BY <2>1, <2>2
<1>12. [front EXCEPT !.is_free = FALSE] =
         [length |-> n, next |-> r, last |-> blocks[h].last, is_free |-> FALSE]
  <2>1. PICK b \in Block : b = blocks[h]
    BY <1>8
  <2>2. [[b EXCEPT !.next = r, !.length = n] EXCEPT !.is_free = FALSE] =
          [length |-> n, next |-> r, last |-> b.last, is_free |-> FALSE]
    BY CutInFront
  <2> QED
    BY <2>1, <2>2
<1>13. [cut EXCEPT ![h].is_free = FALSE] =
         [b \in DOMAIN blocks \cup {r} |->
            IF b = r THEN rest
            ELSE IF b = h THEN [front EXCEPT !.is_free = FALSE]
            ELSE blocks[b]]
  <2> HIDE DEF rest, front
  <2>1. /\ DOMAIN cut = DOMAIN blocks \cup {r}
        /\ h \in DOMAIN cut /\ h # r /\ cut[h] = front
        /\ \A b \in DOMAIN cut : b # h => cut[b] = IF b = r THEN rest ELSE blocks[b]
    BY <1>1, <1>6, <1>7
  <2> HIDE DEF cut
  <2>2. [cut EXCEPT ![h].is_free = FALSE] =
          [b \in DOMAIN cut |-> IF b = h THEN [cut[h] EXCEPT !.is_free = FALSE] ELSE cut[b]]
    OBVIOUS
  <2> QED
    BY <2>1, <2>2
<1>14. [split(h, n) EXCEPT ![h].is_free = FALSE] =
         [b \in DOMAIN blocks \cup {r} |->
            IF b = r THEN rest
            ELSE IF b = h THEN [length |-> n, next |-> r,
                                last |-> blocks[h].last, is_free |-> FALSE]
            ELSE blocks[b]]
  <2> HIDE DEF cut, rest, front
  <2>1. [split(h, n) EXCEPT ![h].is_free = FALSE] = [cut EXCEPT ![h].is_free = FALSE]
    BY <1>11, Zenon
  <2> QED
    BY <2>1, <1>12, <1>13, Zenon
<1>15. [split(h, n) EXCEPT ![h].is_free = FALSE] = Cut(h, n)
  <2> HIDE DEF cut, front
  <2> QED
    BY <1>14 DEF Cut
<1> QED
  BY <1>1, <1>2, <1>5, <1>6, <1>7, <1>15, Zenon DEF Splits

-----------------------------------------------------------------------------
LEMMA HeapInvInit ==
  ASSUME Init
  PROVE  HeapInv
<1>1. /\ blocks \in [{0} -> Block] /\ DOMAIN blocks = {0} /\ blocks[0] \in Block
      /\ blocks[0].length = heap_end - HEADER
      /\ blocks[0].next = Null /\ blocks[0].last = Null /\ blocks[0].is_free
  BY Constants DEF Init, Block
<1>2. BlocksInRow
  <2>1. End(blocks, 0) = heap_end
    BY <1>1, Constants DEF End
  <2> QED
    BY <1>1, <2>1, Constants DEF BlocksInRow, Null
<1>3. SearchInv
  <2>1. Handed = {}
    BY <1>1 DEF Handed
  <2> QED
    BY <2>1 DEF Init, SearchInv
<1> QED
  BY <1>2, <1>3 DEF HeapInv, Init, LiveInBlocks

LEMMA KmallocKeeps ==
  ASSUME HeapInv, NEW p \in Callers, NEW n \in Sizes, kmalloc(p, n)
  PROVE  HeapInv'
<1>1. UNCHANGED <<blocks, live, phase>> /\ InBudget(n)
  BY DEF kmalloc
<1>2. BlocksInRow' /\ LiveInBlocks'
  BY <1>1 DEF HeapInv, BlocksInRow, LiveInBlocks, End, Handed
<1>3. Rounded(n) \in Nat /\ Rounded(n) >= ROUND_NUM
  BY RoundedUp
<1>4. HEADER + Rounded(n) <= Budget
  BY <1>1 DEF InBudget
<1>5. \A h \in Handed : End(blocks, h) + HEADER + Rounded(n) <= Budget
  <2> TAKE h \in Handed
  <2>1. h \in Nat /\ blocks[h].length \in Nat
    BY DEF HeapInv, BlocksInRow, Handed, Block
  <2>2. h + Extent(h) + HEADER + Rounded(n) <= Budget
    BY <1>1 DEF InBudget
  <2> QED
    BY <1>3, <2>1, <2>2, Constants DEF Extent, End
<1>6. 0 \in DOMAIN blocks
  BY DEF HeapInv, BlocksInRow
<1>7. /\ size' = [size EXCEPT ![p] = Rounded(n)] /\ hdr' = [hdr EXCEPT ![p] = 0]
      /\ pc' = [pc EXCEPT ![p] = "search"]
  BY DEF kmalloc
<1>8. SearchInv'
  BY <1>1, <1>3, <1>4, <1>5, <1>6, <1>7 DEF HeapInv, SearchInv, Handed, End
<1> QED
  BY <1>2, <1>8 DEF HeapInv

LEMMA FoundKeeps ==
  ASSUME HeapInv, NEW p \in Callers, found(p)
  PROVE  HeapInv'
<1>1. /\ UNCHANGED <<blocks, live, hdr, size, phase>>
      /\ pc[p] = "search" /\ blocks[hdr[p]].is_free
      /\ pc' = [pc EXCEPT ![p] = "take"]
  BY DEF found, Fits
<1>2. BlocksInRow' /\ LiveInBlocks'
  BY <1>1 DEF HeapInv, BlocksInRow, LiveInBlocks, End, Handed
<1>3. SearchInv'
  BY <1>1 DEF HeapInv, SearchInv, Handed, End
<1> QED
  BY <1>2, <1>3 DEF HeapInv

(* The search passes the blocks handed out and stops at the free one.       *)
LEMMA SearchKeeps ==
  ASSUME NotUsedUp, HeapInv, NEW p \in Callers, search(p)
  PROVE  HeapInv'
<1> DEFINE h == hdr[p]
<1>1. UNCHANGED <<blocks, live, pc, size>> /\ pc[p] = "search" /\ ~Fits(p)
  BY DEF search
<1>2. h \in DOMAIN blocks
  BY <1>1 DEF HeapInv, SearchInv
<1>3. ~blocks[h].is_free
  <2> SUFFICES ASSUME blocks[h].is_free PROVE Fits(p)
    BY <1>1
  <2>1. /\ size[p] \in Nat /\ blocks[h].length \in Nat
        /\ size[p] + HEADER + ROUND_NUM <= blocks[h].length
    BY <1>1, <1>2, FreeHasRoom DEF HeapInv
  <2> QED
    BY <2>1, Constants DEF Fits
<1>4. blocks[h].next \in DOMAIN blocks /\ blocks[h].next \in Nat
  BY <1>2, <1>3 DEF HeapInv, BlocksInRow
<1>5. hdr' = [hdr EXCEPT ![p] = blocks[h].next] /\ UNCHANGED phase
  BY <1>4 DEF search, Null
<1>6. BlocksInRow' /\ LiveInBlocks'
  BY <1>1 DEF HeapInv, BlocksInRow, LiveInBlocks, End, Handed
<1>7. SearchInv'
  BY <1>1, <1>4, <1>5 DEF HeapInv, SearchInv, Handed, End
<1> QED
  BY <1>6, <1>7 DEF HeapInv

LEMMA KfreeKeeps ==
  ASSUME HeapInv, NEW p \in Callers, NEW o \in live, kfree(p, o)
  PROVE  HeapInv'
<1>1. UNCHANGED <<blocks, pc, hdr, size, phase>> /\ live' \in SUBSET live
  BY DEF kfree
<1>2. BlocksInRow' /\ SearchInv'
  BY <1>1 DEF HeapInv, BlocksInRow, SearchInv, End, Handed
<1>3. LiveInBlocks'
  BY <1>1 DEF HeapInv, LiveInBlocks, Handed
<1> QED
  BY <1>2, <1>3 DEF HeapInv

(* The free block is cut: its front is handed out, the rest is the new free *)
(* block.  The room the others leave is still as they found it, because     *)
(* there are no others.                                                     *)
LEMMA TakeKeeps ==
  ASSUME NotUsedUp, HeapInv, MutualExclusion, NEW p \in Callers, take(p)
  PROVE  HeapInv'
<1> DEFINE h == hdr[p]
           n == size[p]
           r == h + n + HEADER
<1>1. pc[p] = "take" /\ UNCHANGED <<hdr, size>>
  BY DEF take
<1>2. CASE h + n + 2 * HEADER > MappedEnd
  <2>1. UNCHANGED <<blocks, live, pc>> /\ phase' = "fault"
    <3>1. SplitsOff(h, n)
      BY <1>1, SplitCuts DEF HeapInv, Splits
    <3> QED
      BY <1>2, <3>1 DEF take
  <2>2. BlocksInRow' /\ LiveInBlocks'
    BY <2>1 DEF HeapInv, BlocksInRow, LiveInBlocks, End, Handed
  <2>3. SearchInv'
    BY <1>1, <2>1 DEF HeapInv, SearchInv, End, Handed
  <2> QED
    BY <2>2, <2>3 DEF HeapInv
<1>3. CASE ~(h + n + 2 * HEADER > MappedEnd)
  <2>1. /\ h \in DOMAIN blocks /\ blocks[h].is_free /\ n \in Nat /\ r \in Nat
        /\ SplitsOff(h, n) /\ r \notin DOMAIN blocks
        /\ [split(h, n) EXCEPT ![h].is_free = FALSE] = Cut(h, n)
    <3>1. Splits(h, n)
      BY <1>1, SplitCuts DEF HeapInv
    <3> QED
      BY <3>1, Zenon DEF Splits
  <2>2. blocks' = Cut(h, n)
    BY <1>3, <2>1 DEF take
  <2>3. /\ live' = live \cup {[hdr |-> h, size |-> n]}
        /\ pc' = [pc EXCEPT ![p] = "idle"] /\ UNCHANGED phase
    BY <1>3 DEF take
  <2>4. /\ h \in Nat /\ blocks[h].length \in Nat
        /\ n + HEADER + ROUND_NUM <= blocks[h].length
        /\ End(blocks, h) = heap_end /\ blocks[h].next = Null
        /\ blocks[h].last \in Nat \cup {Null}
    BY <1>1, <2>1, FreeHasRoom DEF HeapInv, BlocksInRow, Block
  <2>5. \A b \in DOMAIN blocks : b # h => b < h /\ ~blocks[b].is_free
    BY <2>1, FreeIsLast DEF HeapInv
  <2>6. /\ DOMAIN blocks' = DOMAIN blocks \cup {r}
        /\ blocks'[r].length = blocks[h].length - n - HEADER
        /\ blocks'[r].next = Null /\ blocks'[r].last = h /\ blocks'[r].is_free
        /\ blocks'[h].length = n /\ blocks'[h].next = r
        /\ blocks'[h].last = blocks[h].last /\ ~blocks'[h].is_free
        /\ \A b \in DOMAIN blocks : b # h => blocks'[b] = blocks[b]
    BY <2>1, <2>2 DEF Cut
  <2>7. blocks' \in [DOMAIN blocks' -> Block]
    <3>1. /\ blocks[h].length - n - HEADER \in Nat
          /\ h \in Nat /\ n \in Nat /\ r \in Nat
      BY <2>1, <2>4, Constants
    <3>2. \A b \in DOMAIN blocks : blocks[b] \in Block
      BY DEF HeapInv, BlocksInRow
    <3>3. blocks'[r] \in Block
      BY <2>2, <3>1 DEF Block, Cut
    <3>4. blocks'[h] \in Block
      BY <2>1, <2>2, <2>4, <3>1 DEF Block, Cut
    <3> HIDE DEF r, h, n
    <3> QED
      BY <2>2, <2>6, <3>2, <3>3, <3>4 DEF Cut
  <2>8. /\ End(blocks', r) = heap_end /\ End(blocks', h) = r /\ h < r /\ r < heap_end
        /\ \A b \in DOMAIN blocks : b # h => End(blocks', b) = End(blocks, b)
    BY <2>1, <2>4, <2>6, Constants DEF End
  <2>9. Handed' = Handed \cup {h} /\ h \notin Handed
    BY <2>1, <2>5, <2>6 DEF Handed
  <2> HIDE DEF r, h, n
  <2>10. BlocksInRow'
    <3>1. DOMAIN blocks' \in SUBSET Nat
      BY <2>1, <2>6 DEF HeapInv, BlocksInRow
    <3>2. 0 \in DOMAIN blocks' /\ blocks'[0].last = Null
      BY <2>1, <2>6 DEF HeapInv, BlocksInRow
    <3>3. ASSUME NEW b \in DOMAIN blocks'
          PROVE  /\ End(blocks', b) <= heap_end
                 /\ \A k \in DOMAIN blocks' : b < k => End(blocks', b) <= k
                 /\ b # 0 => blocks'[b].last \in Handed' /\ End(blocks', blocks'[b].last) = b
      <4>1. CASE b = r
        BY <2>1, <2>4, <2>5, <2>6, <2>8, <2>9, <4>1, Constants DEF HeapInv, BlocksInRow
      <4>2. CASE b = h
        <5>1. /\ End(blocks', b) <= heap_end
              /\ \A k \in DOMAIN blocks' : b < k => End(blocks', b) <= k
          BY <2>1, <2>4, <2>5, <2>6, <2>8, <4>2, Constants DEF HeapInv, BlocksInRow
        <5>2. b # 0 => blocks[b].last \in Handed /\ End(blocks, blocks[b].last) = b
          BY <2>1, <4>2 DEF HeapInv, BlocksInRow
        <5>3. b # 0 => /\ blocks'[b].last = blocks[b].last
                       /\ blocks[b].last \in DOMAIN blocks /\ blocks[b].last # h
          BY <2>6, <2>9, <4>2, <5>2 DEF Handed
        <5>4. b # 0 => End(blocks', blocks'[b].last) = b
          BY <2>8, <5>2, <5>3
        <5> QED
          BY <2>9, <5>1, <5>2, <5>3, <5>4
      <4>3. CASE b # r /\ b # h
        <5>1. b \in DOMAIN blocks /\ b < h /\ blocks'[b] = blocks[b] /\ End(blocks', b) = End(blocks, b)
          BY <2>5, <2>6, <2>8, <4>3
        <5>2. End(blocks, b) <= heap_end /\ End(blocks, b) <= h
          BY <2>1, <5>1 DEF HeapInv, BlocksInRow
        <5>3. End(blocks, b) \in Int /\ h \in Int /\ r \in Int /\ h < r
          BY <2>1, <2>4, <2>8, <5>1, Constants DEF HeapInv, BlocksInRow, Block, End
        <5>4. \A k \in DOMAIN blocks' : b < k => End(blocks', b) <= k
          <6>1. \A k \in DOMAIN blocks : b < k => End(blocks, b) <= k
            BY <5>1 DEF HeapInv, BlocksInRow
          <6> QED
            BY <2>6, <5>1, <5>2, <5>3, <6>1
        <5>5. b # 0 => blocks[b].last \in Handed /\ End(blocks, blocks[b].last) = b
          BY <5>1 DEF HeapInv, BlocksInRow
        <5>6. b # 0 => blocks[b].last \in DOMAIN blocks /\ blocks[b].last # h
          BY <2>9, <5>5 DEF Handed
        <5>7. b # 0 => End(blocks', blocks'[b].last) = b
          BY <2>8, <5>1, <5>5, <5>6
        <5> QED
          BY <2>9, <5>1, <5>2, <5>4, <5>5, <5>7
      <4> QED
        BY <2>6, <4>1, <4>2, <4>3
    <3>4. ASSUME NEW b \in DOMAIN blocks'
          PROVE  IF blocks'[b].is_free
                 THEN blocks'[b].next = Null /\ End(blocks', b) = heap_end
                 ELSE /\ blocks'[b].next = End(blocks', b) /\ End(blocks', b) \in DOMAIN blocks'
                      /\ blocks'[End(blocks', b)].last = b
      <4>1. CASE b = r
        BY <2>6, <2>8, <4>1
      <4>2. CASE b = h
        BY <2>6, <2>8, <4>2
      <4>3. CASE b # r /\ b # h
        <5>1. b \in DOMAIN blocks /\ ~blocks[b].is_free /\ blocks'[b] = blocks[b] /\ End(blocks', b) = End(blocks, b)
          BY <2>5, <2>6, <2>8, <4>3
        <5>2. /\ blocks[b].next = End(blocks, b) /\ End(blocks, b) \in DOMAIN blocks
              /\ blocks[End(blocks, b)].last = b
          BY <5>1 DEF HeapInv, BlocksInRow
        <5>3. blocks'[End(blocks, b)].last = b
          BY <2>6, <5>2
        <5> QED
          BY <2>6, <5>1, <5>2, <5>3
      <4> QED
        BY <2>6, <4>1, <4>2, <4>3
    <3>5. \E b \in DOMAIN blocks' : blocks'[b].is_free
      BY <2>6
    <3> QED
      BY <2>7, <3>1, <3>2, <3>3, <3>4, <3>5 DEF BlocksInRow
  <2>11. LiveInBlocks'
    <3>1. \A o \in live : /\ o.hdr \in Handed /\ o.size \in Nat /\ o.hdr # h
                           /\ o.size <= blocks[o.hdr].length /\ o.hdr \in DOMAIN blocks
      BY <2>9 DEF HeapInv, LiveInBlocks, Handed
    <3>2. \A o \in live' : o \in live \/ (o.hdr = h /\ o.size = n)
      BY <2>3
    <3>3. \A o \in live' : /\ o.hdr \in Handed' /\ o.size \in Nat
                            /\ o.size <= blocks'[o.hdr].length
      BY <2>1, <2>6, <2>9, <3>1, <3>2
    <3>4. \A o, q \in live' : o.hdr = q.hdr => o = q
      BY <2>3, <3>1 DEF HeapInv, LiveInBlocks
    <3> QED
      BY <3>3, <3>4 DEF LiveInBlocks
  <2>12. SearchInv'
    <3>1. \A q \in Callers : pc'[q] = "idle"
      BY <1>1, <2>3, Alone DEF HeapInv, SearchInv
    <3>2. ASSUME NEW b \in Handed' PROVE End(blocks', b) <= Budget
      <4>1. CASE b = h
        <5>1. hdr[p] + HEADER + size[p] <= Budget
          BY <1>1, <2>1, RoomIsInBudget DEF HeapInv, h
        <5>2. hdr[p] \in Nat /\ size[p] \in Nat
          BY <2>1, <2>4 DEF h, n
        <5> QED
          BY <2>8, <4>1, <5>1, <5>2, Constants DEF h, n, r
      <4>2. CASE b # h
        BY <2>8, <2>9, <4>2 DEF HeapInv, SearchInv, Handed
      <4> QED
        BY <4>1, <4>2
    <3> QED
      BY <1>1, <2>3, <3>1, <3>2 DEF HeapInv, SearchInv
  <2> QED
    BY <2>10, <2>11, <2>12 DEF HeapInv
<1> QED
  BY <1>2, <1>3

LEMMA HeapCorrect ==
  ASSUME NotUsedUp
  PROVE  Spec /\ []MutualExclusion => []HeapInv
<1>1. Init => HeapInv
  BY HeapInvInit
<1>2. HeapInv /\ MutualExclusion /\ [Next]_vars => HeapInv'
  <2> SUFFICES ASSUME HeapInv, MutualExclusion, [Next]_vars PROVE HeapInv'
    OBVIOUS
  <2>1. ASSUME NEW p \in Callers, NEW n \in Sizes, kmalloc(p, n) PROVE HeapInv'
    BY <2>1, KmallocKeeps
  <2>2. ASSUME NEW p \in Callers, found(p) PROVE HeapInv'
    BY <2>2, FoundKeeps
  <2>3. ASSUME NEW p \in Callers, search(p) PROVE HeapInv'
    BY <2>3, SearchKeeps
  <2>4. ASSUME NEW p \in Callers, take(p) PROVE HeapInv'
    BY <2>4, TakeKeeps
  <2>5. ASSUME NEW p \in Callers, NEW o \in live, kfree(p, o) PROVE HeapInv'
    BY <2>5, KfreeKeeps
  <2>6. CASE UNCHANGED vars
    BY <2>6 DEF vars, HeapInv, BlocksInRow, LiveInBlocks, SearchInv, End, Handed
  <2> QED
    BY <2>1, <2>2, <2>3, <2>4, <2>5, <2>6 DEF Next
<1> QED
  BY <1>1, <1>2, PTL DEF Spec

-----------------------------------------------------------------------------
LEMMA TilingInv == HeapInv => Tiling
<1> SUFFICES ASSUME HeapInv PROVE Tiling
  OBVIOUS
<1>1. ASSUME NEW h \in DOMAIN blocks
      PROVE  IF blocks[h].next = Null THEN End(blocks, h) = heap_end
             ELSE /\ blocks[h].next = End(blocks, h)
                  /\ blocks[End(blocks, h)].last = h
  <2>1. Null \notin DOMAIN blocks
    BY DEF HeapInv, BlocksInRow, Null
  <2> QED
    BY <2>1 DEF HeapInv, BlocksInRow
<1> QED
  BY <1>1 DEF Tiling, HeapInv, BlocksInRow, End

(* What kmalloc returns lies as far behind each block as behind any other,  *)
(* so that objects keep apart as their blocks do.                           *)
LEMMA DisjointInv == HeapInv => ObjectsDisjoint
<1> SUFFICES ASSUME HeapInv PROVE ObjectsDisjoint
  OBVIOUS
<1>1. ASSUME NEW o \in live, NEW q \in live, o.hdr < q.hdr
      PROVE  Footprint(o) \cap Footprint(q) = {}
  <2>1. /\ o.hdr \in DOMAIN blocks /\ q.hdr \in DOMAIN blocks
        /\ o.size \in Nat /\ o.size <= blocks[o.hdr].length
    BY DEF HeapInv, LiveInBlocks, Handed
  <2>2. /\ o.hdr \in Nat /\ q.hdr \in Nat /\ blocks[o.hdr].length \in Nat
        /\ o.hdr + HEADER + blocks[o.hdr].length <= q.hdr
    BY <1>1, <2>1 DEF HeapInv, BlocksInRow, Block, End
  <2>3. PICK square \in Int : square = HEADER * HEADER
    BY Constants
  <2>4. Ptr(o.hdr) = o.hdr + square /\ Ptr(q.hdr) = q.hdr + square /\ HEADER \in Nat
    BY <2>2, <2>3, Constants DEF Ptr
  <2> QED
    BY <2>1, <2>2, <2>4 DEF Footprint
<1>2. \A o, q \in live : o # q => o.hdr < q.hdr \/ q.hdr < o.hdr
  <2>1. \A o \in live : o.hdr \in Nat
    BY DEF HeapInv, BlocksInRow, LiveInBlocks, Handed
  <2>2. \A o, q \in live : o # q => o.hdr # q.hdr
    BY DEF HeapInv, LiveInBlocks
  <2> QED
    BY <2>1, <2>2
<1> QED
  BY <1>1, <1>2 DEF ObjectsDisjoint

LEMMA OneCallerIsAlone ==
  ASSUME Cardinality(Callers) <= 1
  PROVE  MutualExclusion
<1>1. {p \in Callers : pc[p] # "idle"} \in SUBSET Callers /\ IsFiniteSet(Callers)
  BY HeapAssumption
<1>2. Cardinality({p \in Callers : pc[p] # "idle"}) <= Cardinality(Callers)
  BY <1>1, FS_Subset
<1>3. /\ Cardinality(Callers) \in Nat
      /\ Cardinality({p \in Callers : pc[p] # "idle"}) \in Nat
  BY <1>1, FS_Subset, FS_CardinalityType
<1> QED
  BY <1>2, <1>3 DEF MutualExclusion

(* Until the heap is used up its list has every block in it, each ending    *)
(* where the next header begins and linked both ways (heap.cc, split and    *)
(* kmalloc), provided that no two callers are in kmalloc at once.           *)
THEOREM ListCoversHeap ==
  ASSUME NotUsedUp
  PROVE  Spec /\ []MutualExclusion => []Tiling
BY HeapCorrect, TilingInv, PTL

(* Under the same conditions no byte is handed out twice, the places where  *)
(* kfree looks for a header included, although kmalloc's pointers lie       *)
(* HEADER headers, not bytes, behind the header (heap.cc, kmalloc, kfree).  *)
THEOREM ObjectsKeepApart ==
  ASSUME NotUsedUp
  PROVE  Spec /\ []MutualExclusion => []ObjectsDisjoint
BY HeapCorrect, DisjointInv, PTL

(* Under the same conditions kmalloc's search ends at a block that is long  *)
(* enough, never behind the last one (heap.cc, kmalloc).                    *)
THEOREM SearchEnds ==
  ASSUME NotUsedUp
  PROVE  Spec /\ []MutualExclusion => []NoWildSearch
<1>1. HeapInv => NoWildSearch
  BY DEF HeapInv, SearchInv, NoWildSearch
<1> QED
  BY <1>1, HeapCorrect, PTL

(* As long as the blocks end before the place where the first object would  *)
(* begin, no header is written into an object, and none of the headers the  *)
(* other theorems rely on can be overwritten through one (heap.cc, split,   *)
(* and kmalloc's `hdr + sizeof(heap_header_t)`).                            *)
THEOREM HeadersKeepApart ==
  ASSUME NotUsedUp, Budget + HEADER <= HEADER * HEADER - HEADER
  PROVE  Spec /\ []MutualExclusion => []HeadersApart
<1>1. HeapInv => HeadersApart
  <2> SUFFICES ASSUME HeapInv, NEW h \in DOMAIN blocks, NEW o \in live
               PROVE  Header(h) \cap Footprint(o) = {}
    BY DEF HeadersApart
  <2>1. h \in Nat /\ h <= Budget
    <3>1. CASE h = 0
      BY <3>1, Constants
    <3>2. CASE h # 0
      BY <3>2 DEF HeapInv, BlocksInRow, SearchInv
    <3> QED
      BY <3>1, <3>2
  <2>2. o.hdr \in Nat /\ o.size \in Nat
    BY DEF HeapInv, LiveInBlocks, BlocksInRow, Handed
  <2>3. PICK square \in Int : square = HEADER * HEADER
    BY Constants
  <2> QED
    BY <2>1, <2>2, <2>3, Constants DEF Header, Footprint, Ptr
<1> QED
  BY <1>1, HeapCorrect, PTL

(* A kernel with one task that uses the heap has all of that without the    *)
(* lock doing anything for it (spinlock.cc, lock).                          *)
THEOREM OneCallerSafe ==
  ASSUME NotUsedUp, Cardinality(Callers) <= 1
  PROVE  Spec => [](Tiling /\ ObjectsDisjoint /\ NoWildSearch)
<1>1. MutualExclusion
  BY OneCallerIsAlone
<1> QED
  BY <1>1, ListCoversHeap, ObjectsKeepApart, SearchEnds, PTL
==============================================================================

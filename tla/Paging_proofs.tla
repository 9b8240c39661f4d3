---------------------------- MODULE Paging_proofs ----------------------------
(***************************************************************************)
(* Theorems about the page tables, for any number of entries, any memory   *)
(* and any loader's tables, with callers that stay away from huge pages.   *)
(***************************************************************************)
EXTENDS Paging, FiniteSetsExt, FiniteSetTheorems, WellFoundedInduction, TLAPS

-----------------------------------------------------------------------------
(* Sets of natural numbers.                                                *)
(* A set of natural numbers that has an element has a least one.           *)
LEMMA LeastNat ==
  ASSUME NEW T \in SUBSET Nat, T # {}
  PROVE  \E n \in T : \A m \in T : n <= m
<1> DEFINE R == OpToRel(<, Nat)
<1>1. \A x, y \in Nat : x < y => <<x, y>> \in R
  BY DEF OpToRel
<1>2. IsWellFoundedOn(R, Nat)
  BY NatLessThanWellFounded
<1> HIDE DEF R
<1>3. PICK x \in T : \A y \in T : <<y, x>> \notin R
  BY <1>2, WFMin
<1>4. \A y \in T : ~(y < x)
  BY <1>1, <1>3
<1> QED
  BY <1>4

(* What Min of such a set is.                                              *)
LEMMA MinOfNats ==
  ASSUME NEW T \in SUBSET Nat, T # {}
  PROVE  Min(T) \in T /\ \A m \in T : Min(T) <= m
<1>1. PICK n \in T : \A m \in T : n <= m
  BY LeastNat
<1> QED
  BY <1>1 DEF Min

-----------------------------------------------------------------------------

-----------------------------------------------------------------------------
(* Page numbers and their digits.                                          *)
LEMMA Monotone ==
  ASSUME NEW a \in Nat, NEW b \in Nat, NEW m \in Nat, a < b
  PROVE  a * m + m <= b * m
<1>1. PICK d \in Nat : b = a + 1 + d
  <2>1. b - a - 1 \in Nat /\ b = a + 1 + (b - a - 1)
    OBVIOUS
  <2> QED
    BY <2>1
<1>2. (a + 1 + d) * m = a * m + m + d * m /\ d * m \in Nat
  OBVIOUS
<1> QED
  BY <1>1, <1>2

LEMMA Division ==
  ASSUME NEW a \in Nat, NEW m \in Nat \ {0}
  PROVE  /\ a \div m \in Nat /\ a % m \in Nat /\ a % m < m
         /\ a = (a \div m) * m + (a % m)
<1>1. a \div m \in Int /\ a \div m >= 0
  OBVIOUS
<1>2. a % m \in Int /\ a % m >= 0 /\ a % m < m
  OBVIOUS
<1>3. a = m * (a \div m) + (a % m)
  OBVIOUS
<1>4. m * (a \div m) = (a \div m) * m
  BY <1>1
<1> QED
  BY <1>1, <1>2, <1>3, <1>4

LEMMA DivisionUnique ==
  ASSUME NEW m \in Nat \ {0}, NEW q \in Nat, NEW r \in Nat, r < m,
         NEW s \in Nat, NEW t \in Nat, t < m, q * m + r = s * m + t
  PROVE  q = s /\ r = t
<1>1. q * m \in Nat /\ s * m \in Nat
  OBVIOUS
<1>2. ~(q < s)
  <2> SUFFICES ASSUME q < s PROVE FALSE
    OBVIOUS
  <2>1. q * m + m <= s * m
    BY Monotone
  <2> QED
    BY <1>1, <2>1
<1>3. ~(s < q)
  <2> SUFFICES ASSUME s < q PROVE FALSE
    OBVIOUS
  <2>1. s * m + m <= q * m
    BY Monotone
  <2> QED
    BY <1>1, <2>1
<1>4. q = s
  BY <1>2, <1>3
<1> QED
  BY <1>1, <1>4

LEMMA DivDiv ==
  ASSUME NEW a \in Nat, NEW e \in Nat \ {0}, NEW f \in Nat \ {0}
  PROVE  a \div (e * f) = (a \div e) \div f
<1> DEFINE q == a \div e
           r == a % e
           s == q \div f
           t == q % f
<1>1. q \in Nat /\ r \in Nat /\ r < e /\ a = q * e + r
  BY Division
<1>2. s \in Nat /\ t \in Nat /\ t < f /\ q = s * f + t
  BY <1>1, Division
<1> HIDE DEF q, r, s, t
<1>3. e * f \in Nat \ {0}
  OBVIOUS
<1>4. t * e + r \in Nat /\ t * e + r < e * f
  <2>1. t * e + e <= f * e
    BY <1>2, Monotone
  <2>2. t * e \in Nat /\ f * e = e * f
    BY <1>2
  <2> QED
    BY <1>1, <1>3, <2>1, <2>2
<1>5. a = s * (e * f) + (t * e + r)
  <2>1. (s * f + t) * e = s * (e * f) + t * e
    BY <1>2
  <2>2. s * (e * f) \in Nat /\ t * e \in Nat
    BY <1>2, <1>3
  <2> QED
    BY <1>1, <1>2, <2>1, <2>2
<1>6. PICK m \in Nat \ {0} : m = e * f
  BY <1>3
<1>7. PICK w \in Nat : w = t * e + r
  BY <1>4
<1>8. /\ a \div m \in Nat /\ a % m \in Nat /\ a % m < m
      /\ a = (a \div m) * m + (a % m)
  BY Division
<1>9. w < m /\ a = s * m + w
  BY <1>4, <1>5, <1>6, <1>7
<1>10. a \div m = s
  BY <1>2, <1>8, <1>9, DivisionUnique
<1> QED
  BY <1>6, <1>10 DEF s, q

LEMMA Constants ==
  /\ ENTRIES \in Nat \ {0}
  /\ ENTRIES * ENTRIES \in Nat \ {0}
  /\ ENTRIES * ENTRIES * ENTRIES \in Nat \ {0}
  /\ Frames \in SUBSET Nat /\ 0 \in Frames /\ cr3 \in Frames
  /\ NotMapped \notin Frames
  /\ HEAP_BASE \in Pages /\ MapPages \in SUBSET Pages /\ UnmapPages \in SUBSET Pages
<1>1. ENTRIES \in Nat \ {0}
  BY PagingAssumption
<1>2. \A a, b \in Nat \ {0} : a * b \in Nat \ {0}
  OBVIOUS
<1>3. ENTRIES * ENTRIES \in Nat \ {0}
  BY <1>1, <1>2
<1>4. ENTRIES * ENTRIES * ENTRIES \in Nat \ {0}
  BY <1>1, <1>2, <1>3
<1> QED
  BY <1>1, <1>3, <1>4, PagingAssumption DEF NotMapped

(* A page number is made of four digits.                                    *)
LEMMA Digits ==
  ASSUME NEW v \in Pages
  PROVE  /\ p4_idx(v) \in Index /\ p3_idx(v) \in Index
         /\ p2_idx(v) \in Index /\ p1_idx(v) \in Index
         /\ v \in Nat /\ v \div ENTRIES \in Nat
         /\ v = (v \div ENTRIES) * ENTRIES + p1_idx(v)
         /\ v \div ENTRIES =
              (p4_idx(v) * ENTRIES + p3_idx(v)) * ENTRIES + p2_idx(v)
<1> DEFINE e == ENTRIES
           b == v \div e
           c == b \div e
<1>1. v \in Nat /\ v < e * e * e * e
  BY Constants DEF Pages
<1>2. b \in Nat /\ v % e \in Nat /\ v % e < e /\ v = b * e + (v % e)
  BY <1>1, Constants, Division
<1>3. c \in Nat /\ b % e \in Nat /\ b % e < e /\ b = c * e + (b % e)
  BY <1>2, Constants, Division
<1>4. c \div e \in Nat /\ c % e \in Nat /\ c % e < e /\ c = (c \div e) * e + (c % e)
  BY <1>3, Constants, Division
<1>5. v \div (e * e) = c
  BY <1>1, Constants, DivDiv
<1>6. v \div (e * e * e) = c \div e
  <2>1. v \div ((e * e) * e) = (v \div (e * e)) \div e
    BY <1>1, Constants, DivDiv
  <2> QED
    BY <2>1, <1>5
<1>7. p4_idx(v) = c \div e /\ p3_idx(v) = c % e /\ p2_idx(v) = b % e /\ p1_idx(v) = v % e
  BY <1>5, <1>6 DEF p4_idx, p3_idx, p2_idx, p1_idx
<1>8. p4_idx(v) < e
  <2> SUFFICES ASSUME e <= p4_idx(v) PROVE FALSE
    BY <1>4, <1>7, Constants
  <2> DEFINE m == e * e * e
  <2>1. m \in Nat \ {0} /\ v < m * e
    BY <1>1, Constants
  <2>2. p4_idx(v) \in Nat /\ p4_idx(v) * m <= v
    <3>1. /\ v \div m \in Nat /\ v % m \in Nat
          /\ v = (v \div m) * m + (v % m)
      BY <1>1, <2>1, Division
    <3>2. p4_idx(v) = v \div m
      BY <1>6, <1>7
    <3> HIDE DEF m
    <3>3. (v \div m) * m \in Nat
      BY <2>1, <3>1
    <3> QED
      BY <3>1, <3>2, <3>3
  <2> HIDE DEF m
  <2>3. e * m <= p4_idx(v) * m
    <3>1. CASE e = p4_idx(v)
      BY <3>1, <2>1, <2>2
    <3>2. CASE e < p4_idx(v)
      <4>1. e * m + m <= p4_idx(v) * m
        BY <2>1, <2>2, <3>2, Constants, Monotone
      <4>2. e * m \in Nat /\ p4_idx(v) * m \in Nat
        BY <2>1, <2>2, Constants
      <4> QED
        BY <2>1, <4>1, <4>2
    <3> QED
      BY <1>1, <2>2, <3>1, <3>2, Constants
  <2>4. e * m = m * e /\ e * m \in Nat /\ p4_idx(v) * m \in Nat
    BY <2>1, <2>2, Constants
  <2> QED
    BY <1>1, <2>1, <2>2, <2>3, <2>4
<1> HIDE DEF b, c
<1>9. /\ p4_idx(v) \in Index /\ p3_idx(v) \in Index
      /\ p2_idx(v) \in Index /\ p1_idx(v) \in Index
  BY <1>2, <1>3, <1>4, <1>7, <1>8, Constants DEF Index
<1>10. c = p4_idx(v) * e + p3_idx(v) /\ b = c * e + p2_idx(v) /\ v = b * e + p1_idx(v)
  BY <1>2, <1>3, <1>4, <1>7
<1> QED
  BY <1>1, <1>2, <1>9, <1>10 DEF b

(* Two pages that differ differ in a digit.                                 *)
LEMMA SamePage ==
  ASSUME NEW u \in Pages, NEW v \in Pages,
         p4_idx(u) = p4_idx(v), p3_idx(u) = p3_idx(v), p2_idx(u) = p2_idx(v),
         p1_idx(u) = p1_idx(v)
  PROVE  u = v
<1>1. u \div ENTRIES = v \div ENTRIES
  BY Digits
<1> QED
  BY <1>1, Digits

(* Pages that agree in all but the last digit agree in each of the others.  *)
LEMMA SameDigits ==
  ASSUME NEW u \in Pages, NEW v \in Pages, u \div ENTRIES = v \div ENTRIES
  PROVE  p4_idx(u) = p4_idx(v) /\ p3_idx(u) = p3_idx(v) /\ p2_idx(u) = p2_idx(v)
<1>1. \A w \in {u, v} : /\ p4_idx(w) \in Nat /\ p3_idx(w) \in Nat /\ p2_idx(w) \in Nat
                        /\ p3_idx(w) < ENTRIES /\ p2_idx(w) < ENTRIES
                        /\ w \div ENTRIES =
                             (p4_idx(w) * ENTRIES + p3_idx(w)) * ENTRIES + p2_idx(w)
  BY Digits, Constants DEF Index
<1>2. PICK a \in Nat : a = p4_idx(u) * ENTRIES + p3_idx(u)
  BY <1>1, Constants
<1>3. PICK b \in Nat : b = p4_idx(v) * ENTRIES + p3_idx(v)
  BY <1>1, Constants
<1>4. a * ENTRIES + p2_idx(u) = b * ENTRIES + p2_idx(v)
  BY <1>1, <1>2, <1>3
<1>5. a = b /\ p2_idx(u) = p2_idx(v)
  BY <1>1, <1>4, Constants, DivisionUnique
<1>6. p4_idx(u) * ENTRIES + p3_idx(u) = p4_idx(v) * ENTRIES + p3_idx(v)
  BY <1>2, <1>3, <1>5
<1>7. /\ p4_idx(u) \in Nat /\ p3_idx(u) \in Nat /\ p3_idx(u) < ENTRIES
      /\ p4_idx(v) \in Nat /\ p3_idx(v) \in Nat /\ p3_idx(v) < ENTRIES
  BY <1>1
<1>8. p4_idx(u) = p4_idx(v) /\ p3_idx(u) = p3_idx(v)
  BY <1>6, <1>7, Constants, DivisionUnique
<1> QED
  BY <1>5, <1>8

(* The pages of one huge page are those that agree in all but the last      *)
(* digit.                                                                   *)
LEMMA SameBlock ==
  ASSUME NEW u \in Pages, NEW b \in Nat
  PROVE  u \in HugeBlock(b) <=> u \div ENTRIES = b
<1>1. /\ u \in Nat /\ u \div ENTRIES \in Nat /\ p1_idx(u) \in Nat /\ p1_idx(u) < ENTRIES
      /\ u = (u \div ENTRIES) * ENTRIES + p1_idx(u)
  BY Digits, Constants DEF Index
<1>2. b * ENTRIES \in Nat
  BY Constants
<1>3. ASSUME u \in HugeBlock(b) PROVE u \div ENTRIES = b
  <2>1. PICK w \in Nat : w < ENTRIES /\ u = b * ENTRIES + w
    <3>1. u - b * ENTRIES \in Nat /\ u - b * ENTRIES < ENTRIES
      BY <1>1, <1>2, <1>3, Constants DEF HugeBlock
    <3> QED
      BY <1>1, <1>2, <3>1
  <2> QED
    BY <1>1, <2>1, Constants, DivisionUnique
<1>4. ASSUME u \div ENTRIES = b PROVE u \in HugeBlock(b)
  BY <1>1, <1>2, <1>4, Constants DEF HugeBlock
<1> QED
  BY <1>3, <1>4

-----------------------------------------------------------------------------
(* The tree of tables.  Link: an entry that leads to a table.               *)
Link(e) == e.present /\ ~e.huge_page

Memories == {m \in [Frames -> [Index -> Entry]] :
               \A f \in Frames : \A i, j \in Index :
                 m[f][i].huge_page => m[f][i].frame + j \in Frames}

(* L[k] is the set of the tables of level k in memory m, 4 being the top:   *)
(* links go one level down, each table but cr3 hangs from a single link,    *)
(* and the upper two levels have no huge pages.                             *)
Levelled(m, L) ==
  /\ m \in Memories
  /\ L \in [1..4 -> SUBSET Frames]
  /\ L[4] = {cr3}
  /\ \A k \in 2..4 : \A t \in L[k], i \in Index :
       Link(m[t][i]) => m[t][i].frame \in L[k - 1]
  /\ \A k \in 1..3 : \A t \in L[k] :
       \E u \in L[k + 1], i \in Index : Link(m[u][i]) /\ m[u][i].frame = t
  /\ \A k, l \in 1..4 : \A t \in Frames : t \in L[k] /\ t \in L[l] => k = l
  /\ \A k \in 2..4 : \A t, u \in L[k] : \A i, j \in Index :
       Link(m[t][i]) /\ Link(m[u][j]) /\ m[t][i].frame = m[u][j].frame
         => t = u /\ i = j
  /\ \A k \in 3..4 : \A t \in L[k], i \in Index :
       m[t][i].present => ~m[t][i].huge_page

(* No table is among the frames of x.                                       *)
Apart(L, x) == \A k \in 1..4 : L[k] \cap x = {}

(* Table t of level k is the one in which page v is looked up, at digit     *)
(* Digit(v, k).                                                             *)
Digit(v, k) ==
  IF k = 4 THEN p4_idx(v) ELSE IF k = 3 THEN p3_idx(v)
  ELSE IF k = 2 THEN p2_idx(v) ELSE p1_idx(v)

OnWay(m, v, k, t) ==
  \/ k = 4 /\ t = cr3
  \/ k = 3 /\ E4(m, v).present /\ t = E4(m, v).frame
  \/ k = 2 /\ E4(m, v).present /\ E3(m, v).present /\ t = E3(m, v).frame
  \/ k = 1 /\ HasE2(m, v) /\ ~InHuge(m, v) /\ t = E2(m, v).frame

LEMMA EntryFacts ==
  ASSUME NEW m \in Memories, NEW t \in Frames, NEW i \in Index
  PROVE  /\ m[t][i] \in Entry /\ m[t][i].frame \in Frames
         /\ m[t][i].present \in BOOLEAN /\ m[t][i].huge_page \in BOOLEAN
<1>1. m[t][i] \in Entry
  BY DEF Memories
<1> QED
  BY <1>1 DEF Entry

(* The way to a page leads through the levels.                              *)
LEMMA WayIsLevelled ==
  ASSUME NEW m, NEW L, Levelled(m, L), NEW v \in Pages,
         NEW k \in 1..4, NEW t, OnWay(m, v, k, t)
  PROVE  t \in L[k] /\ t \in Frames
<1>1. /\ p4_idx(v) \in Index /\ p3_idx(v) \in Index /\ p2_idx(v) \in Index
  BY Digits
<1>2. cr3 \in L[4] /\ m \in Memories /\ \A j \in 1..4 : L[j] \in SUBSET Frames
  BY DEF Levelled
<1>3. E4(m, v).present => Link(E4(m, v)) /\ E4(m, v).frame \in L[3]
  <2>1. m[cr3][p4_idx(v)].present => ~m[cr3][p4_idx(v)].huge_page
    BY <1>1, <1>2 DEF Levelled
  <2>2. Link(m[cr3][p4_idx(v)]) => m[cr3][p4_idx(v)].frame \in L[4 - 1]
    BY <1>1, <1>2 DEF Levelled
  <2> QED
    BY <2>1, <2>2 DEF E4, Link
<1>4. E4(m, v).present /\ E3(m, v).present => E3(m, v).frame \in L[2]
  <2> SUFFICES ASSUME E4(m, v).present, E3(m, v).present PROVE E3(m, v).frame \in L[2]
    OBVIOUS
  <2> DEFINE u == E4(m, v).frame
  <2>1. u \in L[3]
    BY <1>3
  <2> HIDE DEF u
  <2>2. m[u][p3_idx(v)].present => ~m[u][p3_idx(v)].huge_page
    BY <1>1, <2>1 DEF Levelled
  <2>3. Link(m[u][p3_idx(v)]) => m[u][p3_idx(v)].frame \in L[3 - 1]
    BY <1>1, <2>1 DEF Levelled
  <2> QED
    BY <2>2, <2>3 DEF E3, Link, u
<1>5. HasE2(m, v) /\ ~InHuge(m, v) => E2(m, v).frame \in L[1]
  <2> SUFFICES ASSUME HasE2(m, v), ~InHuge(m, v) PROVE E2(m, v).frame \in L[1]
    OBVIOUS
  <2> DEFINE u == E3(m, v).frame
  <2>1. u \in L[2]
    BY <1>4 DEF HasE2
  <2> HIDE DEF u
  <2>2. Link(m[u][p2_idx(v)]) => m[u][p2_idx(v)].frame \in L[2 - 1]
    BY <1>1, <2>1 DEF Levelled
  <2> QED
    BY <2>2 DEF E2, Link, HasE2, InHuge, u
<1> QED
  BY <1>2, <1>3, <1>4, <1>5 DEF OnWay

(* What is the same on the way to a page is the same for the page.          *)
AgreeOnWay(m, n, v) ==
  \A k \in 1..4 : \A t : OnWay(m, v, k, t) => n[t][Digit(v, k)] = m[t][Digit(v, k)]

LEMMA SameWay ==
  ASSUME NEW m, NEW n, NEW v \in Pages, AgreeOnWay(m, n, v)
  PROVE  /\ Walk(n, v) = Walk(m, v) /\ InHuge(n, v) = InHuge(m, v)
         /\ \A k, t : OnWay(n, v, k, t) = OnWay(m, v, k, t)
<1>1. E4(n, v) = E4(m, v)
  BY DEF OnWay, E4, Digit, AgreeOnWay
<1>2. E4(m, v).present => E3(n, v) = E3(m, v)
  <2> SUFFICES ASSUME E4(m, v).present PROVE E3(n, v) = E3(m, v)
    OBVIOUS
  <2>1. OnWay(m, v, 3, E4(m, v).frame)
    BY DEF OnWay
  <2> QED
    BY <1>1, <2>1 DEF E3, Digit, AgreeOnWay
<1>3. E4(m, v).present /\ E3(m, v).present => E2(n, v) = E2(m, v)
  <2> SUFFICES ASSUME E4(m, v).present, E3(m, v).present PROVE E2(n, v) = E2(m, v)
    OBVIOUS
  <2>1. OnWay(m, v, 2, E3(m, v).frame)
    BY DEF OnWay
  <2> QED
    BY <1>2, <2>1 DEF E2, Digit, AgreeOnWay
<1>4. HasE2(m, v) /\ ~InHuge(m, v) => E1(n, v) = E1(m, v)
  <2> SUFFICES ASSUME HasE2(m, v), ~InHuge(m, v) PROVE E1(n, v) = E1(m, v)
    OBVIOUS
  <2>1. OnWay(m, v, 1, E2(m, v).frame)
    BY DEF OnWay
  <2> QED
    BY <1>3, <2>1 DEF E1, Digit, HasE2, AgreeOnWay
<1>5. HasE2(n, v) = HasE2(m, v) /\ InHuge(n, v) = InHuge(m, v) /\ HasE1(n, v) = HasE1(m, v)
  BY <1>1, <1>2, <1>3, <1>4 DEF HasE2, InHuge, HasE1
<1>6. Walk(n, v) = Walk(m, v)
  BY <1>3, <1>4, <1>5 DEF Walk, HasE2, InHuge, HasE1
<1>7. \A k, t : OnWay(n, v, k, t) = OnWay(m, v, k, t)
  BY <1>1, <1>2, <1>3, <1>5 DEF OnWay, HasE2
<1> QED
  BY <1>5, <1>6, <1>7

-----------------------------------------------------------------------------
(* A write that makes and breaks no link leaves the tree as it is.          *)
AgreeOnLinks(m, n, L) ==
  /\ \A k \in 2..4 : \A t \in L[k], i \in Index :
       /\ Link(n[t][i]) <=> Link(m[t][i])
       /\ Link(n[t][i]) => n[t][i].frame = m[t][i].frame
  /\ \A k \in 3..4 : \A t \in L[k], i \in Index :
       n[t][i].present => ~n[t][i].huge_page

LEMMA SameLinks ==
  ASSUME NEW m, NEW L, Levelled(m, L), NEW n \in Memories, AgreeOnLinks(m, n, L)
  PROVE  Levelled(n, L)
<1>1. /\ L \in [1..4 -> SUBSET Frames] /\ L[4] = {cr3}
      /\ \A k, l \in 1..4 : \A t \in Frames : t \in L[k] /\ t \in L[l] => k = l
  BY DEF Levelled
<1>2. \A k \in 2..4 : \A t \in L[k], i \in Index :
        Link(n[t][i]) => n[t][i].frame \in L[k - 1]
  BY DEF Levelled, AgreeOnLinks
<1>3. ASSUME NEW k \in 1..3, NEW t \in L[k]
      PROVE  \E u \in L[k + 1], i \in Index : Link(n[u][i]) /\ n[u][i].frame = t
  <2>1. PICK u \in L[k + 1], i \in Index : Link(m[u][i]) /\ m[u][i].frame = t
    BY DEF Levelled
  <2>2. k + 1 \in 2..4
    OBVIOUS
  <2> QED
    BY <2>1, <2>2 DEF AgreeOnLinks
<1>4. \A k \in 2..4 : \A t, u \in L[k] : \A i, j \in Index :
        Link(n[t][i]) /\ Link(n[u][j]) /\ n[t][i].frame = n[u][j].frame
          => t = u /\ i = j
  BY DEF Levelled, AgreeOnLinks
<1> QED
  BY <1>1, <1>2, <1>3, <1>4 DEF Levelled, AgreeOnLinks

(* If entry e is one of a huge page, all of that page is memory.            *)
InMemory(e) == \A j \in Index : e.huge_page => e.frame + j \in Frames

(* A write to an entry of the last level is such a write.                   *)
LEMMA LeafWrite ==
  ASSUME NEW m, NEW L, Levelled(m, L), NEW t \in L[1], NEW i \in Index,
         NEW e \in Entry, InMemory(e)
  PROVE  /\ [m EXCEPT ![t][i] = e] \in Memories
         /\ Levelled([m EXCEPT ![t][i] = e], L)
<1> DEFINE n == [m EXCEPT ![t][i] = e]
<1>1. t \in Frames /\ m \in Memories /\ \A k \in 1..4 : L[k] \in SUBSET Frames
  BY DEF Levelled
<1>2. /\ n \in [Frames -> [Index -> Entry]] /\ n[t][i] = e
      /\ \A u \in Frames : \A j \in Index : ~(u = t /\ j = i) => n[u][j] = m[u][j]
  BY <1>1 DEF Memories
<1>3. n \in Memories
  <2> SUFFICES ASSUME NEW f \in Frames, NEW j \in Index, NEW l \in Index, n[f][j].huge_page
               PROVE  n[f][j].frame + l \in Frames
    BY <1>2 DEF Memories
  <2> HIDE DEF n
  <2>1. CASE f = t /\ j = i
    BY <1>2, <2>1 DEF InMemory
  <2>2. CASE ~(f = t /\ j = i)
    BY <1>1, <1>2, <2>2 DEF Memories
  <2> QED
    BY <2>1, <2>2
<1> HIDE DEF n
<1>4. \A k \in 2..4 : \A u \in L[k] : u # t /\ u \in Frames
  <2> TAKE k \in 2..4
  <2> TAKE u \in L[k]
  <2>1. k \in 1..4 /\ k # 1 /\ 1 \in 1..4 /\ u \in Frames
    BY <1>1
  <2> QED
    BY <1>1, <2>1 DEF Levelled
<1>5. \A k \in 2..4 : \A u \in L[k], j \in Index : n[u][j] = m[u][j]
  BY <1>2, <1>4
<1>6. \A k \in 3..4 : \A u \in L[k], j \in Index : n[u][j].present => ~n[u][j].huge_page
  <2> TAKE k \in 3..4
  <2> TAKE u \in L[k], j \in Index
  <2>1. n[u][j] = m[u][j]
    BY <1>5
  <2> QED
    BY <2>1 DEF Levelled
<1>7. Levelled(n, L)
  <2>1. AgreeOnLinks(m, n, L)
    BY <1>5, <1>6 DEF AgreeOnLinks
  <2> QED
    BY <1>3, <2>1, SameLinks
<1> QED
  BY <1>3, <1>7 DEF n

(* A new table, zeroed, behind an entry that was absent.                    *)
WithTable(m, t, i, p) == [m EXCEPT ![p] = ZeroPage, ![t][i] = Points(p)]

LEMMA NewTableEntries ==
  ASSUME NEW m \in Memories, NEW t \in Frames, NEW i \in Index,
         NEW p \in Frames, p # t
  PROVE  /\ WithTable(m, t, i, p) \in Memories
         /\ WithTable(m, t, i, p)[t][i] = Points(p)
         /\ \A j \in Index : /\ ~WithTable(m, t, i, p)[p][j].present
                             /\ ~WithTable(m, t, i, p)[p][j].huge_page
         /\ \A u \in Frames \ {p} : \A j \in Index :
              ~(u = t /\ j = i) => WithTable(m, t, i, p)[u][j] = m[u][j]
<1> DEFINE n == WithTable(m, t, i, p)
<1>1. ZeroPage \in [Index -> Entry] /\ Points(p) \in Entry
  BY Constants DEF ZeroPage, Points, Entry
<1>2. m \in [Frames -> [Index -> Entry]]
  BY DEF Memories
<1>3. /\ n \in [Frames -> [Index -> Entry]] /\ n[p] = ZeroPage /\ n[t][i] = Points(p)
      /\ \A u \in Frames \ {p} : \A j \in Index : ~(u = t /\ j = i) => n[u][j] = m[u][j]
  BY <1>1, <1>2 DEF WithTable
<1> HIDE DEF n
<1>4. \A j \in Index : ~n[p][j].present /\ ~n[p][j].huge_page
  BY <1>3 DEF ZeroPage
<1>5. ~n[t][i].huge_page
  BY <1>3 DEF Points
<1>6. n \in Memories
  <2> SUFFICES ASSUME NEW f \in Frames, NEW j \in Index, NEW l \in Index, n[f][j].huge_page
               PROVE  n[f][j].frame + l \in Frames
    BY <1>3 DEF Memories
  <2>1. n[f][j] = m[f][j]
    BY <1>3, <1>4, <1>5
  <2> QED
    BY <2>1 DEF Memories
<1> QED
  BY <1>3, <1>4, <1>6 DEF n

LEMMA NewTableLevelled ==
  ASSUME NEW m, NEW L, Levelled(m, L), NEW k \in 2..4, NEW t \in L[k], NEW i \in Index,
         ~m[t][i].present, NEW p \in Frames, \A l \in 1..4 : p \notin L[l]
  PROVE  Levelled(WithTable(m, t, i, p), [L EXCEPT ![k - 1] = @ \cup {p}])
<1> DEFINE n == WithTable(m, t, i, p)
           M == [L EXCEPT ![k - 1] = @ \cup {p}]
<1>1. /\ m \in Memories /\ L \in [1..4 -> SUBSET Frames] /\ L[4] = {cr3}
      /\ t \in Frames /\ p # t /\ k - 1 \in 1..3 /\ k \in 1..4
  BY DEF Levelled
<1>2. /\ n \in Memories /\ n[t][i] = Points(p)
      /\ \A j \in Index : ~n[p][j].present /\ ~n[p][j].huge_page
      /\ \A u \in Frames \ {p} : \A j \in Index : ~(u = t /\ j = i) => n[u][j] = m[u][j]
  BY <1>1, NewTableEntries
<1>3. /\ M \in [1..4 -> SUBSET Frames] /\ M[4] = {cr3}
      /\ \A l \in 1..4 : L[l] \in SUBSET M[l]
      /\ \A l \in 1..4 : \A u \in M[l] : u \in L[l] \/ (u = p /\ l = k - 1)
      /\ p \in M[k - 1]
  BY <1>1
<1> HIDE DEF n, M
<1>4. Link(n[t][i]) /\ n[t][i].frame = p /\ ~n[t][i].huge_page
  BY <1>2 DEF Link, Points
<1>5. \A j \in Index : ~Link(n[p][j])
  BY <1>2 DEF Link
(* A link of the new memory is an old one or the new one.                   *)
<1>6. ASSUME NEW l \in 2..4, NEW u \in M[l], NEW j \in Index, Link(n[u][j])
      PROVE  /\ u \in L[l]
             /\ \/ u = t /\ j = i /\ l = k /\ n[u][j].frame = p
                \/ /\ ~(u = t /\ j = i) /\ Link(m[u][j])
                   /\ n[u][j].frame = m[u][j].frame /\ m[u][j].frame \in L[l - 1]
                   /\ m[u][j].frame # p
  <2>1. u # p /\ l \in 1..4 /\ l - 1 \in 1..4
    BY <1>5, <1>6
  <2>2. u \in L[l] /\ u \in Frames
    BY <1>1, <1>3, <2>1
  <2>3. CASE u = t /\ j = i
    <3>1. l = k
      BY <1>1, <2>1, <2>2, <2>3 DEF Levelled
    <3> QED
      BY <1>4, <2>2, <2>3, <3>1
  <2>4. CASE ~(u = t /\ j = i)
    <3>1. n[u][j] = m[u][j]
      BY <1>2, <2>1, <2>2, <2>4
    <3>2. m[u][j].frame \in L[l - 1]
      BY <1>6, <2>2, <3>1 DEF Levelled
    <3>3. m[u][j].frame # p
      BY <2>1, <3>2
    <3> QED
      BY <1>6, <2>2, <2>4, <3>1, <3>2, <3>3
  <2> QED
    BY <2>3, <2>4
<1>7. \A l \in 2..4 : \A u \in M[l], j \in Index :
        Link(n[u][j]) => n[u][j].frame \in M[l - 1]
  <2> TAKE l \in 2..4
  <2> TAKE u \in M[l], j \in Index
  <2> HAVE Link(n[u][j])
  <2>1. l - 1 \in 1..4
    OBVIOUS
  <2> QED
    BY <1>3, <1>6, <2>1
<1>8. ASSUME NEW l \in 1..3, NEW u \in M[l]
      PROVE  \E x \in M[l + 1], j \in Index : Link(n[x][j]) /\ n[x][j].frame = u
  <2>1. CASE u = p /\ l = k - 1
    <3>1. l + 1 = k /\ t \in M[k]
      BY <1>1, <1>3, <2>1
    <3> QED
      BY <1>4, <2>1, <3>1
  <2>2. CASE u \in L[l]
    <3>1. PICK x \in L[l + 1], j \in Index : Link(m[x][j]) /\ m[x][j].frame = u
      BY <2>2 DEF Levelled
    <3>2. x \in Frames /\ x # p /\ x \in M[l + 1]
      <4>1. l + 1 \in 1..4
        OBVIOUS
      <4> QED
        BY <1>1, <1>3, <4>1
    <3>3. ~(x = t /\ j = i)
      BY <3>1 DEF Link
    <3>4. n[x][j] = m[x][j]
      BY <1>2, <3>2, <3>3
    <3> QED
      BY <3>1, <3>2, <3>4
  <2>3. l \in 1..4
    OBVIOUS
  <2> QED
    BY <1>3, <2>1, <2>2, <2>3
<1>9. \A l, q \in 1..4 : \A u \in Frames : u \in M[l] /\ u \in M[q] => l = q
  BY <1>3 DEF Levelled
<1>10. \A l \in 2..4 : \A u, x \in M[l] : \A j, q \in Index :
         Link(n[u][j]) /\ Link(n[x][q]) /\ n[u][j].frame = n[x][q].frame
           => u = x /\ j = q
  <2> TAKE l \in 2..4
  <2> TAKE u, x \in M[l]
  <2> TAKE j, q \in Index
  <2> HAVE Link(n[u][j]) /\ Link(n[x][q]) /\ n[u][j].frame = n[x][q].frame
  <2>1. u \in L[l] /\ x \in L[l]
    BY <1>6
  <2>2. CASE u = t /\ j = i
    BY <1>6, <2>2
  <2>3. CASE x = t /\ q = i
    BY <1>6, <2>3
  <2>4. CASE ~(u = t /\ j = i) /\ ~(x = t /\ q = i)
    <3>1. Link(m[u][j]) /\ Link(m[x][q]) /\ m[u][j].frame = m[x][q].frame
      BY <1>6, <2>4
    <3> QED
      BY <2>1, <3>1 DEF Levelled
  <2> QED
    BY <2>2, <2>3, <2>4
<1>11. \A l \in 3..4 : \A u \in M[l], j \in Index :
         n[u][j].present => ~n[u][j].huge_page
  <2> TAKE l \in 3..4
  <2> TAKE u \in M[l], j \in Index
  <2>1. CASE u = p
    BY <1>2, <2>1
  <2>2. CASE u = t /\ j = i
    BY <1>4, <2>2
  <2>3. CASE u # p /\ ~(u = t /\ j = i)
    <3>1. l \in 1..4
      OBVIOUS
    <3>2. u \in L[l] /\ u \in Frames
      BY <1>1, <1>3, <2>3, <3>1
    <3>3. n[u][j] = m[u][j]
      BY <1>2, <2>3, <3>2
    <3> QED
      BY <3>2, <3>3 DEF Levelled
  <2> QED
    BY <2>1, <2>2, <2>3
<1>12. Levelled(n, M)
  BY <1>2, <1>3, <1>7, <1>8, <1>9, <1>10, <1>11 DEF Levelled
<1> QED
  BY <1>12 DEF n, M

(* Memories m and n mean the same to the CPU.                               *)
SameFor(m, n) == \A u \in Pages : Walk(n, u) = Walk(m, u) /\ InHuge(n, u) = InHuge(m, u)

(* A new table, being zeroed, maps nothing that was not mapped.             *)
LEMMA NewTableWalks ==
  ASSUME NEW m, NEW L, Levelled(m, L), NEW k \in 2..4, NEW t \in L[k], NEW i \in Index,
         ~m[t][i].present, NEW p \in Frames, \A l \in 1..4 : p \notin L[l],
         NEW u \in Pages
  PROVE  /\ Walk(WithTable(m, t, i, p), u) = Walk(m, u)
         /\ InHuge(WithTable(m, t, i, p), u) = InHuge(m, u)
         /\ OnWay(m, u, k, t) /\ Digit(u, k) = i => OnWay(WithTable(m, t, i, p), u, k - 1, p)
<1> DEFINE n == WithTable(m, t, i, p)
<1>1. /\ m \in Memories /\ L \in [1..4 -> SUBSET Frames] /\ k \in 1..4
      /\ t \in Frames /\ p # t /\ cr3 \in L[4] /\ cr3 # p
  BY DEF Levelled
<1>2. /\ n \in Memories /\ n[t][i] = Points(p)
      /\ \A j \in Index : ~n[p][j].present /\ ~n[p][j].huge_page
      /\ \A x \in Frames \ {p} : \A j \in Index : ~(x = t /\ j = i) => n[x][j] = m[x][j]
  BY <1>1, NewTableEntries
<1> HIDE DEF n
<1>3. p4_idx(u) \in Index /\ p3_idx(u) \in Index /\ p2_idx(u) \in Index /\ p1_idx(u) \in Index
  BY Digits
<1>4. /\ n[t][i].present /\ ~n[t][i].huge_page /\ n[t][i].frame = p
      /\ m[t][i].present \in BOOLEAN /\ ~m[t][i].present
  BY <1>1, <1>2, EntryFacts DEF Points
<1>5. \A l \in 1..4 : \A x : OnWay(m, u, l, x) => x \in L[l] /\ x \in Frames /\ x # p
  BY WayIsLevelled
<1>6. CASE OnWay(m, u, k, t) /\ Digit(u, k) = i
  <2>1. CASE k = 4
    <3>1. t = cr3 /\ p4_idx(u) = i
      BY <1>6, <2>1 DEF OnWay, Digit
    <3>2. ~E4(m, u).present /\ E4(n, u) = n[t][i]
      BY <1>4, <3>1 DEF E4
    <3>3. E3(n, u) = n[p][p3_idx(u)]
      BY <1>4, <3>2 DEF E3
    <3>4. ~HasE2(m, u) /\ ~HasE2(n, u)
      BY <1>2, <1>3, <3>2, <3>3 DEF HasE2
    <3>5. OnWay(n, u, 3, p)
      BY <1>4, <3>2 DEF OnWay
    <3> QED
      BY <2>1, <3>4, <3>5 DEF Walk, InHuge, HasE1, n
  <2>2. CASE k = 3
    <3>1. E4(m, u).present /\ t = E4(m, u).frame /\ p3_idx(u) = i
      BY <1>6, <2>2 DEF OnWay, Digit
    <3>2. cr3 # t
      BY <1>1, <2>2 DEF Levelled
    <3>3. E4(n, u) = E4(m, u)
      BY <1>1, <1>2, <1>3, <3>2, Constants DEF E4
    <3>4. ~E3(m, u).present /\ E3(n, u) = n[t][i]
      BY <1>4, <3>1, <3>3 DEF E3
    <3>5. E2(n, u) = n[p][p2_idx(u)]
      BY <1>4, <3>4 DEF E2
    <3>6. ~HasE2(m, u) /\ ~HasE2(n, u)
      BY <1>2, <1>3, <3>4, <3>5 DEF HasE2
    <3>7. OnWay(n, u, 2, p)
      BY <1>4, <3>1, <3>3, <3>4 DEF OnWay
    <3> QED
      BY <2>2, <3>6, <3>7 DEF Walk, InHuge, HasE1, n
  <2>3. CASE k = 2
    <3>1. E4(m, u).present /\ E3(m, u).present /\ t = E3(m, u).frame /\ p2_idx(u) = i
      BY <1>6, <2>3 DEF OnWay, Digit
    <3>2. cr3 # t
      BY <1>1, <2>3 DEF Levelled
    <3>3. E4(n, u) = E4(m, u)
      BY <1>1, <1>2, <1>3, <3>2, Constants DEF E4
    <3>4. OnWay(m, u, 3, E4(m, u).frame)
      BY <3>1 DEF OnWay
    <3>5. E4(m, u).frame \in Frames \ {p} /\ E4(m, u).frame # t
      BY <1>1, <1>5, <2>3, <3>4 DEF Levelled
    <3>6. E3(n, u) = E3(m, u)
      BY <1>2, <1>3, <3>3, <3>5 DEF E3
    <3>7. ~E2(m, u).present /\ E2(n, u) = n[t][i]
      BY <1>4, <3>1, <3>6 DEF E2
    <3>8. E1(n, u) = n[p][p1_idx(u)]
      BY <1>4, <3>7 DEF E1
    <3>9. ~HasE2(m, u) /\ HasE2(n, u) /\ ~E2(n, u).huge_page /\ ~E1(n, u).present
      BY <1>2, <1>3, <1>4, <3>1, <3>3, <3>6, <3>7, <3>8 DEF HasE2
    <3>10. OnWay(n, u, 1, p)
      BY <1>4, <3>7, <3>9 DEF OnWay, InHuge
    <3> QED
      BY <2>3, <3>9, <3>10 DEF Walk, InHuge, HasE1, n
  <2> QED
    BY <2>1, <2>2, <2>3
<1>7. CASE ~(OnWay(m, u, k, t) /\ Digit(u, k) = i)
  <2>1. ASSUME NEW l \in 1..4, NEW x, OnWay(m, u, l, x)
        PROVE  n[x][Digit(u, l)] = m[x][Digit(u, l)]
    <3>1. x \in L[l] /\ x \in Frames \ {p}
      BY <1>5, <2>1
    <3>2. x = t => l = k
      BY <1>1, <3>1 DEF Levelled
    <3>3. Digit(u, l) \in Index
      BY <1>3 DEF Digit
    <3> QED
      BY <1>2, <1>7, <2>1, <3>1, <3>2, <3>3
  <2>2. AgreeOnWay(m, n, u)
    BY <2>1 DEF AgreeOnWay
  <2> QED
    BY <1>7, <2>2, SameWay DEF n
<1> QED
  BY <1>6, <1>7

(* A walk on its way to page v has come to level k, in a tree of tables     *)
(* that are neither free nor in x; or the allocator has panicked.           *)
Walker == [mem : Memories, free : SUBSET Frames, table : Frames, ok : BOOLEAN]

Walked(s, x, v, k) ==
  /\ s \in Walker
  /\ \E L : /\ Levelled(s.mem, L) /\ Apart(L, s.free \cup x)
            /\ s.ok => OnWay(s.mem, v, k, s.table)

LEMMA GetTable ==
  ASSUME NEW s, NEW x \in SUBSET Frames, NEW v \in Pages, NEW k \in 2..4,
         Walked(s, x, v, k), s.free \cap x = {}, ~InHuge(s.mem, v),
         NEW r, r = get_table(s, Digit(v, k))
  PROVE  /\ Walked(r, x, v, k - 1)
         /\ SameFor(s.mem, r.mem)
         /\ r.free \in SUBSET s.free
<1> DEFINE t == s.table
           i == Digit(v, k)
<1>1. s \in Walker /\ t \in Frames /\ s.mem \in Memories /\ s.free \in SUBSET Frames
  BY DEF Walked, Walker
<1>2. PICK L : /\ Levelled(s.mem, L) /\ Apart(L, s.free \cup x)
               /\ s.ok => OnWay(s.mem, v, k, t)
  BY DEF Walked
<1>3. CASE ~s.ok
  BY <1>1, <1>2, <1>3 DEF get_table, Walked, SameFor
<1>4. CASE s.ok
  <2>1. OnWay(s.mem, v, k, t) /\ t \in L[k] /\ i \in Index
    BY <1>2, <1>4, WayIsLevelled, Digits DEF Digit
  <2>2. s.mem[t][i].present \in BOOLEAN /\ s.mem[t][i].frame \in Frames
    BY <1>1, <2>1, EntryFacts
  <2>3. CASE s.mem[t][i].present
    <3>1. r = [s EXCEPT !.table = s.mem[t][i].frame]
      BY <1>4, <2>3 DEF get_table
    <3>2. /\ r \in Walker /\ r.mem = s.mem /\ r.free = s.free /\ r.ok
          /\ r.table = s.mem[t][i].frame
      BY <1>1, <1>4, <2>2, <3>1 DEF Walker
    <3>3. OnWay(s.mem, v, k - 1, s.mem[t][i].frame)
      <4>1. CASE k = 4
        BY <2>1, <2>3, <4>1 DEF OnWay, Digit, E4
      <4>2. CASE k = 3
        BY <2>1, <2>3, <4>2 DEF OnWay, Digit, E3
      <4>3. CASE k = 2
        BY <2>1, <2>3, <4>3 DEF OnWay, Digit, E2, HasE2
      <4> QED
        BY <4>1, <4>2, <4>3
    <3> QED
      BY <1>2, <3>2, <3>3 DEF Walked, SameFor
  <2>4. CASE ~s.mem[t][i].present /\ s.free = {}
    <3>1. r = [s EXCEPT !.ok = FALSE]
      BY <1>4, <2>4 DEF get_table
    <3>2. r \in Walker /\ r.mem = s.mem /\ r.free = s.free /\ ~r.ok
      BY <1>1, <3>1 DEF Walker
    <3> QED
      BY <1>2, <3>2 DEF Walked, SameFor
  <2>5. CASE ~s.mem[t][i].present /\ s.free # {}
    <3> DEFINE p == Min(s.free)
               n == WithTable(s.mem, t, i, p)
    <3>1. p \in s.free /\ p \in Frames
      BY <1>1, <2>5, Constants, MinOfNats
    <3>2. r = [mem |-> n, free |-> s.free \ {p}, table |-> p, ok |-> TRUE]
      BY <1>4, <2>5 DEF get_table, NewTable, WithTable
    <3> HIDE DEF p
    <3>3. \A l \in 1..4 : p \notin L[l]
      BY <1>2, <3>1 DEF Apart
    <3>4. n \in Memories
      <4>1. p # t
        BY <2>1, <3>3
      <4> QED
        BY <1>1, <2>1, <3>1, <4>1, NewTableEntries
    <3>5. Levelled(n, [L EXCEPT ![k - 1] = @ \cup {p}])
      BY <1>2, <2>1, <2>5, <3>1, <3>3, NewTableLevelled
    <3>6. SameFor(s.mem, n)
      BY <1>2, <2>1, <2>5, <3>1, <3>3, NewTableWalks DEF SameFor
    <3>7. OnWay(n, v, k - 1, p)
      BY <1>2, <2>1, <2>5, <3>1, <3>3, NewTableWalks
    <3>8. Apart([L EXCEPT ![k - 1] = @ \cup {p}], (s.free \ {p}) \cup x)
      BY <1>2, <3>1 DEF Apart, Levelled
    <3> HIDE DEF n
    <3>9. r \in Walker /\ r.mem = n /\ r.free = s.free \ {p} /\ r.ok /\ r.table = p
      BY <1>1, <3>1, <3>2, <3>4 DEF Walker
    <3> QED
      BY <3>5, <3>6, <3>7, <3>8, <3>9 DEF Walked
  <2> QED
    BY <2>2, <2>3, <2>4, <2>5
<1> QED
  BY <1>1, <1>3, <1>4 DEF Walker

LEMMA ReachWalks ==
  ASSUME NEW s, NEW x \in SUBSET Frames, NEW v \in Pages,
         Walked(s, x, v, 4), s.free \cap x = {}, ~InHuge(s.mem, v),
         NEW r, r = Reach(s, v)
  PROVE  /\ Walked(r, x, v, 1)
         /\ SameFor(s.mem, r.mem)
         /\ r.free \in SUBSET s.free
<1>1. PICK a : a = get_table(s, Digit(v, 4))
  OBVIOUS
<1>2. PICK b : b = get_table(a, Digit(v, 3))
  OBVIOUS
<1>3. PICK c : c = get_table(b, Digit(v, 2))
  OBVIOUS
<1>4. r = c
  BY <1>1, <1>2, <1>3 DEF Reach, Digit
<1>5. Walked(a, x, v, 3) /\ SameFor(s.mem, a.mem) /\ a.free \in SUBSET s.free
  <2>1. 4 \in 2..4 /\ 4 - 1 = 3
    OBVIOUS
  <2>2. Walked(a, x, v, 4 - 1) /\ SameFor(s.mem, a.mem) /\ a.free \in SUBSET s.free
    BY <1>1, <2>1, GetTable, Zenon
  <2> QED
    BY <2>1, <2>2
<1>6. ~InHuge(a.mem, v) /\ a.free \cap x = {}
  BY <1>5 DEF SameFor
<1>7. Walked(b, x, v, 2) /\ SameFor(a.mem, b.mem) /\ b.free \in SUBSET a.free
  <2>1. 3 \in 2..4 /\ 3 - 1 = 2
    OBVIOUS
  <2>2. Walked(b, x, v, 3 - 1) /\ SameFor(a.mem, b.mem) /\ b.free \in SUBSET a.free
    BY <1>2, <1>5, <1>6, <2>1, GetTable, Zenon
  <2> QED
    BY <2>1, <2>2
<1>8. ~InHuge(b.mem, v) /\ b.free \cap x = {}
  BY <1>6, <1>7 DEF SameFor
<1>9. Walked(c, x, v, 1) /\ SameFor(b.mem, c.mem) /\ c.free \in SUBSET b.free
  <2>1. 2 \in 2..4 /\ 2 - 1 = 1
    OBVIOUS
  <2>2. Walked(c, x, v, 2 - 1) /\ SameFor(b.mem, c.mem) /\ c.free \in SUBSET b.free
    BY <1>3, <1>7, <1>8, <2>1, GetTable, Zenon
  <2> QED
    BY <2>1, <2>2
<1> QED
  BY <1>4, <1>5, <1>7, <1>9 DEF SameFor

(* Pages that are looked up in the same table have their digits above it in *)
(* common.                                                                  *)
LEMMA SameTable ==
  ASSUME NEW m, NEW L, Levelled(m, L), NEW u \in Pages, NEW v \in Pages,
         NEW k \in 1..3, NEW t, OnWay(m, u, k, t), OnWay(m, v, k, t)
  PROVE  \A l \in 1..4 : k < l => Digit(u, l) = Digit(v, l)
<1>1. /\ p4_idx(u) \in Index /\ p3_idx(u) \in Index /\ p2_idx(u) \in Index
      /\ p4_idx(v) \in Index /\ p3_idx(v) \in Index /\ p2_idx(v) \in Index
  BY Digits
<1>2. /\ cr3 \in L[4]
      /\ \A w \in {u, v} : E4(m, w).present => E4(m, w).frame \in L[3]
      /\ \A w \in {u, v} : E4(m, w).present /\ E3(m, w).present => E3(m, w).frame \in L[2]
  <2>1. \A w \in {u, v} : E4(m, w).present => OnWay(m, w, 3, E4(m, w).frame)
    BY DEF OnWay
  <2>2. \A w \in {u, v} : E4(m, w).present /\ E3(m, w).present => OnWay(m, w, 2, E3(m, w).frame)
    BY DEF OnWay
  <2>3. cr3 \in L[4] /\ 3 \in 1..4 /\ 2 \in 1..4
    BY DEF Levelled
  <2> QED
    BY <2>1, <2>2, <2>3, WayIsLevelled
<1>3. ASSUME E4(m, u).present, E4(m, v).present, E4(m, u).frame = E4(m, v).frame
      PROVE  p4_idx(u) = p4_idx(v)
  <2>1. Link(m[cr3][p4_idx(u)]) /\ Link(m[cr3][p4_idx(v)])
    BY <1>1, <1>2, <1>3 DEF Levelled, Link, E4
  <2> QED
    BY <1>1, <1>2, <1>3, <2>1 DEF Levelled, E4
<1>4. ASSUME E4(m, u).present, E4(m, v).present, E3(m, u).present, E3(m, v).present,
             E3(m, u).frame = E3(m, v).frame
      PROVE  p4_idx(u) = p4_idx(v) /\ p3_idx(u) = p3_idx(v)
  <2>1. PICK a \in L[3] : a = E4(m, u).frame
    BY <1>2, <1>4
  <2>2. PICK b \in L[3] : b = E4(m, v).frame
    BY <1>2, <1>4
  <2>3. /\ m[a][p3_idx(u)].present /\ m[b][p3_idx(v)].present
        /\ m[a][p3_idx(u)].frame = m[b][p3_idx(v)].frame
    BY <1>4, <2>1, <2>2 DEF E3
  <2>4. Link(m[a][p3_idx(u)]) /\ Link(m[b][p3_idx(v)])
    BY <1>1, <2>3 DEF Levelled, Link
  <2>5. a = b /\ p3_idx(u) = p3_idx(v)
    BY <1>1, <2>3, <2>4 DEF Levelled
  <2> QED
    BY <1>3, <1>4, <2>1, <2>2, <2>5
<1>5. ASSUME HasE2(m, u), HasE2(m, v), ~InHuge(m, u), ~InHuge(m, v),
             E2(m, u).frame = E2(m, v).frame
      PROVE  p4_idx(u) = p4_idx(v) /\ p3_idx(u) = p3_idx(v) /\ p2_idx(u) = p2_idx(v)
  <2>1. PICK a \in L[2] : a = E3(m, u).frame
    BY <1>2, <1>5 DEF HasE2
  <2>2. PICK b \in L[2] : b = E3(m, v).frame
    BY <1>2, <1>5 DEF HasE2
  <2>3. /\ Link(m[a][p2_idx(u)]) /\ Link(m[b][p2_idx(v)])
        /\ m[a][p2_idx(u)].frame = m[b][p2_idx(v)].frame
    BY <1>5, <2>1, <2>2 DEF E2, HasE2, InHuge, Link
  <2>4. a = b /\ p2_idx(u) = p2_idx(v)
    BY <1>1, <2>3 DEF Levelled
  <2> QED
    BY <1>4, <1>5, <2>1, <2>2, <2>4 DEF HasE2
<1>6. CASE k = 3
  BY <1>3, <1>6 DEF OnWay, Digit
<1>7. CASE k = 2
  BY <1>4, <1>7 DEF OnWay, Digit
<1>8. CASE k = 1
  BY <1>5, <1>8 DEF OnWay, Digit
<1> QED
  BY <1>6, <1>7, <1>8

(* A write to the entry of page v in a table of the last level changes the  *)
(* page v and no other.                                                     *)
LeafChanges(m, n, L, v, e) ==
  /\ Levelled(n, L)
  /\ \A u \in Pages : InHuge(n, u) = InHuge(m, u)
  /\ \A u \in Pages : u # v => Walk(n, u) = Walk(m, u)
  /\ Walk(n, v) = IF e.present THEN e.frame ELSE NotMapped

LEMMA LeafWalks ==
  ASSUME NEW m, NEW L, Levelled(m, L), NEW v \in Pages, NEW t, OnWay(m, v, 1, t),
         NEW e \in Entry, InMemory(e),
         NEW n, n = [m EXCEPT ![t][p1_idx(v)] = e]
  PROVE  LeafChanges(m, n, L, v, e)
<1>1. t \in L[1] /\ t \in Frames /\ p1_idx(v) \in Index /\ m \in Memories
  <2>1. 1 \in 1..4
    OBVIOUS
  <2>2. t \in L[1] /\ t \in Frames
    BY <2>1, WayIsLevelled, Zenon
  <2> QED
    BY <2>2, Digits DEF Levelled
<1>2. Levelled(n, L)
  BY <1>1, LeafWrite
<1>3. /\ n[t][p1_idx(v)] = e
      /\ \A u \in Frames : u # t => n[u] = m[u]
      /\ \A j \in Index : j # p1_idx(v) => n[t][j] = m[t][j]
  BY <1>1 DEF Memories
<1>4. ASSUME NEW u \in Pages, NEW k \in 2..4, NEW w, OnWay(m, u, k, w)
      PROVE  n[w] = m[w]
  <2>1. w \in L[k] /\ w \in Frames /\ k \in 1..4 /\ k # 1
    BY <1>4, WayIsLevelled
  <2>2. w # t
    BY <1>1, <2>1 DEF Levelled
  <2> QED
    BY <1>3, <2>1, <2>2
<1>5. ASSUME NEW u \in Pages
      PROVE  /\ E4(n, u) = E4(m, u)
             /\ E4(m, u).present => E3(n, u) = E3(m, u)
             /\ E4(m, u).present /\ E3(m, u).present => E2(n, u) = E2(m, u)
  <2>1. OnWay(m, u, 4, cr3)
    BY DEF OnWay
  <2>2. E4(m, u).present => OnWay(m, u, 3, E4(m, u).frame)
    BY DEF OnWay
  <2>3. E4(m, u).present /\ E3(m, u).present => OnWay(m, u, 2, E3(m, u).frame)
    BY DEF OnWay
  <2>4. E4(n, u) = E4(m, u)
    BY <1>4, <2>1 DEF E4
  <2>5. E4(m, u).present => E3(n, u) = E3(m, u)
    BY <1>4, <2>2, <2>4 DEF E3
  <2> QED
    BY <1>4, <2>3, <2>4, <2>5 DEF E2
<1>6. \A u \in Pages : HasE2(n, u) = HasE2(m, u) /\ InHuge(n, u) = InHuge(m, u)
  BY <1>5 DEF HasE2, InHuge
<1>7. ASSUME NEW u \in Pages, u # v
      PROVE  Walk(n, u) = Walk(m, u)
  <2>1. ASSUME NEW k \in 1..4, NEW w, OnWay(m, u, k, w)
        PROVE  n[w][Digit(u, k)] = m[w][Digit(u, k)]
    <3>1. CASE k = 1 /\ w = t
      <4>1. \A l \in 1..4 : 1 < l => Digit(u, l) = Digit(v, l)
        BY <2>1, <3>1, SameTable
      <4>2. p4_idx(u) = p4_idx(v) /\ p3_idx(u) = p3_idx(v) /\ p2_idx(u) = p2_idx(v)
        BY <4>1 DEF Digit
      <4>3. p1_idx(u) # p1_idx(v) /\ p1_idx(u) \in Index
        BY <1>7, <4>2, SamePage, Digits
      <4> QED
        BY <1>3, <3>1, <4>3 DEF Digit
    <3>2. CASE k = 1 /\ w # t
      BY <1>3, <2>1, <3>2, WayIsLevelled
    <3>3. CASE k # 1
      BY <1>4, <2>1, <3>3
    <3> QED
      BY <3>1, <3>2, <3>3
  <2>2. AgreeOnWay(m, n, u)
    BY <2>1 DEF AgreeOnWay
  <2> QED
    BY <2>2, SameWay
<1>8. Walk(n, v) = IF e.present THEN e.frame ELSE NotMapped
  <2>1. HasE2(m, v) /\ ~InHuge(m, v) /\ t = E2(m, v).frame
    BY DEF OnWay
  <2>2. E2(n, v) = E2(m, v) /\ HasE2(n, v) /\ ~InHuge(n, v)
    BY <1>5, <1>6, <2>1 DEF HasE2
  <2>3. E1(n, v) = e
    BY <1>3, <2>1, <2>2 DEF E1
  <2> QED
    BY <2>2, <2>3 DEF Walk, HasE1, InHuge
<1> QED
  BY <1>2, <1>6, <1>7, <1>8 DEF LeafChanges

(* What map_page does to the page it is asked for, to the other pages, and  *)
(* to the tables.                                                           *)
MapsPage(s, r, x, v, p) ==
  /\ r \in Walker /\ r.free \in SUBSET s.free
  /\ \E L : Levelled(r.mem, L) /\ Apart(L, r.free \cup x)
  /\ \A u \in Pages : InHuge(r.mem, u) = InHuge(s.mem, u)
  /\ \A u \in Pages : u # v => Walk(r.mem, u) = Walk(s.mem, u)
  /\ Walk(r.mem, v) = IF r.ok THEN p ELSE Walk(s.mem, v)

LEMMA MappedWalks ==
  ASSUME NEW s, NEW x \in SUBSET Frames, NEW v \in Pages, NEW p \in Frames,
         Walked(s, x, v, 4), s.free \cap x = {}, ~InHuge(s.mem, v),
         NEW r, r = Mapped(s, v, p)
  PROVE  MapsPage(s, r, x, v, p)
<1>1. PICK t : t = Reach(s, v)
  OBVIOUS
<1>2. Walked(t, x, v, 1) /\ SameFor(s.mem, t.mem) /\ t.free \in SUBSET s.free
  BY <1>1, ReachWalks
<1>3. PICK L : /\ Levelled(t.mem, L) /\ Apart(L, t.free \cup x)
               /\ t.ok => OnWay(t.mem, v, 1, t.table)
  BY <1>2 DEF Walked
<1>4. t \in Walker
  BY <1>2 DEF Walked
<1>5. CASE ~t.ok
  <2>1. r = t
    BY <1>1, <1>5 DEF Mapped
  <2> QED
    BY <1>2, <1>3, <1>4, <1>5, <2>1 DEF SameFor, MapsPage
<1>6. CASE t.ok
  <2> DEFINE n == [t.mem EXCEPT ![t.table][p1_idx(v)] = Points(p)]
  <2>1. r = [t EXCEPT !.mem[t.table][p1_idx(v)] = Points(p)]
    BY <1>1, <1>6 DEF Mapped
  <2>2. Points(p) \in Entry /\ InMemory(Points(p)) /\ Points(p).present /\ Points(p).frame = p
    BY DEF Points, Entry, InMemory
  <2>3. /\ Levelled(n, L)
        /\ \A u \in Pages : InHuge(n, u) = InHuge(t.mem, u)
        /\ \A u \in Pages : u # v => Walk(n, u) = Walk(t.mem, u)
        /\ Walk(n, v) = p
    BY <1>3, <1>6, <2>2, LeafWalks DEF LeafChanges
  <2>4. r = [t EXCEPT !.mem = n]
    BY <1>4, <2>1 DEF Walker
  <2> HIDE DEF n
  <2>5. r \in Walker /\ r.mem = n /\ r.free = t.free /\ r.ok
    BY <1>4, <1>6, <2>3, <2>4 DEF Walker, Levelled
  <2> QED
    BY <1>2, <1>3, <2>3, <2>5 DEF SameFor, MapsPage
<1> QED
  BY <1>4, <1>5, <1>6 DEF Walker

-----------------------------------------------------------------------------
(* The levels as they are read from a memory.                               *)
Levels(m) == [k \in 1..4 |-> IF k = 4 THEN {cr3} ELSE IF k = 3 THEN Level3(m)
                             ELSE IF k = 2 THEN Level2(m)
                             ELSE Behind(m, Below(m, Level2(m)))]

(* The inductive invariant: the tables are a tree that shares no frame with *)
(* the allocator or its other callers, and no huge page has come to where   *)
(* heap_request_page maps.                                                  *)
PagingInv ==
  /\ free \in SUBSET Frames /\ held \in SUBSET Frames /\ free \cap held = {}
  /\ Levelled(mem, Levels(mem)) /\ Apart(Levels(mem), free \cup held)
  /\ ~InHuge(mem, HEAP_BASE)
  /\ halted \in BOOLEAN

LEMMA BehindBelow ==
  ASSUME NEW m, NEW T
  PROVE  /\ \A t \in T, i \in Index : Link(m[t][i]) =>
              /\ <<t, i>> \in Below(m, T)
              /\ m[t][i].frame \in Behind(m, Below(m, T))
         /\ \A f \in Behind(m, Below(m, T)) :
              \E t \in T, i \in Index : Link(m[t][i]) /\ m[t][i].frame = f
         /\ \A e \in Below(m, T) : /\ e[1] \in T /\ e[2] \in Index /\ e = <<e[1], e[2]>>
                                   /\ Link(m[e[1]][e[2]])
<1>1. ASSUME NEW t \in T, NEW i \in Index, Link(m[t][i])
      PROVE  <<t, i>> \in Below(m, T) /\ m[t][i].frame \in Behind(m, Below(m, T))
  <2>1. <<t, i>> \in Below(m, T)
    BY <1>1 DEF Below, Link
  <2> QED
    BY <2>1 DEF Behind
<1>2. ASSUME NEW e \in Below(m, T)
      PROVE  /\ e[1] \in T /\ e[2] \in Index /\ e = <<e[1], e[2]>>
             /\ Link(m[e[1]][e[2]])
  BY <1>2 DEF Below, Link
<1>3. ASSUME NEW f \in Behind(m, Below(m, T))
      PROVE  \E t \in T, i \in Index : Link(m[t][i]) /\ m[t][i].frame = f
  <2>1. PICK e \in Below(m, T) : f = m[e[1]][e[2]].frame
    BY <1>3 DEF Behind
  <2> QED
    BY <1>2, <2>1
<1> QED
  BY <1>1, <1>2, <1>3

LEMMA LevelsOf ==
  ASSUME NEW m
  PROVE  /\ Levels(m)[4] = {cr3} /\ Levels(m)[3] = Level3(m) /\ Levels(m)[2] = Level2(m)
         /\ Levels(m)[1] = Behind(m, Below(m, Level2(m)))
         /\ \A k \in 2..4 : Levels(m)[k - 1] = Behind(m, Below(m, Levels(m)[k]))
         /\ Links(m) = Below(m, Levels(m)[4] \cup Levels(m)[3] \cup Levels(m)[2])
<1>1. /\ Levels(m)[4] = {cr3} /\ Levels(m)[3] = Level3(m) /\ Levels(m)[2] = Level2(m)
      /\ Levels(m)[1] = Behind(m, Below(m, Level2(m)))
  BY DEF Levels
<1>2. \A k \in 2..4 : Levels(m)[k - 1] = Behind(m, Below(m, Levels(m)[k]))
  <2> TAKE k \in 2..4
  <2>1. (k = 4 /\ k - 1 = 3) \/ (k = 3 /\ k - 1 = 2) \/ (k = 2 /\ k - 1 = 1)
    OBVIOUS
  <2> QED
    BY <1>1, <2>1 DEF Level3, Level2
<1> QED
  BY <1>1, <1>2 DEF Links

(* Sets that satisfy Levelled are the levels.                               *)
LEMMA LevelsUnique ==
  ASSUME NEW m, NEW L, Levelled(m, L)
  PROVE  L = Levels(m)
<1>1. ASSUME NEW k \in 2..4 PROVE L[k - 1] = Behind(m, Below(m, L[k]))
  <2>1. ASSUME NEW f \in L[k - 1] PROVE f \in Behind(m, Below(m, L[k]))
    <3>1. k - 1 \in 1..3 /\ (k - 1) + 1 = k
      OBVIOUS
    <3>2. PICK u \in L[k], i \in Index : Link(m[u][i]) /\ m[u][i].frame = f
      BY <3>1 DEF Levelled
    <3> QED
      BY <3>2, BehindBelow
  <2>2. ASSUME NEW f \in Behind(m, Below(m, L[k])) PROVE f \in L[k - 1]
    <3>1. PICK u \in L[k], i \in Index : Link(m[u][i]) /\ m[u][i].frame = f
      BY BehindBelow
    <3> QED
      BY <3>1 DEF Levelled
  <2> QED
    BY <2>1, <2>2
<1>2. L[4] = {cr3} /\ L = [k \in 1..4 |-> L[k]]
  BY DEF Levelled
<1>3. L[3] = Level3(m)
  BY <1>1, <1>2 DEF Level3
<1>4. L[2] = Level2(m)
  BY <1>1, <1>3 DEF Level2
<1>5. L[1] = Behind(m, Below(m, Level2(m)))
  BY <1>1, <1>4
<1>6. \A k \in 1..4 : L[k] = Levels(m)[k]
  <2>1. \A k \in 1..4 : k = 1 \/ k = 2 \/ k = 3 \/ k = 4
    OBVIOUS
  <2> QED
    BY <1>2, <1>3, <1>4, <1>5, <2>1, LevelsOf
<1> QED
  BY <1>2, <1>6 DEF Levels

(* The loader's tables are such a tree.                                     *)
LEMMA BootLevelled ==
  /\ Levelled(BootMemory, Levels(BootMemory))
  /\ Apart(Levels(BootMemory), BootFree)
<1> DEFINE m == BootMemory
           L == Levels(m)
<1>1. m \in Memories
  <2>1. Data \in [Index -> Entry] /\ \A i \in Index : ~Data[i].huge_page
    BY Constants DEF Data, Points, Entry
  <2>2. \A f \in Frames : m[f] = IF f \in DOMAIN BootTables THEN BootTables[f] ELSE Data
    BY DEF BootMemory
  <2>3. \A f \in Frames : m[f] \in [Index -> Entry]
    BY <2>1, <2>2, PagingAssumption
  <2>4. m \in [Frames -> [Index -> Entry]]
    BY <2>3 DEF BootMemory
  <2>5. \A f \in Frames : \A i, j \in Index : m[f][i].huge_page => m[f][i].frame + j \in Frames
    BY <2>1, <2>2, LoaderAssumption
  <2> QED
    BY <2>4, <2>5 DEF Memories
<1> HIDE DEF m
<1>2. /\ L[4] = {cr3}
      /\ \A k \in 2..4 : L[k - 1] = Behind(m, Below(m, L[k]))
      /\ Links(m) = Below(m, L[4] \cup L[3] \cup L[2])
  BY LevelsOf
<1>3. L[3] = Level3(m)
  BY LevelsOf
<1>4. DOMAIN L = 1..4 /\ L = [k \in 1..4 |-> L[k]]
  BY DEF Levels
<1> HIDE DEF L
<1>5. \A k \in 2..4 : \A t \in L[k], i \in Index :
        Link(m[t][i]) => m[t][i].frame \in L[k - 1]
  <2> TAKE k \in 2..4
  <2>1. PICK T : T = L[k]
    OBVIOUS
  <2>2. L[k - 1] = Behind(m, Below(m, T))
    BY <1>2, <2>1
  <2>3. \A t \in T, i \in Index : Link(m[t][i]) => m[t][i].frame \in Behind(m, Below(m, T))
    BY BehindBelow
  <2> QED
    BY <2>1, <2>2, <2>3
(* What a link of the upper three levels leads to is behind Links.          *)
<1>5b. \A u \in L[4] \cup L[3] \cup L[2] : \A i \in Index :
        Link(m[u][i]) => m[u][i].frame \in Behind(m, Links(m))
  <2>1. PICK U : U = L[4] \cup L[3] \cup L[2]
    OBVIOUS
  <2>2. \A u \in U : \A i \in Index : Link(m[u][i]) => m[u][i].frame \in Behind(m, Below(m, U))
    BY BehindBelow
  <2> QED
    BY <1>2, <2>1, <2>2
<1>6. \A k \in 1..3 : \A t \in L[k] :
        \E u \in L[k + 1], i \in Index : Link(m[u][i]) /\ m[u][i].frame = t
  <2> TAKE k \in 1..3
  <2> TAKE t \in L[k]
  <2>1. k + 1 \in 2..4 /\ (k + 1) - 1 = k
    OBVIOUS
  <2>2. L[k] = Behind(m, Below(m, L[k + 1]))
    BY <1>2, <2>1
  <2> QED
    BY <2>2, BehindBelow
(* Two links to the same table are one, whatever their levels.              *)
<1>7. \A k, l \in 2..4 : \A t \in L[k], u \in L[l] : \A i, j \in Index :
        Link(m[t][i]) /\ Link(m[u][j]) /\ m[t][i].frame = m[u][j].frame
          => t = u /\ i = j
  <2> TAKE k, l \in 2..4
  <2> TAKE t \in L[k], u \in L[l]
  <2> TAKE i, j \in Index
  <2> HAVE Link(m[t][i]) /\ Link(m[u][j]) /\ m[t][i].frame = m[u][j].frame
  <2>1. t \in L[4] \cup L[3] \cup L[2] /\ u \in L[4] \cup L[3] \cup L[2]
    <3>1. \A q \in 2..4 : q = 2 \/ q = 3 \/ q = 4
      OBVIOUS
    <3> QED
      BY <3>1
  <2>2. <<t, i>> \in Links(m) /\ <<u, j>> \in Links(m)
    BY <1>2, <2>1, BehindBelow
  <2>3. <<t, i>> = <<u, j>>
    BY <2>2, LoaderAssumption DEF m
  <2> QED
    BY <2>3
<1>8. \A k \in 1..3 : cr3 \notin L[k]
  <2> SUFFICES ASSUME NEW k \in 1..3, cr3 \in L[k] PROVE FALSE
    OBVIOUS
  <2>1. PICK u \in L[k + 1], i \in Index : Link(m[u][i]) /\ m[u][i].frame = cr3
    BY <1>6
  <2>2. u \in L[4] \cup L[3] \cup L[2]
    <3>1. k + 1 = 2 \/ k + 1 = 3 \/ k + 1 = 4
      OBVIOUS
    <3> QED
      BY <3>1
  <2>3. cr3 \in Behind(m, Links(m))
    BY <1>5b, <2>1, <2>2
  <2> QED
    BY <2>3, LoaderAssumption DEF m
<1>9. L[3] \cap L[2] = {} /\ L[3] \cap L[1] = {}
  <2> SUFFICES ASSUME NEW k \in 1..2, NEW t \in L[3], t \in L[k] PROVE FALSE
    BY DEF m
  <2>1. PICK i \in Index : Link(m[cr3][i]) /\ m[cr3][i].frame = t
    <3>1. PICK u \in L[3 + 1], i \in Index : Link(m[u][i]) /\ m[u][i].frame = t
      BY <1>6
    <3>2. u = cr3
      BY <1>2, <3>1
    <3> QED
      BY <3>1, <3>2
  <2>2. PICK u \in L[k + 1], j \in Index : Link(m[u][j]) /\ m[u][j].frame = t
    BY <1>6
  <2>3. k + 1 \in 2..4 /\ k + 1 \in 1..3 /\ cr3 \in L[4]
    BY <1>2
  <2>4. u = cr3
    BY <1>7, <2>1, <2>2, <2>3
  <2> QED
    BY <1>8, <2>3, <2>4
<1>10. L[2] \cap L[1] = {}
  <2> SUFFICES ASSUME NEW t \in L[2], t \in L[1] PROVE FALSE
    OBVIOUS
  <2>1. PICK u \in L[2 + 1], i \in Index : Link(m[u][i]) /\ m[u][i].frame = t
    BY <1>6
  <2>2. PICK w \in L[1 + 1], j \in Index : Link(m[w][j]) /\ m[w][j].frame = t
    BY <1>6
  <2>3. u \in L[3] /\ w \in L[2]
    BY <2>1, <2>2
  <2>4. u = w
    BY <1>7, <2>1, <2>2, <2>3
  <2> QED
    BY <1>9, <2>3, <2>4
<1>11. \A k, l \in 1..4 : \A t \in Frames : t \in L[k] /\ t \in L[l] => k = l
  <2>1. \A k \in 1..4 : k = 1 \/ k = 2 \/ k = 3 \/ k = 4
    OBVIOUS
  <2>2. cr3 \notin L[1] /\ cr3 \notin L[2] /\ cr3 \notin L[3]
    BY <1>8
  <2> QED
    BY <1>2, <1>9, <1>10, <2>1, <2>2
<1>12. \A k \in 1..4 : \A t \in L[k] : t \in Tables(m)
  <2> TAKE k \in 1..4
  <2> TAKE t \in L[k]
  <2>1. CASE k = 4
    BY <1>2, <2>1 DEF Tables
  <2>2. CASE k # 4
    <3>1. PICK u \in L[k + 1], i \in Index : Link(m[u][i]) /\ m[u][i].frame = t
      BY <1>6, <2>2
    <3>2. u \in L[4] \cup L[3] \cup L[2]
      <4>1. k + 1 = 2 \/ k + 1 = 3 \/ k + 1 = 4
        BY <2>2
      <4> QED
        BY <4>1
    <3>3. t \in Behind(m, Links(m))
      BY <1>5b, <3>1, <3>2
    <3> QED
      BY <3>3 DEF Tables
  <2> QED
    BY <2>1, <2>2
<1>13. /\ \A k \in 1..4 : L[k] \in SUBSET Frames /\ L[k] \cap BootFree = {}
  <2>1. Tables(m) \in SUBSET DOMAIN BootTables
    BY LoaderAssumption DEF m
  <2> QED
    BY <1>12, <2>1, PagingAssumption
<1>14. L \in [1..4 -> SUBSET Frames]
  BY <1>4, <1>13
<1>15. \A k \in 3..4 : \A t \in L[k], i \in Index : m[t][i].present => ~m[t][i].huge_page
  <2> TAKE k \in 3..4
  <2> TAKE t \in L[k], i \in Index
  <2>1. k = 3 \/ k = 4
    OBVIOUS
  <2>2. t \in {cr3} \cup Level3(m)
    BY <1>2, <1>3, <2>1
  <2> QED
    BY <2>2, LoaderAssumption DEF m
<1>16. \A k \in 2..4 : \A t, u \in L[k] : \A i, j \in Index :
         Link(m[t][i]) /\ Link(m[u][j]) /\ m[t][i].frame = m[u][j].frame
           => t = u /\ i = j
  BY <1>7
<1>17. Levelled(m, L)
  BY <1>1, <1>2, <1>5, <1>6, <1>11, <1>14, <1>15, <1>16 DEF Levelled
<1> QED
  BY <1>13, <1>17 DEF m, L, Apart

-----------------------------------------------------------------------------
LEMMA ExclusiveInv ==
  ASSUME PagingInv
  PROVE  TablesExclusive
<1> DEFINE L == Levels(mem)
           upper == L[4] \cup L[3] \cup L[2]
           links == Links(mem)
           behind == Behind(mem, links)
           leads == [e \in links |-> mem[e[1]][e[2]].frame]
<1>1. Levelled(mem, L) /\ Apart(L, free \cup held)
  BY DEF PagingInv
<1>2. links = Below(mem, upper)
  BY LevelsOf
<1> HIDE DEF L
<1>3. /\ L[4] = {cr3} /\ \A k \in 1..4 : L[k] \in SUBSET Frames
      /\ \A k, l \in 1..4 : \A t \in Frames : t \in L[k] /\ t \in L[l] => k = l
  BY <1>1 DEF Levelled
<1>4. \A t \in upper : \E k \in 2..4 : t \in L[k]
  OBVIOUS
<1> HIDE DEF upper
<1>5. \A e \in links : /\ e[1] \in upper /\ e[2] \in Index /\ e = <<e[1], e[2]>>
                       /\ Link(mem[e[1]][e[2]])
  BY <1>2, BehindBelow
<1>6. ASSUME NEW e \in links
      PROVE  \E k \in 2..4 : /\ e[1] \in L[k] /\ mem[e[1]][e[2]].frame \in L[k - 1]
                             /\ mem[e[1]][e[2]].frame \in Frames
                             /\ mem[e[1]][e[2]].frame # cr3
  <2>1. PICK k \in 2..4 : e[1] \in L[k]
    BY <1>4, <1>5
  <2>2. mem[e[1]][e[2]].frame \in L[k - 1]
    BY <1>1, <1>5, <2>1 DEF Levelled
  <2>3. k - 1 \in 1..4 /\ k - 1 # 4 /\ 4 \in 1..4 /\ cr3 \in Frames
    BY Constants
  <2>4. mem[e[1]][e[2]].frame \in Frames /\ mem[e[1]][e[2]].frame # cr3
    BY <1>3, <2>2, <2>3
  <2> QED
    BY <2>1, <2>2, <2>4
<1>7. ASSUME NEW e \in links, NEW f \in links,
             mem[e[1]][e[2]].frame = mem[f[1]][f[2]].frame
      PROVE  e = f
  <2>1. PICK k \in 2..4 : e[1] \in L[k] /\ mem[e[1]][e[2]].frame \in L[k - 1]
    BY <1>6
  <2>2. PICK l \in 2..4 : f[1] \in L[l] /\ mem[f[1]][f[2]].frame \in L[l - 1]
    BY <1>6
  <2>3. k = l
    <3>1. k - 1 \in 1..4 /\ l - 1 \in 1..4 /\ mem[e[1]][e[2]].frame \in Frames
      BY <1>6
    <3>2. k - 1 = l - 1
      BY <1>3, <1>7, <2>1, <2>2, <3>1
    <3> QED
      BY <3>2
  <2>4. e[1] = f[1] /\ e[2] = f[2]
    BY <1>1, <1>5, <1>7, <2>1, <2>2, <2>3 DEF Levelled
  <2> QED
    BY <1>5, <2>4
<1>8. behind \in SUBSET Frames /\ cr3 \notin behind
  BY <1>6 DEF Behind
<1>9. IsFiniteSet(behind)
  BY <1>8, PagingAssumption, FS_Subset
<1>10. leads \in Injection(links, behind) /\ leads \in Surjection(links, behind)
  BY <1>7 DEF Injection, Surjection, IsInjective, Behind
<1>11. IsFiniteSet(links) /\ Cardinality(links) = Cardinality(behind)
  <2> HIDE DEF leads, behind, links
  <2> QED
    BY <1>9, <1>10, FS_Injection
<1>12. Cardinality(Tables(mem)) = Cardinality(links) + 1
  <2>1. Tables(mem) = behind \cup {cr3}
    BY DEF Tables
  <2> HIDE DEF behind, links
  <2> QED
    BY <1>8, <1>9, <1>11, <2>1, FS_AddElement
<1>13. Tables(mem) \cap (free \cup held) = {}
  <2>1. ASSUME NEW t \in Tables(mem) PROVE \E k \in 1..4 : t \in L[k]
    <3>1. CASE t = cr3
      BY <1>3, <3>1
    <3>2. CASE t \in behind
      <4>1. PICK e \in links : t = mem[e[1]][e[2]].frame
        BY <3>2 DEF Behind
      <4>2. PICK k \in 2..4 : t \in L[k - 1]
        BY <1>6, <4>1
      <4>3. k - 1 \in 1..4
        OBVIOUS
      <4> QED
        BY <4>2, <4>3
    <3> QED
      BY <3>1, <3>2 DEF Tables
  <2> QED
    BY <1>1, <2>1 DEF Apart
<1> QED
  BY <1>12, <1>13 DEF TablesExclusive

-----------------------------------------------------------------------------
(* What a step does to the translation: one page changes, or the pages of   *)
(* one huge page go.                                                        *)
OnePage ==
  \E v \in Pages : \A u \in Pages : u # v => Walk(mem', u) = Walk(mem, u)
HugeGone ==
  \E b \in 0..(ENTRIES * ENTRIES * ENTRIES - 1) :
    /\ \A u \in HugeBlock(b) : Walk(mem', u) = NotMapped
    /\ \A u \in Pages : u \notin HugeBlock(b) => Walk(mem', u) = Walk(mem, u)

Kept == PagingInv' /\ (OnePage \/ HugeGone)

LEMMA FreeFrame ==
  ASSUME PagingInv, free # {}
  PROVE  Min(free) \in free /\ Min(free) \in Frames
<1>1. free \in SUBSET Frames /\ free \in SUBSET Nat
  BY Constants DEF PagingInv
<1> QED
  BY <1>1, MinOfNats

(* Writing a caller's frame touches no table.                               *)
LEMMA DataWrite ==
  ASSUME NEW m, NEW L, Levelled(m, L), NEW f \in Frames, \A k \in 1..4 : f \notin L[k],
         NEW n, n = [m EXCEPT ![f] = Data]
  PROVE  Levelled(n, L) /\ SameFor(m, n)
<1>1. m \in Memories /\ \A k \in 1..4 : L[k] \in SUBSET Frames
  BY DEF Levelled
<1>2. Data \in [Index -> Entry] /\ \A i \in Index : ~Data[i].huge_page
  BY Constants DEF Data, Points, Entry
<1>3. n[f] = Data /\ \A u \in Frames : u # f => n[u] = m[u]
  BY <1>1 DEF Memories
<1>4. n \in Memories
  <2>1. n \in [Frames -> [Index -> Entry]]
    BY <1>1, <1>2 DEF Memories
  <2>2. \A u \in Frames : \A i, j \in Index : n[u][i].huge_page => n[u][i].frame + j \in Frames
    BY <1>1, <1>2, <1>3 DEF Memories
  <2> QED
    BY <2>1, <2>2 DEF Memories
<1>5. \A k \in 1..4 : \A t \in L[k] : n[t] = m[t]
  BY <1>1, <1>3
<1>6. Levelled(n, L)
  <2>1. \A k \in 2..4 : \A t \in L[k], i \in Index :
          /\ Link(n[t][i]) <=> Link(m[t][i])
          /\ Link(n[t][i]) => n[t][i].frame = m[t][i].frame
    BY <1>5
  <2>2. \A k \in 3..4 : \A t \in L[k], i \in Index : n[t][i].present => ~n[t][i].huge_page
    BY <1>5 DEF Levelled
  <2>3. AgreeOnLinks(m, n, L)
    BY <2>1, <2>2 DEF AgreeOnLinks
  <2> QED
    BY <1>4, <2>3, SameLinks
<1>7. SameFor(m, n)
  <2> SUFFICES ASSUME NEW u \in Pages
               PROVE  Walk(n, u) = Walk(m, u) /\ InHuge(n, u) = InHuge(m, u)
    BY DEF SameFor
  <2>1. AgreeOnWay(m, n, u)
    BY <1>5, WayIsLevelled DEF AgreeOnWay
  <2> QED
    BY <2>1, SameWay
<1> QED
  BY <1>6, <1>7

LEMMA AllocKeeps ==
  ASSUME PagingInv, phys_alloc_page
  PROVE  Kept
<1>1. CASE free = {}
  <2>1. UNCHANGED <<mem, free, held>> /\ halted' = TRUE
    BY <1>1 DEF phys_alloc_page
  <2> QED
    BY <2>1, Constants DEF PagingInv, Kept, OnePage
<1>2. CASE free # {}
  <2> DEFINE f == Min(free)
  <2>1. f \in free /\ f \in Frames
    BY <1>2, FreeFrame
  <2>2. /\ free' = free \ {f} /\ held' = held \cup {f}
        /\ mem' = [mem EXCEPT ![f] = Data] /\ UNCHANGED halted
    BY <1>2 DEF phys_alloc_page
  <2> HIDE DEF f
  <2>3. Levelled(mem, Levels(mem)) /\ \A k \in 1..4 : f \notin Levels(mem)[k]
    BY <2>1 DEF PagingInv, Apart
  <2>4. Levelled(mem', Levels(mem)) /\ SameFor(mem, mem')
    BY <2>1, <2>2, <2>3, DataWrite
  <2>5. Levels(mem') = Levels(mem)
    BY <2>4, LevelsUnique
  <2>6. Apart(Levels(mem), free' \cup held')
    BY <2>1, <2>2, <2>3 DEF PagingInv, Apart
  <2>7. ~InHuge(mem', HEAP_BASE) /\ \A u \in Pages : Walk(mem', u) = Walk(mem, u)
    BY <2>4, Constants DEF PagingInv, SameFor
  <2>8. PagingInv'
    BY <2>1, <2>2, <2>4, <2>5, <2>6, <2>7 DEF PagingInv
  <2> QED
    BY <2>7, <2>8, Constants DEF Kept, OnePage
<1> QED
  BY <1>1, <1>2

LEMMA MapKeeps ==
  ASSUME PagingInv, ~MapsInHuge, NEW v \in MapPages, NEW p \in held, map_page(v, p)
  PROVE  Kept /\ (halted' \/ Walk(mem', v) = p)
<1>1. v \in Pages /\ p \in Frames /\ ~InHuge(mem, v)
  BY Constants DEF PagingInv, map_page
<1>2. PICK r : r = Mapped(Start, v, p)
  OBVIOUS
<1>3. mem' = r.mem /\ free' = r.free /\ halted' = ~r.ok /\ UNCHANGED held
  BY <1>2 DEF map_page, Becomes
<1>4. /\ Start.mem = mem /\ Start.free = free /\ Start.ok /\ Start.table = cr3
      /\ Start \in Walker
  BY Constants DEF Start, Walker, PagingInv, Levelled
<1>5. Walked(Start, held, v, 4)
  BY <1>4 DEF Walked, PagingInv, OnWay
<1> HIDE DEF Start
<1>6. /\ r \in Walker /\ r.free \in SUBSET free
      /\ \E L : Levelled(r.mem, L) /\ Apart(L, r.free \cup held)
      /\ \A u \in Pages : InHuge(r.mem, u) = InHuge(mem, u)
      /\ \A u \in Pages : u # v => Walk(r.mem, u) = Walk(mem, u)
      /\ Walk(r.mem, v) = IF r.ok THEN p ELSE Walk(mem, v)
  <2>1. PICK s, x : s = Start /\ x = held
    OBVIOUS
  <2>2. x \in SUBSET Frames /\ s.free \cap x = {} /\ ~InHuge(s.mem, v)
    BY <1>1, <1>4, <2>1 DEF PagingInv
  <2>3. Walked(s, x, v, 4) /\ r = Mapped(s, v, p)
    BY <1>2, <1>5, <2>1
  <2>4. MapsPage(s, r, x, v, p)
    BY <1>1, <2>2, <2>3, MappedWalks, Zenon
  <2> QED
    BY <1>4, <2>1, <2>4 DEF MapsPage
<1>7. Levelled(mem', Levels(mem')) /\ Apart(Levels(mem'), free' \cup held')
  BY <1>3, <1>6, LevelsUnique
<1>8. PagingInv'
  BY <1>3, <1>6, <1>7, Constants DEF PagingInv, Walker
<1>9. OnePage
  BY <1>1, <1>3, <1>6 DEF OnePage
<1> QED
  BY <1>3, <1>6, <1>8, <1>9 DEF Kept, Walker

LEMMA RequestKeeps ==
  ASSUME PagingInv, heap_request_page
  PROVE  Kept
<1>1. CASE free = {}
  <2>1. UNCHANGED <<mem, free, held>> /\ halted' = TRUE
    BY <1>1 DEF heap_request_page
  <2> QED
    BY <2>1, Constants DEF PagingInv, Kept, OnePage
<1>2. CASE free # {}
  <2>1. PICK f : f = Min(free)
    OBVIOUS
  <2>2. f \in free /\ f \in Frames
    BY <1>2, <2>1, FreeFrame
  <2>3. PICK s : s = [Start EXCEPT !.free = @ \ {f}, !.mem[f] = Data]
    OBVIOUS
  <2>4. PICK r : r = Mapped(s, HEAP_BASE, f)
    OBVIOUS
  <2>5. mem' = r.mem /\ free' = r.free /\ halted' = ~r.ok /\ held' = held \cup {f}
    BY <1>2, <2>1, <2>3, <2>4 DEF heap_request_page, Becomes
  <2>6. PICK n : n = [mem EXCEPT ![f] = Data]
    OBVIOUS
  <2>7. s = [mem |-> n, free |-> free \ {f}, table |-> cr3, ok |-> TRUE]
    BY <2>3, <2>6 DEF Start
  <2>8. Levelled(mem, Levels(mem)) /\ \A k \in 1..4 : f \notin Levels(mem)[k]
    BY <2>2 DEF PagingInv, Apart
  <2>9. Levelled(n, Levels(mem)) /\ SameFor(mem, n)
    BY <2>2, <2>6, <2>8, DataWrite
  <2>10. PICK x : x = held \cup {f}
    OBVIOUS
  <2>11. /\ s.mem = n /\ s.free = free \ {f} /\ s.ok /\ s.table = cr3
         /\ s \in Walker
    BY <2>7, <2>9, Constants DEF Walker, PagingInv, Levelled
  <2>12. x \in SUBSET Frames /\ s.free \cap x = {} /\ ~InHuge(s.mem, HEAP_BASE)
    BY <2>2, <2>9, <2>10, <2>11, Constants DEF PagingInv, SameFor
  <2>13. Walked(s, x, HEAP_BASE, 4)
    <3>1. Apart(Levels(mem), s.free \cup x)
      BY <2>2, <2>10, <2>11 DEF PagingInv, Apart
    <3>2. OnWay(s.mem, HEAP_BASE, 4, s.table)
      BY <2>11 DEF OnWay
    <3> QED
      BY <2>9, <2>11, <3>1, <3>2 DEF Walked
  <2>14. MapsPage(s, r, x, HEAP_BASE, f)
    BY <2>2, <2>4, <2>12, <2>13, Constants, MappedWalks, Zenon
  <2>15. /\ r.free \in SUBSET (free \ {f})
         /\ r.ok \in BOOLEAN
         /\ \E L : Levelled(r.mem, L) /\ Apart(L, r.free \cup (held \cup {f}))
         /\ ~InHuge(r.mem, HEAP_BASE)
         /\ \A u \in Pages : u # HEAP_BASE => Walk(r.mem, u) = Walk(mem, u)
    BY <2>9, <2>10, <2>11, <2>12, <2>14, Constants DEF MapsPage, SameFor, Walker
  <2>16. Levelled(mem', Levels(mem')) /\ Apart(Levels(mem'), free' \cup held')
    BY <2>5, <2>15, LevelsUnique
  <2>17. PagingInv'
    BY <2>2, <2>5, <2>15, <2>16 DEF PagingInv
  <2> QED
    BY <2>5, <2>15, <2>17, Constants DEF Kept, OnePage
<1> QED
  BY <1>1, <1>2

(* unmap_page of a page in no huge page clears one entry of a last table.   *)
LEMMA LeafUnmapKeeps ==
  ASSUME PagingInv, NEW v \in UnmapPages, unmap_page(v), HasE2(mem, v), ~InHuge(mem, v)
  PROVE  Kept
<1>1. PICK t : t = E2(mem, v).frame
  OBVIOUS
<1>2. v \in Pages /\ Levelled(mem, Levels(mem)) /\ OnWay(mem, v, 1, t)
  BY <1>1, Constants DEF PagingInv, OnWay
<1>3. t \in Frames /\ p1_idx(v) \in Index /\ mem \in Memories
  <2>1. 1 \in 1..4
    OBVIOUS
  <2>2. PICK L : L = Levels(mem)
    OBVIOUS
  <2>3. t \in Frames
    BY <1>2, <2>1, <2>2, WayIsLevelled, Zenon
  <2> QED
    BY <1>2, <2>3, Digits DEF Levelled
<1>4. PICK e : e = [mem[t][p1_idx(v)] EXCEPT !.present = FALSE]
  OBVIOUS
<1>5. /\ mem[t][p1_idx(v)] \in Entry
      /\ InMemory(mem[t][p1_idx(v)])
  BY <1>3, EntryFacts DEF Memories, InMemory
<1>6. e \in Entry /\ InMemory(e)
  BY <1>4, <1>5 DEF Entry, InMemory
<1>7. mem' = [mem EXCEPT ![t][p1_idx(v)] = e]
  <2>1. mem' = [mem EXCEPT ![E2(mem, v).frame][p1_idx(v)].present = FALSE]
    BY DEF unmap_page
  <2>2. mem' = [mem EXCEPT ![t][p1_idx(v)].present = FALSE]
    BY <1>1, <2>1
  <2> QED
    BY <1>4, <2>2
<1>8. PICK n : n = [mem EXCEPT ![t][p1_idx(v)] = e]
  OBVIOUS
<1>9. /\ Levelled(n, Levels(mem))
      /\ \A u \in Pages : InHuge(n, u) = InHuge(mem, u)
      /\ \A u \in Pages : u # v => Walk(n, u) = Walk(mem, u)
  <2>1. PICK L : L = Levels(mem)
    OBVIOUS
  <2>2. LeafChanges(mem, n, L, v, e)
    BY <1>2, <1>6, <1>8, <2>1, LeafWalks, Zenon
  <2> QED
    BY <2>1, <2>2 DEF LeafChanges
<1>10. mem' = n /\ UNCHANGED <<free, held, halted>>
  BY <1>7, <1>8 DEF unmap_page
<1>11. Levels(mem') = Levels(mem)
  BY <1>9, <1>10, LevelsUnique
<1>12. PagingInv'
  BY <1>9, <1>10, <1>11, Constants DEF PagingInv
<1> QED
  BY <1>2, <1>9, <1>10, <1>12 DEF Kept, OnePage

(* A huge page covers pages, and every page belongs to one.                 *)
LEMMA BlockInPages ==
  ASSUME NEW b \in 0..(ENTRIES * ENTRIES * ENTRIES - 1)
  PROVE  HugeBlock(b) \in SUBSET Pages
<1>1. PICK c \in Nat \ {0} : c = ENTRIES * ENTRIES * ENTRIES
  BY Constants
<1>2. Pages = 0..(c * ENTRIES - 1) /\ c * ENTRIES \in Nat
  BY <1>1, Constants DEF Pages
<1>3. b \in Nat /\ b < c
  BY <1>1
<1>4. b * ENTRIES + ENTRIES <= c * ENTRIES /\ b * ENTRIES \in Nat
  BY <1>3, Constants, Monotone
<1> QED
  BY <1>2, <1>4, Constants DEF HugeBlock

LEMMA BlockOfPage ==
  ASSUME NEW v \in Pages
  PROVE  v \div ENTRIES \in 0..(ENTRIES * ENTRIES * ENTRIES - 1)
<1>1. PICK b \in Nat : b = v \div ENTRIES
  BY Digits
<1>2. PICK c \in Nat \ {0} : c = ENTRIES * ENTRIES * ENTRIES
  BY Constants
<1>3. Pages = 0..(c * ENTRIES - 1) /\ c * ENTRIES \in Nat
  BY <1>2, Constants DEF Pages
<1>4. b * ENTRIES \in Nat /\ b * ENTRIES <= v /\ v \in Nat /\ v < c * ENTRIES
  <2>1. v = b * ENTRIES + p1_idx(v) /\ p1_idx(v) \in Nat
    BY <1>1, Digits, Constants DEF Index
  <2> QED
    BY <1>1, <1>3, <2>1, Constants
<1>5. b < c
  <2> SUFFICES ASSUME c <= b PROVE FALSE
    BY <1>1, <1>2
  <2>1. CASE b = c
    BY <1>4, <2>1
  <2>2. CASE c < b
    <3>1. c * ENTRIES + ENTRIES <= b * ENTRIES
      BY <1>1, <1>2, <2>2, Constants, Monotone
    <3> QED
      BY <1>3, <1>4, <3>1, Constants
  <2> QED
    BY <1>1, <1>2, <2>1, <2>2
<1> QED
  BY <1>1, <1>2, <1>5

(* unmap_page of a page in a huge page takes all pages of it away, and no   *)
(* other.                                                                   *)
LEMMA HugeUnmapKeeps ==
  ASSUME PagingInv, NEW v \in UnmapPages, unmap_page(v), InHuge(mem, v)
  PROVE  Kept
<1>1. PICK t : t = E3(mem, v).frame
  OBVIOUS
<1>2. PICK i : i = p2_idx(v)
  OBVIOUS
<1>3. PICK L : L = Levels(mem)
  OBVIOUS
<1>4. v \in Pages /\ Levelled(mem, L) /\ OnWay(mem, v, 2, t) /\ HasE2(mem, v)
  BY <1>1, <1>3, Constants DEF PagingInv, OnWay, InHuge, HasE2
<1>5. t \in L[2] /\ t \in Frames
  <2>1. 2 \in 1..4
    OBVIOUS
  <2> QED
    BY <1>4, <2>1, WayIsLevelled, Zenon
<1>6. i \in Index /\ mem \in Memories /\ \A k \in 1..4 : L[k] \in SUBSET Frames
  BY <1>2, <1>4, Digits DEF Levelled
<1>7. mem[t][i] \in Entry /\ mem[t][i].huge_page
  BY <1>1, <1>2, <1>5, <1>6, EntryFacts DEF InHuge, E2
<1>8. PICK e : e = [mem[t][i] EXCEPT !.present = FALSE]
  OBVIOUS
<1>9. e \in Entry /\ ~e.present /\ InMemory(e)
  BY <1>5, <1>6, <1>7, <1>8 DEF Entry, InMemory, Memories
<1>10. PICK n : n = [mem EXCEPT ![t][i] = e]
  OBVIOUS
<1>11. /\ n[t][i] = e /\ n \in [Frames -> [Index -> Entry]]
       /\ \A f \in Frames : \A j \in Index : ~(f = t /\ j = i) => n[f][j] = mem[f][j]
  BY <1>5, <1>6, <1>9, <1>10 DEF Memories
<1>12. mem' = n /\ UNCHANGED <<free, held, halted>>
  <2>1. mem' = [mem EXCEPT ![E3(mem, v).frame][p2_idx(v)].present = FALSE]
    BY <1>4 DEF unmap_page
  <2>2. mem' = [mem EXCEPT ![t][i].present = FALSE]
    BY <1>1, <1>2, <2>1
  <2>3. mem' = n
    BY <1>8, <1>10, <2>2
  <2> QED
    BY <2>3 DEF unmap_page
<1>13. n \in Memories
  <2> SUFFICES ASSUME NEW f \in Frames, NEW j \in Index, NEW l \in Index, n[f][j].huge_page
               PROVE  n[f][j].frame + l \in Frames
    BY <1>11 DEF Memories
  <2>1. CASE f = t /\ j = i
    BY <1>9, <1>11, <2>1 DEF InMemory
  <2>2. CASE ~(f = t /\ j = i)
    BY <1>6, <1>11, <2>2 DEF Memories
  <2> QED
    BY <2>1, <2>2
<1>14. Levelled(n, L)
  <2>1. ASSUME NEW k \in 2..4, NEW w \in L[k], NEW j \in Index
        PROVE  (w = t /\ j = i /\ k = 2) \/ n[w][j] = mem[w][j]
    <3>1. w \in Frames /\ k \in 1..4 /\ 2 \in 1..4
      BY <1>6
    <3>2. w = t => k = 2
      BY <1>4, <1>5, <3>1 DEF Levelled
    <3> QED
      BY <1>11, <3>1, <3>2
  <2>2. ~Link(mem[t][i]) /\ ~Link(n[t][i])
    BY <1>7, <1>9, <1>11 DEF Link
  <2>3. \A k \in 2..4 : \A w \in L[k], j \in Index :
          /\ Link(n[w][j]) <=> Link(mem[w][j])
          /\ Link(n[w][j]) => n[w][j].frame = mem[w][j].frame
    BY <2>1, <2>2
  <2>4. \A k \in 3..4 : \A w \in L[k], j \in Index : n[w][j].present => ~n[w][j].huge_page
    <3> TAKE k \in 3..4
    <3> TAKE w \in L[k], j \in Index
    <3>1. n[w][j] = mem[w][j]
      BY <2>1
    <3> QED
      BY <1>4, <3>1 DEF Levelled
  <2>5. AgreeOnLinks(mem, n, L)
    BY <2>3, <2>4 DEF AgreeOnLinks
  <2> QED
    BY <1>4, <1>13, <2>5, SameLinks
<1>15. PICK b : b = v \div ENTRIES
  OBVIOUS
(* The pages of the huge page are those whose walk comes to the entry.      *)
<1>16. ASSUME NEW u \in Pages, OnWay(mem, u, 2, t), p2_idx(u) = i
       PROVE  u \div ENTRIES = b
  <2>1. 2 \in 1..3
    OBVIOUS
  <2>2. \A l \in 1..4 : 2 < l => Digit(u, l) = Digit(v, l)
    BY <1>4, <1>16, <2>1, SameTable, Zenon
  <2>3. p4_idx(u) = p4_idx(v) /\ p3_idx(u) = p3_idx(v)
    BY <2>2 DEF Digit
  <2> QED
    BY <1>2, <1>4, <1>15, <1>16, <2>3, Digits
<1>17. ASSUME NEW u \in Pages, ~(OnWay(mem, u, 2, t) /\ p2_idx(u) = i)
       PROVE  Walk(n, u) = Walk(mem, u) /\ InHuge(n, u) = InHuge(mem, u)
  <2>1. ASSUME NEW k \in 1..4, NEW w, OnWay(mem, u, k, w)
        PROVE  n[w][Digit(u, k)] = mem[w][Digit(u, k)]
    <3>1. w \in L[k] /\ w \in Frames
      BY <1>4, <2>1, WayIsLevelled, Zenon
    <3>2. w = t => k = 2
      BY <1>4, <1>5, <3>1 DEF Levelled
    <3>3. Digit(u, k) \in Index
      BY Digits DEF Digit
    <3>4. ~(w = t /\ Digit(u, k) = i)
      BY <1>17, <2>1, <3>2 DEF Digit
    <3> QED
      BY <1>11, <3>1, <3>3, <3>4
  <2>2. AgreeOnWay(mem, n, u)
    BY <2>1 DEF AgreeOnWay
  <2> QED
    BY <2>2, SameWay
<1>18. ASSUME NEW u \in Pages, OnWay(mem, u, 2, t), p2_idx(u) = i
       PROVE  Walk(n, u) = NotMapped /\ ~InHuge(n, u)
  <2>1. E4(mem, u).present /\ E3(mem, u).present /\ t = E3(mem, u).frame
    BY <1>18 DEF OnWay
  <2>2. /\ p4_idx(u) \in Index /\ p3_idx(u) \in Index
    BY Digits
  <2>3. E4(n, u) = E4(mem, u)
    <3>1. cr3 # t
      BY <1>4, <1>5, <1>6, Constants DEF Levelled
    <3> QED
      BY <1>11, <2>2, <3>1, Constants DEF E4
  <2>4. E3(n, u) = E3(mem, u)
    <3>1. OnWay(mem, u, 3, E4(mem, u).frame) /\ 3 \in 1..4
      BY <2>1 DEF OnWay
    <3>2. E4(mem, u).frame \in L[3] /\ E4(mem, u).frame \in Frames
      BY <1>4, <3>1, WayIsLevelled, Zenon
    <3>3. E4(mem, u).frame # t
      BY <1>4, <1>5, <3>2 DEF Levelled
    <3> QED
      BY <1>11, <2>2, <2>3, <3>2, <3>3 DEF E3
  <2>5. E2(n, u) = e
    BY <1>11, <1>18, <2>1, <2>4 DEF E2
  <2>6. ~HasE2(n, u)
    BY <1>9, <2>5 DEF HasE2
  <2> QED
    BY <2>6 DEF Walk, InHuge, HasE1
<1>19. \A u \in Pages : u \div ENTRIES = b => OnWay(mem, u, 2, t) /\ p2_idx(u) = i
  <2> SUFFICES ASSUME NEW u \in Pages, u \div ENTRIES = b
               PROVE  OnWay(mem, u, 2, t) /\ p2_idx(u) = i
    OBVIOUS
  <2>1. p4_idx(u) = p4_idx(v) /\ p3_idx(u) = p3_idx(v) /\ p2_idx(u) = p2_idx(v)
    BY <1>4, <1>15, SameDigits
  <2>2. E4(mem, u) = E4(mem, v) /\ E3(mem, u) = E3(mem, v)
    BY <2>1 DEF E4, E3
  <2> QED
    BY <1>2, <1>4, <2>1, <2>2 DEF OnWay
<1>20. PagingInv'
  <2>1. ~InHuge(n, HEAP_BASE)
    BY <1>17, <1>18, Constants DEF PagingInv
  <2>2. Levels(mem') = L
    BY <1>12, <1>14, LevelsUnique
  <2> QED
    BY <1>3, <1>12, <1>14, <2>1, <2>2 DEF PagingInv
<1>21. HugeGone
  <2>1. b \in 0..(ENTRIES * ENTRIES * ENTRIES - 1) /\ HugeBlock(b) \in SUBSET Pages
    BY <1>4, <1>15, BlockOfPage, BlockInPages
  <2>2. b \in Nat
    BY <1>4, <1>15, Digits
  <2>3. \A u \in Pages : u \in HugeBlock(b) <=> OnWay(mem, u, 2, t) /\ p2_idx(u) = i
    BY <1>16, <1>19, <2>2, SameBlock
  <2>4. /\ \A u \in HugeBlock(b) : Walk(n, u) = NotMapped
        /\ \A u \in Pages : u \notin HugeBlock(b) => Walk(n, u) = Walk(mem, u)
    BY <1>17, <1>18, <2>1, <2>3
  <2> QED
    BY <1>12, <2>1, <2>4 DEF HugeGone
<1> QED
  BY <1>20, <1>21 DEF Kept

LEMMA UnmapKeeps ==
  ASSUME PagingInv, NEW v \in UnmapPages, unmap_page(v)
  PROVE  Kept
<1>1. CASE ~HasE2(mem, v)
  <2>1. UNCHANGED <<mem, free, held, halted>>
    BY <1>1 DEF unmap_page, InHuge
  <2> QED
    BY <2>1, Constants DEF PagingInv, Kept, OnePage
<1>2. CASE HasE2(mem, v)
  BY <1>2, LeafUnmapKeeps, HugeUnmapKeeps
<1> QED
  BY <1>1, <1>2

LEMMA StepKeeps ==
  ASSUME ~MapsInHuge, PagingInv, [Next]_vars
  PROVE  Kept
<1>1. CASE phys_alloc_page
  BY <1>1, AllocKeeps
<1>2. ASSUME NEW v \in MapPages, NEW p \in held, map_page(v, p) PROVE Kept
  BY <1>2, MapKeeps
<1>3. ASSUME NEW v \in UnmapPages, unmap_page(v) PROVE Kept
  BY <1>3, UnmapKeeps
<1>4. CASE heap_request_page
  BY <1>4, RequestKeeps
<1>5. ASSUME NEW v \in CachedPages, Access(v) PROVE Kept
  <2>1. UNCHANGED <<mem, free, held, halted>>
    BY <1>5 DEF Access
  <2> QED
    BY <2>1, Constants DEF PagingInv, Kept, OnePage
<1>6. CASE UNCHANGED vars
  BY <1>6, Constants DEF PagingInv, Kept, OnePage, vars
<1> QED
  BY <1>1, <1>2, <1>3, <1>4, <1>5, <1>6 DEF Next

LEMMA InitInv == Init => PagingInv
<1> SUFFICES ASSUME Init PROVE PagingInv
  OBVIOUS
<1>1. mem = BootMemory /\ free = BootFree /\ held = {} /\ halted = FALSE
  BY DEF Init
<1>2. Levelled(mem, Levels(mem)) /\ Apart(Levels(mem), free)
  BY <1>1, BootLevelled
<1>3. free \cup held = free
  BY <1>1
<1>4. Apart(Levels(mem), free \cup held)
  BY <1>2, <1>3
<1>5. free \in SUBSET Frames /\ ~InHuge(mem, HEAP_BASE)
  BY <1>1, PagingAssumption, LoaderAssumption
<1> QED
  BY <1>1, <1>2, <1>4, <1>5 DEF PagingInv

LEMMA InvariantHolds == ASSUME ~MapsInHuge PROVE Spec => []PagingInv
<1>1. PagingInv /\ [Next]_vars => PagingInv'
  BY StepKeeps DEF Kept
<1> QED
  BY <1>1, InitInv, PTL DEF Spec

-----------------------------------------------------------------------------
(* get_table: the tables form a tree, each with one entry leading to it,    *)
(* and no table is a frame the allocator or one of its callers has.         *)
THEOREM TreeOfTables ==
  ASSUME ~MapsInHuge PROVE Spec => []TablesExclusive
<1>1. PagingInv => TablesExclusive
  BY ExclusiveInv
<1> QED
  BY <1>1, InvariantHolds, PTL

(* map_page: the CPU finds the page where it was mapped as soon as the call *)
(* has returned.                                                            *)
THEOREM MapReachesTable ==
  ASSUME ~MapsInHuge PROVE Spec => MapTakesEffect
<1>1. PagingInv /\ [Next]_vars
        => [\A v \in MapPages : \A p \in held : map_page(v, p) => halted' \/ Walk(mem', v) = p]_vars
  BY MapKeeps
<1> QED
  BY <1>1, InvariantHolds, PTL DEF Spec, MapTakesEffect

(* The page tables implement the address space of PageMap: no call changes  *)
(* the translation of a page it was not asked about, but that unmapping in  *)
(* a huge page takes all of it away.                                        *)
LEMMA WalkFindsMemory ==
  ASSUME PagingInv, NEW v \in Pages
  PROVE  Walk(mem, v) \in Frames \cup {NotMapped}
<1>1. PICK L : L = Levels(mem)
  OBVIOUS
<1>2. Levelled(mem, L) /\ mem \in Memories
  BY <1>1 DEF PagingInv, Levelled
<1>3. p2_idx(v) \in Index /\ p1_idx(v) \in Index
  BY Digits
<1>4. CASE InHuge(mem, v)
  <2>1. OnWay(mem, v, 2, E3(mem, v).frame) /\ 2 \in 1..4
    BY <1>4 DEF OnWay, InHuge, HasE2
  <2>2. E3(mem, v).frame \in Frames
    BY <1>2, <2>1, WayIsLevelled, Zenon
  <2>3. E2(mem, v).frame + p1_idx(v) \in Frames
    BY <1>2, <1>3, <1>4, <2>2 DEF Memories, E2, InHuge
  <2> QED
    BY <1>4, <2>3 DEF Walk, HasE1, InHuge
<1>5. CASE HasE1(mem, v)
  <2>1. OnWay(mem, v, 1, E2(mem, v).frame) /\ 1 \in 1..4
    BY <1>5 DEF OnWay, HasE1, InHuge
  <2>2. E2(mem, v).frame \in Frames
    BY <1>2, <2>1, WayIsLevelled, Zenon
  <2>3. E1(mem, v).frame \in Frames
    BY <1>2, <1>3, <2>2, EntryFacts DEF E1
  <2> QED
    BY <1>5, <2>3 DEF Walk, HasE1, InHuge
<1> QED
  BY <1>4, <1>5 DEF Walk

THEOREM TablesImplementMap ==
  ASSUME ~MapsInHuge PROVE Spec => TranslationRefines
<1> DEFINE trans == [v \in Pages |-> Walk(mem, v)]
<1>1. PagingInv => trans \in [Pages -> Frames \cup {NotMapped}]
  BY WalkFindsMemory
<1>1p. (PagingInv => trans \in [Pages -> Frames \cup {NotMapped}])'
  BY <1>1, PTL
<1>2. Init => Map!MapInit
  BY <1>1, InitInv DEF Map!MapInit, Map!AddressSpaces
<1>3. PagingInv /\ PagingInv' /\ [Next]_vars => [Map!MapNext]_trans
  <2> SUFFICES ASSUME PagingInv, PagingInv', [Next]_vars PROVE Map!MapNext
    OBVIOUS
  <2>1. trans' \in Map!AddressSpaces
    BY <1>1p DEF Map!AddressSpaces
  <2>2. \A u \in Pages : trans[u] = Walk(mem, u) /\ trans'[u] = Walk(mem', u)
    OBVIOUS
  <2>3. OnePage \/ HugeGone
    BY StepKeeps DEF Kept
  <2>4. CASE OnePage
    <3>1. PICK v \in Pages : \A u \in Pages : u # v => Walk(mem', u) = Walk(mem, u)
      BY <2>4 DEF OnePage
    <3>2. Map!Changed \in SUBSET {v}
      BY <3>1 DEF Map!Changed
    <3>3. Map!MapOrUnmap
      BY <3>2 DEF Map!MapOrUnmap
    <3> QED
      BY <2>1, <3>3 DEF Map!MapNext
  <2>5. CASE HugeGone
    <3>1. PICK b \in 0..(ENTRIES * ENTRIES * ENTRIES - 1) :
            /\ \A u \in HugeBlock(b) : Walk(mem', u) = NotMapped
            /\ \A u \in Pages : u \notin HugeBlock(b) => Walk(mem', u) = Walk(mem, u)
      BY <2>5 DEF HugeGone
    <3>2. HugeBlock(b) \in SUBSET Pages
      BY BlockInPages
    <3>3. Map!UnmapHuge
      BY <3>1, <3>2 DEF Map!UnmapHuge, Map!Changed
    <3> QED
      BY <2>1, <3>3 DEF Map!MapNext
  <2> QED
    BY <2>3, <2>4, <2>5
<1> QED
  BY <1>2, <1>3, InvariantHolds, PTL DEF Spec, TranslationRefines, Map!MapSpec
==============================================================================

----------------------------- MODULE FatVolume ------------------------------
(***************************************************************************)
(* The boot partition as the x86 loader reads it on BIOS machines          *)
(* (contrib/simpleboot/src/loader_x86.c, bios_nextclu, bios_open and       *)
(* bios_read).  A volume has a FAT and the contents of its clusters; all   *)
(* operators are functions of the volume.                                  *)
(*                                                                         *)
(* A name is a sequence of characters, a path a sequence of names.  A      *)
(* cluster holds the entries of a directory or bytes of a file.            *)
(***************************************************************************)
EXTENDS Integers, SequencesExt, FiniteSetsExt

CONSTANTS
  spc,           \* sectors per cluster
  SectorBytes,   \* bytes in a sector (512)
  SectorSlots,   \* directory entries in a sector (16)
  LastCluster,   \* the partition's last cluster
  Spare,         \* clusters the FAT describes beyond it
  Lower,         \* lower case letters
  UpperOf        \* their upper case letters

ASSUME FatVolumeAssumption ==
  /\ {spc, SectorBytes, SectorSlots, LastCluster} \subseteq Nat \ {0}
  /\ Spare \in Nat
  /\ DOMAIN UpperOf = Lower

Root         == 2                       \* bpb->rc
Clusters     == 2..(LastCluster + Spare)
EOC          == LastCluster + Spare + 1 \* 0x0FFFFFFF
ClusterBytes == spc * SectorBytes
ClusterSlots == spc * SectorSlots

(* Directory entries, 32 bytes each.  An entry with a long name follows    *)
(* the lfn slots that hold the name, numbered downwards to 1.              *)
Slot(kind, name, ord, clu, size) ==
  [kind |-> kind, name |-> name, ord |-> ord, clu |-> clu, size |-> size]
Blank == Slot("blank", <<>>, 0, 0, 0)
Stale == Slot("stale", <<>>, 0, 0, 0)   \* file data read as an entry

Zeros            == [kind |-> "zero", cells |-> <<>>]
DirBlock(slots)  == [kind |-> "dir", cells |-> slots]
DataBlock(bytes) == [kind |-> "data", cells |-> bytes]

SlotsIn(block) ==
  CASE block.kind = "dir"  -> block.cells
    [] block.kind = "zero" -> [i \in 1..ClusterSlots |-> Blank]
    [] block.kind = "data" -> [i \in 1..ClusterSlots |-> Stale]

BytesIn(block) ==
  IF block.kind = "data" THEN block.cells ELSE [i \in 1..ClusterBytes |-> 0]

Upper(name) == [i \in DOMAIN name |-> IF name[i] \in Lower THEN UpperOf[name[i]] ELSE name[i]]

-----------------------------------------------------------------------------
(* The clusters from clu on, as long as the FAT leads to one below limit.  *)
Chain(fat, clu, limit) ==
  LET next(c) == IF c \in Clusters /\ fat[c] \in 2..(limit - 1) THEN fat[c] ELSE 0
      walk[n \in Nat, c \in 0..EOC] ==
        IF n = 0 \/ c = 0 THEN <<>> ELSE <<c>> \o walk[n - 1, next(c)]
  IN  IF clu \in Clusters THEN walk[EOC, clu] ELSE <<>>

(* bios_nextclu: 0 stands for no cluster.                                  *)
bios_nextclu(vol, clu) ==
  IF clu \in Clusters /\ vol.fat[clu] \in 2..(EOC - 1) THEN vol.fat[clu] ELSE 0

(* The entries of a directory up to the first blank one.                   *)
EntriesOf(vol, chain) ==
  LET all   == FlattenSeq([i \in DOMAIN chain |-> SlotsIn(vol.data[chain[i]])])
      blank == {i \in DOMAIN all : all[i] = Blank}
  IN  IF blank = {} THEN all ELSE SubSeq(all, 1, Min(blank) - 1)

NameAt(slots, i) ==
  IF i > 1 /\ slots[i - 1].kind = "lfn" /\ slots[i - 1].ord = 1
  THEN slots[i - 1].name ELSE slots[i].name

(* The comparison in bios_open ends where the entry's name ends, without   *)
(* looking whether the wanted name ends there too.                         *)
NameMatches(entryName, wanted) == IsPrefix(Upper(entryName), Upper(wanted))

NoFile == [clu |-> 0, size |-> 0]

(* bios_open for one component in the directory dir: the directory to go   *)
(* on in, a file, or nothing.                                              *)
Component(vol, dir, wanted, last) ==
  LET slots == EntriesOf(vol, Chain(vol.fat, dir, EOC))
      hits  == {i \in DOMAIN slots : /\ slots[i].kind \in {"file", "dir"}
                                     /\ NameMatches(NameAt(slots, i), wanted)}
      hit   == slots[Min(hits)]
  IN  CASE hits = {} -> NoFile
        [] hits # {} /\ hit.kind = "dir" /\ (last \/ Len(NameAt(slots, Min(hits))) < Len(wanted)) -> NoFile
        [] hits # {} /\ hit.kind = "dir" -> [clu |-> hit.clu, size |-> -1]
        [] OTHER -> IF hit.clu \in 2..(EOC - 1) THEN [clu |-> hit.clu, size |-> hit.size] ELSE NoFile

bios_open(vol, path) ==
  LET reached[i \in 0..Len(path)] ==
        IF i = 0 THEN [clu |-> Root, size |-> -1]
        ELSE LET r == reached[i - 1]
             IN  IF r.size # -1 THEN r ELSE Component(vol, r.clu, path[i], i = Len(path))
  IN  reached[Len(path)]

-----------------------------------------------------------------------------
(* Sector lba of the data area, counted from cluster 0.                    *)
SectorAt(vol, lba) ==
  LET c == lba \div spc
      s == lba % spc
  IN  IF c \in Clusters
      THEN SubSeq(BytesIn(vol.data[c]), s * SectorBytes + 1, (s + 1) * SectorBytes)
      ELSE [i \in 1..SectorBytes |-> 0]

(* bios_read: the bytes it stores for size bytes of the open file from     *)
(* offs on.  left is secleft, skip the bytes of the first sector before    *)
(* offs.                                                                   *)
bios_read(vol, file, offs, wanted) ==
  LET size == Min({wanted, file.size - offs})
      ns   == (offs % ClusterBytes) \div SectorBytes
      skip == offs % SectorBytes
      hop[n \in Nat] == IF n = 0 THEN file.clu ELSE bios_nextclu(vol, hop[n - 1])
      at   == hop[offs \div ClusterBytes]
      begin == IF offs = 0 THEN [lba |-> 0, left |-> 0, clu |-> file.clu, out |-> <<>>]
               ELSE [lba |-> at * spc + ns - 1, left |-> spc - ns - 1, clu |-> at, out |-> <<>>]
      position(r) ==
        IF r.left > 0 THEN [r EXCEPT !.left = @ - 1, !.lba = @ + 1]
        ELSE [r EXCEPT !.left = spc - 1, !.lba = r.clu * spc, !.clu = bios_nextclu(vol, r.clu)]
      take(r, from) ==
        LET sector == SectorAt(vol, r.lba)
            n      == Min({SectorBytes - from, size - Len(r.out)})
        IN  [r EXCEPT !.out = @ \o SubSeq(sector, from + 1, from + n)]
      loop[n \in Nat] ==
        IF n = 0 THEN begin
        ELSE LET r == loop[n - 1]
             IN  IF Len(r.out) = size \/ (r.left = 0 /\ r.clu = 0) THEN r
                 ELSE take(position(r), IF n = 1 THEN skip ELSE 0)
  IN  IF file.clu < 2 \/ offs >= file.size \/ wanted = 0 \/ at = 0 THEN <<>>
      ELSE loop[(size + skip) \div SectorBytes + 1].out
=============================================================================

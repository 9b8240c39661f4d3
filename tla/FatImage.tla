------------------------------ MODULE FatImage ------------------------------
(***************************************************************************)
(* simpleboot.c: the tool that creates a boot partition (fat_format) and   *)
(* fills it, or updates the files of an existing one.  A session loads the *)
(* FAT and the counters of the FSInfo sector, adds files and directories,  *)
(* writing their data and entries at once, adds the two loaders on         *)
(* contiguous clusters, and writes FAT and counters at its end.            *)
(*                                                                         *)
(* What it writes is read back by FatVolume's bios_open and bios_read.     *)
(***************************************************************************)
EXTENDS FatVolume

CONSTANTS
  SlotBytes,    \* bytes of a directory entry (32)
  LfnChars,     \* characters in an lfn slot (13)
  ShortChars,   \* characters of a name that needs no lfn slot
  Names, DirNames, Sizes,
  LoaderDir, LoaderName, LoaderSize,  \* EFI/BOOT/BOOTX64.EFI
  RpiName, RpiSize,                   \* KERNEL8.IMG
  MaxOps,       \* bound on the additions of all sessions
  HardCases     \* cases the input contains, see HardCase

VARIABLES
  img,      \* fat_fat32, fat_nextcluster, fat_freeclu; the device's clusters
  saved,    \* FAT and FSInfo on the device
  phase,    \* "closed", "open" (a session runs) or "failed"
  dirs,     \* directories by path: the cluster the tool knows them by
  files,    \* what finished sessions put in the volume, by path
  pending,  \* what the current session has put there
  loader,   \* first clusters of the loaders, as boot sector and boot catalog have them
  ops       \* additions so far

vars == <<img, saved, phase, dirs, files, pending, loader, ops>>

DataClusters == LastCluster - 1
Device       == [fat |-> saved.fat, data |-> img.data]
CeilDiv(a, b) == (a + b - 1) \div b

-----------------------------------------------------------------------------
(* fat_format: FAT, and FSInfo as fat_finish leaves it.                    *)
FreshFat == [c \in Clusters |-> IF c = Root THEN EOC ELSE 0]
Formatted == [fat |-> FreshFat, next |-> 1, free |-> DataClusters - 1]
Label == Slot("label", <<>>, 0, 0, 0)
fat_format ==
  [c \in Clusters |-> IF c = Root
                      THEN DirBlock(<<Label>> \o [i \in 1..(ClusterSlots - 1) |-> Blank])
                      ELSE Zeros]

(* Mutants of fat_findclu: only the first cluster of a run is looked at;   *)
(* one cluster is counted, however many are taken.                         *)
fat_findclu_FirstOnly(v, count) ==
  LET cnt == Max({count, 1})
      runs == {c \in 3..(v.next - 1) : v.fat[c] = 0}
      clu  == IF runs = {} THEN v.next ELSE Min(runs)
      last == clu + cnt - 1
  IN  [clu |-> clu,
       v   |-> [v EXCEPT !.next = Max({@, last + 1}), !.free = @ - cnt,
                         !.fat  = [c \in Clusters |-> CASE c \in clu..(last - 1) -> c + 1
                                                        [] c = last -> EOC
                                                        [] OTHER -> @[c]]]]

fat_findclu_CountsOne(v, count) ==
  LET cnt  == Max({count, 1})
      runs == {c \in 3..(v.next - 1) : \A i \in c..(c + cnt - 1) : i < v.next /\ v.fat[i] = 0}
      clu  == IF runs = {} THEN v.next ELSE Min(runs)
      last == clu + cnt - 1
  IN  [clu |-> clu,
       v   |-> [v EXCEPT !.next = Max({@, last + 1}), !.free = @ - 1,
                         !.fat  = [c \in Clusters |-> CASE c \in clu..(last - 1) -> c + 1
                                                        [] c = last -> EOC
                                                        [] OTHER -> @[c]]]]

(* fat_findclu: the first free run of cnt clusters below fat_nextcluster,  *)
(* or the clusters from fat_nextcluster on; linked to a chain.             *)
fat_findclu(v, count) ==
  LET cnt  == Max({count, 1})
      runs == {c \in 3..(v.next - 1) : \A i \in c..(c + cnt - 1) : i < v.next /\ v.fat[i] = 0}
      clu  == IF runs = {} THEN Max({3, v.next}) ELSE Min(runs)
      last == clu + cnt - 1
  IN  IF v.free < cnt THEN [v |-> v, clu |-> 0]
      ELSE [clu |-> clu,
            v   |-> [v EXCEPT !.next = IF clu = @ THEN @ + cnt ELSE @,
                              !.free = @ - cnt,
                              !.fat  = [c \in Clusters |-> CASE c \in clu..(last - 1) -> c + 1
                                                             [] c = last -> EOC
                                                             [] OTHER -> @[c]]]]

InUse(v, clu) == clu > 0 /\ clu < v.next

(* fat_dirent and fat_add look for the block to write from the start of    *)
(* the directory: the first one whose end is not before offset.            *)
BlockFor(offset) == Max({0, CeilDiv(offset, ClusterSlots) - 1})

(* Writes block b of a directory's slots.                                  *)
WriteBlock(v, chain, b, slots) ==
  IF b + 1 > Len(chain) THEN v
  ELSE [v EXCEPT !.data[chain[b + 1]] =
          DirBlock([i \in 1..ClusterSlots |->
                      IF b * ClusterSlots + i <= Len(slots) THEN slots[b * ClusterSlots + i] ELSE Blank])]

(* fat_dirent, entry i exists.  A file's clusters are freed but for the    *)
(* first; "contiguous" frees that one too and takes a run.                 *)
Freed(v, clu) ==
  LET chain == IF InUse(v, clu) THEN ToSet(Chain(v.fat, clu, v.next)) ELSE {}
  IN  [v EXCEPT !.fat  = [c \in Clusters |-> IF c \in chain THEN 0 ELSE @[c]],
                !.free = @ + Cardinality(chain)]

(* Mutant: the entry keeps its old size on the volume.                     *)
UpdateEntry_OldSize(v, chain, slots, i, add, flen) ==
  LET freed == Freed(v, slots[i].clu)
  IN  [clu |-> slots[i].clu, v |-> [freed EXCEPT !.free = @ - 1, !.fat[slots[i].clu] = EOC]]

UpdateEntry(v, chain, slots, i, add, flen) ==
  LET clu == slots[i].clu
      kept(freed) == IF clu = 0 THEN freed ELSE [freed EXCEPT !.free = @ - 1]
      found(w) ==
        CASE flen = 0 -> [v |-> w, clu |-> 0]
          [] flen # 0 /\ add = "contiguous" ->
               fat_findclu(IF InUse(v, clu) THEN [w EXCEPT !.fat[clu] = 0, !.free = @ + 1] ELSE w,
                           CeilDiv(flen, ClusterBytes))
          [] OTHER -> [clu |-> clu, v |-> IF InUse(v, clu) THEN [w EXCEPT !.fat[clu] = EOC] ELSE w]
      written(f) ==
        [clu |-> f.clu,
         v   |-> WriteBlock(f.v, chain, BlockFor(i - 1), [slots EXCEPT ![i].clu = f.clu, ![i].size = flen])]
  IN  written(found(kept(Freed(v, clu))))

(* fat_dirent, the entry is new.  LfnSlots is 0 if the name is upper case  *)
(* and short.  The clusters added to a full directory are counted with     *)
(* bytes taken for slots.                                                  *)
LfnSlots(name) ==
  IF name = Upper(name) /\ Len(name) <= ShortChars THEN 0 ELSE CeilDiv(Len(name), LfnChars)

Grown(v, chain, used, n) ==
  IF used + n + 1 < Len(chain) * ClusterSlots THEN v
  ELSE LET more == fat_findclu(v, CeilDiv((n * SlotBytes + 1) * SlotBytes, ClusterSlots * SlotBytes))
       IN  [more.v EXCEPT !.fat[Last(chain)] = more.clu]

(* The entry of the cluster that was found, in one block or two, and the   *)
(* first block of a new directory.                                         *)
WriteEntry(found, parent, slots, name, isdir, flen) ==
  LET n     == LfnSlots(name)
      entry == Slot(IF isdir THEN "dir" ELSE "file", IF n = 0 THEN name ELSE <<"~">>, 0, found.clu, flen)
      new   == slots \o [k \in 1..n |-> Slot("lfn", name, n + 1 - k, 0, 0)] \o <<entry>>
      b     == BlockFor(Len(slots))
      links == Chain(found.v.fat, parent, found.v.next)
      first == WriteBlock(found.v, links, b, new)
      both  == IF Len(new) > (b + 1) * ClusterSlots THEN WriteBlock(first, links, b + 1, new) ELSE first
      dots  == <<Slot("dot", <<>>, 0, found.clu, 0),
                 Slot("dot", <<>>, 0, IF parent = Root THEN 0 ELSE parent, 0)>>
                 \o [i \in 1..(ClusterSlots - 2) |-> Blank]
  IN  [clu |-> found.clu,
       v   |-> IF isdir /\ found.clu \in Clusters THEN [both EXCEPT !.data[found.clu] = DirBlock(dots)] ELSE both]

NewEntry(v, parent, chain, slots, add, name, isdir, flen) ==
  LET found(grown) ==
        IF ~isdir /\ flen = 0 THEN [v |-> grown, clu |-> 0]
        ELSE fat_findclu(grown, IF add = "contiguous" THEN CeilDiv(flen, ClusterBytes) ELSE 1)
  IN  WriteEntry(found(Grown(v, chain, Len(slots), LfnSlots(name))), parent, slots, name, isdir, flen)

(* Parent 0, from a directory for which there was no room, gets no entry   *)
(* here; the tool writes it to what lies where cluster 0 would be.         *)
fat_dirent(v, parent, add, name, isdir, flen) ==
  LET chain == Chain(v.fat, parent, v.next)
      slots == EntriesOf(v, chain)
      hits  == {i \in DOMAIN slots : slots[i].kind \in {"file", "dir"} /\ Upper(NameAt(slots, i)) = Upper(name)}
      result(done) == [clu |-> done.clu, v |-> done.v,
                       ok  |-> \/ done.clu = 0 /\ flen = 0
                               \/ done.clu > Root /\ done.clu < done.v.next]
  IN  result(CASE parent = 0 -> [clu |-> 0, v |-> v]
               [] parent # 0 /\ hits = {} -> NewEntry(v, parent, chain, slots, add, name, isdir, flen)
               [] parent # 0 /\ hits # {} /\ slots[Min(hits)].kind = "file" ->
                    UpdateEntry(v, chain, slots, Min(hits), add, flen)
               [] OTHER -> [clu |-> slots[Min(hits)].clu, v |-> v])

-----------------------------------------------------------------------------
(* fat_add: the content cluster by cluster, each but the first found when  *)
(* the one before is written, and linked to it.                            *)
BytesOfBlock(content, k) ==
  DataBlock([i \in 1..ClusterBytes |->
               IF (k - 1) * ClusterBytes + i <= Len(content) THEN content[(k - 1) * ClusterBytes + i] ELSE 0])

PutBlock(v, clu, content, k) ==
  IF clu \in Clusters THEN [v EXCEPT !.data[clu] = BytesOfBlock(content, k)] ELSE v

fat_add(v, parent, name, content) ==
  LET put(entry) ==
        LET block[k \in Nat] ==
              IF k = 1 THEN [v |-> PutBlock(entry.v, entry.clu, content, 1), clu |-> entry.clu]
              ELSE LET p     == block[k - 1]
                       found == fat_findclu(p.v, 1)
                   IN  IF p.clu = 0 \/ found.clu = 0 THEN [p EXCEPT !.clu = 0]
                       ELSE [clu |-> found.clu,
                             v   |-> PutBlock([found.v EXCEPT !.fat[p.clu] = found.clu], found.clu, content, k)]
        IN  IF entry.ok /\ Len(content) > 0 THEN block[CeilDiv(Len(content), ClusterBytes)].v ELSE entry.v
  IN  put(fat_dirent(v, parent, "add", name, FALSE, Len(content)))

-----------------------------------------------------------------------------
(* Cases that HardCases allows in the input.                               *)
(*   "start"   a file is updated whose entry is the first of a directory   *)
(*             cluster other than the first                                *)
(*   "empty"   an existing file is emptied or an empty one is given content*)
EntryIndex(dir, name) ==
  LET slots == EntriesOf(img, Chain(img.fat, dir, img.next))
  IN  {i \in DOMAIN slots : slots[i].kind = "file" /\ Upper(NameAt(slots, i)) = Upper(name)}

Existing == pending @@ files

HardCase(path, size) ==
  {case \in {"start", "empty"} :
     /\ path \in DOMAIN Existing
     /\ \/ case = "empty" /\ (size = 0) # (Len(Existing[path]) = 0)
        \/ case = "start" /\ \E i \in EntryIndex(dirs[Front(path)], Last(path)) :
                                  i > 1 /\ (i - 1) % ClusterSlots = 0}

Init ==
  /\ img = [fat |-> FreshFat, next |-> 3, free |-> DataClusters - 1, data |-> fat_format]
  /\ saved = Formatted
  /\ phase = "closed"
  /\ dirs = (<<>> :> Root)
  /\ files = <<>>
  /\ pending = <<>>
  /\ loader = <<>>
  /\ ops = 0

(* main: opens the image and loads what the last session saved.            *)
Start ==
  /\ phase = "closed"
  /\ ops < MaxOps
  /\ phase' = "open"
  /\ img' = [img EXCEPT !.fat = saved.fat, !.next = saved.next + 2, !.free = saved.free]
  /\ UNCHANGED <<saved, dirs, files, pending, loader, ops>>

Content(size) == [i \in 1..size |-> <<ops, i>>]

(* parsedir comes to a file of a directory that is already there.          *)
AddFile(d, name, size) ==
  LET path == d \o <<Upper(name)>> IN
  /\ phase = "open"
  /\ ops < MaxOps
  /\ dirs[d] # 0
  /\ HardCase(path, size) \subseteq HardCases
  /\ img' = fat_add(img, dirs[d], name, Content(size))
  /\ pending' = (path :> Content(size)) @@ pending
  /\ ops' = ops + 1
  /\ UNCHANGED <<saved, phase, dirs, files, loader>>

(* parsedir comes to a directory: it goes on in the cluster fat_dirent     *)
(* gives it.                                                               *)
AddDir(d, name) ==
  /\ phase = "open"
  /\ ops < MaxOps
  /\ d = <<>>
  /\ \E made \in {fat_dirent(img, dirs[d], "add", name, TRUE, 0)} :
       /\ img' = made.v
       /\ dirs' = (d \o <<Upper(name)>> :> made.clu) @@ dirs
  /\ ops' = ops + 1
  /\ UNCHANGED <<saved, phase, files, pending, loader>>

(* main after parsedir: the loaders, found or placed on contiguous         *)
(* clusters that are written in one go, then fat_finish and the metadata.  *)
LoaderPath == <<LoaderDir, LoaderName>>
RpiPath    == <<RpiName>>
LoaderText == (LoaderPath :> [i \in 1..LoaderSize |-> <<"loader", i>>])
              @@ (RpiPath :> [i \in 1..RpiSize |-> <<"rpi", i>>])

OnRun(file, content) ==
  [file EXCEPT !.v.data = [c \in Clusters |->
     IF c \in file.clu..(file.clu + CeilDiv(Len(content), ClusterBytes) - 1)
     THEN BytesOfBlock(content, c - file.clu + 1) ELSE @[c]]]

(* Mutant: the clusters of a loader are not asked for together.            *)
PutLoader_Anywhere(v, parent, name, content) ==
  OnRun(fat_dirent(v, parent, "add", name, FALSE, Len(content)), content)

PutLoader(v, parent, name, content) ==
  OnRun(fat_dirent(v, parent, "contiguous", name, FALSE, Len(content)), content)

WriteLoaders ==
  LET rpi(dir, x86, k8) ==
        [v  |-> k8.v, dir |-> dir.clu, at |-> (LoaderPath :> x86.clu) @@ (RpiPath :> k8.clu),
         ok |-> dir.ok /\ x86.ok /\ k8.ok]
      afterX86(dir, x86) == rpi(dir, x86, PutLoader(x86.v, Root, RpiName, LoaderText[RpiPath]))
      inDir(dir) == afterX86(dir, PutLoader(dir.v, dir.clu, LoaderName, LoaderText[LoaderPath]))
  IN  inDir(fat_dirent(img, Root, "add", LoaderDir, TRUE, 0))

(* fat_finish: FSInfo counts clusters from 2, and gets a free count if     *)
(* there is none.                                                          *)
fat_finish(v) ==
  [fat |-> v.fat, next |-> v.next - 2, free |-> IF v.free # 0 THEN v.free ELSE DataClusters - (v.next - 2)]

Finish ==
  /\ phase = "open"
  /\ \E made \in {WriteLoaders} :
       /\ made.ok
       /\ img' = made.v
       /\ saved' = fat_finish(made.v)
       /\ dirs' = (<<LoaderDir>> :> made.dir) @@ dirs
       /\ loader' = made.at
  /\ phase' = "closed"
  /\ files' = LoaderText @@ pending @@ files
  /\ pending' = <<>>
  /\ UNCHANGED ops

(* The session ends without writing metadata: no room for a loader, an     *)
(* error of the device, or the user stops it.                              *)
Fail ==
  /\ phase = "open"
  /\ phase' = "failed"
  /\ UNCHANGED <<img, saved, dirs, files, pending, loader, ops>>

Next ==
  \/ Start
  \/ \E d \in DOMAIN dirs, name \in Names, size \in Sizes : AddFile(d, name, size)
  \/ \E d \in DOMAIN dirs, name \in DirNames : AddDir(d, name)
  \/ Finish
  \/ Fail

Spec == Init /\ [][Next]_vars

-----------------------------------------------------------------------------
(* Type invariant of the tool's state (fat_fat32, counters and clusters).  *)
TypeOK ==
  /\ img.fat \in [Clusters -> 0..EOC]
  /\ img.next \in 1..EOC
  /\ img.free \in 0..DataClusters
  /\ DOMAIN img.data = Clusters
  /\ phase \in {"closed", "open", "failed"}
  /\ loader = <<>> \/ loader \in [{LoaderPath, RpiPath} -> 0..LastCluster]

(* After a session the loader (loader_x86.c, bios_open and bios_read)      *)
(* finds every file that was ever added and reads its latest content, from *)
(* any offset.                                                             *)
ReadsBack(path) ==
  LET file == bios_open(Device, path)
      text == files[path]
  IN  /\ file.size = Len(text)
      /\ \A offs \in 0..(Len(text) - 1), n \in {1, Len(text)} :
            bios_read(Device, file, offs, n) = SubSeq(text, offs + 1, Min({offs + n, Len(text)}))

FilesReadBack == phase = "closed" => \A path \in DOMAIN files : ReadsBack(path)

(* The chains of all files and directories never share a cluster, lie in   *)
(* the partition, and no other cluster is taken (fat_findclu, fat_dirent). *)
Chains ==
  LET slots(d)   == EntriesOf(img, Chain(img.fat, dirs[d], EOC))
      indexes(d) == LET all == slots(d) IN {i \in DOMAIN all : all[i].kind = "file"}
      fileOf(d)  == LET all == slots(d) IN {<<d, i, Chain(img.fat, all[i].clu, EOC)>> : i \in indexes(d)}
  IN  {<<d, 0, Chain(img.fat, dirs[d], EOC)>> : d \in DOMAIN dirs} \cup UNION {fileOf(d) : d \in DOMAIN dirs}

ChainsDisjoint ==
  LET chains == Chains
      held   == UNION {ToSet(c[3]) : c \in chains}
  IN  /\ held = {c \in Clusters : img.fat[c] # 0}
      /\ held \subseteq 2..LastCluster
      /\ MapThenSumSet(LAMBDA c : Len(c[3]), chains) = Cardinality(held)

(* FSInfo's count of free clusters is exact (fat_findclu and fat_dirent    *)
(* keep it by hand).                                                       *)
FreeCountExact == img.free = Cardinality({c \in 2..LastCluster : img.fat[c] = 0})

(* The boot sector and the boot catalog name a loader by its first sector, *)
(* knowing no FAT: the file that is in the FAT must be the sectors that    *)
(* follow.                                                                 *)
LoaderInOnePiece ==
  phase = "closed" =>
    \A path \in DOMAIN loader :
      /\ bios_open(Device, path).clu = loader[path]
      /\ Chain(img.fat, loader[path], EOC) =
           [k \in 1..CeilDiv(Len(LoaderText[path]), ClusterBytes) |-> loader[path] + k - 1]

(* No directory has a cluster whose old data would be read as entries.     *)
DirectoriesWiped ==
  \A d \in DOMAIN dirs : \A c \in ToSet(Chain(img.fat, dirs[d], EOC)) : img.data[c].kind # "data"

(* While a session runs, and after one that failed, the device still has   *)
(* the files of the sessions before (metadata is written last, but         *)
(* clusters and entries at once).                                          *)
OldFilesKept == phase # "closed" => \A path \in DOMAIN files : ReadsBack(path)
=============================================================================
